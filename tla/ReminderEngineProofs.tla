------------------------ MODULE ReminderEngineProofs ------------------------
(***************************************************************************)
(* Theorems about ReminderEngine, for every set of users, events and rules *)
(* and every calendar.  First type correctness, the inductive invariant    *)
(* HeldIsOpen and what follows from the two: at most one message per       *)
(* outcome, finished rows that stay, sends that are due, and the           *)
(* implementation of ReminderLedger.  Then invariants inductive on their   *)
(* own: stored occurrences fit their dates (CopiesFit), what is out of     *)
(* service stays quiet (HeldInService), the scan drops nothing when it     *)
(* moves on (ScanAccounts), and one message a minute (FirstRuleSpeaks).    *)
(***************************************************************************)
EXTENDS ReminderEngine, TLAPS

\* The conjuncts of the assumption, one by one.
LEMMA EngineConstants ==
  /\ Owner \in [Events -> Users]
  /\ RuleOffset \in [Rules -> Nat]
  /\ RuleAt \in [Rules -> Int]
  /\ StartDates \subseteq [Tracks -> Dates \cup {None}]
  /\ Grace \in Nat /\ MaxFaults \in Nat /\ MaxEdits \in Nat
  BY Zenon, EngineAssumption

\* Types of what the helpers return.
LEMMA LocalDayType ==
  ASSUME NEW u \in Users, NEW t \in 0 .. Horizon
  PROVE  LocalDay(u, t) \in Days
  BY CalendarAssumption

LEMMA KeyParts ==
  ASSUME NEW k \in Keys
  PROVE  k[1] \in Events /\ k[2] \in Rules /\ k[3] \in Days /\ Owner[k[1]] \in Users
  BY EngineConstants DEF Keys

LEMMA FireUTCType ==
  ASSUME NEW k \in Keys
  PROVE  FireUTC(k) \in Int
  <1>1. /\ k[3] \in Int /\ RuleOffset[k[2]] \in Int /\ RuleAt[k[2]] \in Int
        /\ Tz[Owner[k[1]]] \in Int /\ DayLen \in Int
    <2>1. k[1] \in Events /\ k[2] \in Rules /\ k[3] \in Days /\ Owner[k[1]] \in Users
      BY KeyParts
    <2>2. DayLen \in Int /\ LastDay \in Int /\ Tz \in [Users -> Int]
      BY CalendarAssumption
    <2>3. k[3] \in Int /\ Tz[Owner[k[1]]] \in Int
      BY <2>1, <2>2 DEF Days
    <2>4. RuleOffset[k[2]] \in Int /\ RuleAt[k[2]] \in Int
      BY <2>1, EngineConstants
    <2> QED
      BY <2>2, <2>3, <2>4
  <1>2. (k[3] - RuleOffset[k[2]]) * DayLen \in Int
    BY <1>1
  <1> QED
    BY <1>1, <1>2 DEF FireUTC

LEMMA RecurType ==
  ASSUME NEW dt \in Dates \cup {None}, NEW today \in Days
  PROVE  Recur(dt, today) \in Days \cup {None}
  BY CalendarAssumption DEF Recur

LEMMA RecomputedType ==
  ASSUME NEW row \in EventRow, NEW today \in Days
  PROVE  Recomputed(row, today) \in EventRow
  BY RecurType DEF Recomputed, EventRow

LEMMA AdvancedType ==
  ASSUME NEW row \in EventRow, NEW today \in Days
  PROVE  Advanced(row, today) \in EventRow
  BY RecurType DEF Advanced, EventRow

LEMMA WithoutType ==
  ASSUME NEW f, IsRowMap(f), NEW e
  PROVE  IsRowMap(Without(f, e))
  BY DEF IsRowMap, Without

LEMMA EmptyRowMap == IsRowMap([e \in {} |-> None])
  BY DEF IsRowMap

LEMMA UpdateEventType ==
  ASSUME DataTypeOK, NEW e \in Events, NEW row \in EventRow, UpdateEvent(e, row)
  PROVE  ev' \in [Events -> EventRow]
  BY DEF UpdateEvent, DataTypeOK

-----------------------------------------------------------------------------
\* Initially every variable has its type.
LEMMA InitTypeOK == Init => TypeOK
  <1> HAVE Init
  <1> USE DEF Init
  <1>1. DataTypeOK
    <2>1. now \in 0 .. Horizon
      BY CalendarAssumption
    <2>2. usr \in [Users -> UserRow]
      BY DEF UserRow
    <2>3. ev \in [Events -> EventRow]
      <3>1. PICK start \in [Events -> StartDates] :
              ev = [e \in Events |->
                 [active |-> TRUE, date |-> start[e],
                  occ |-> [t \in Tracks |-> Recur(start[e][t], LocalDay(Owner[e], 0))]]]
        OBVIOUS
      <3>2. ASSUME NEW e \in Events
            PROVE  [active |-> TRUE, date |-> start[e],
                    occ |-> [t \in Tracks |-> Recur(start[e][t], LocalDay(Owner[e], 0))]]
                     \in EventRow
        <4>1. start[e] \in [Tracks -> Dates \cup {None}]
          BY EngineConstants
        <4>2. LocalDay(Owner[e], 0) \in Days
          BY EngineConstants, CalendarAssumption, LocalDayType
        <4>3. \A t \in Tracks : Recur(start[e][t], LocalDay(Owner[e], 0)) \in Days \cup {None}
          BY <4>1, <4>2, RecurType
        <4> QED
          BY <4>1, <4>3 DEF EventRow
      <3> QED
        BY <3>1, <3>2
    <2> QED
      BY <2>1, <2>2, <2>3 DEF DataTypeOK
  <1>2. LogTypeOK
    <2>1. DOMAIN log = {}
      OBVIOUS
    <2>2. delivered \in [Keys -> Nat] /\ lost \in [Keys -> Nat]
      OBVIOUS
    <2> QED
      BY <2>1, <2>2 DEF LogTypeOK
  <1>3. TickTypeOK
    <2>1. IsRowMap(snap) /\ IsRowMap(rows)
      BY EmptyRowMap
    <2>2. evOk \in BOOLEAN
      OBVIOUS
    <2>3. 0 \in 0 .. Horizon /\ 0 \in 0 .. 2
      BY CalendarAssumption
    <2> QED
      BY <2>1, <2>2, <2>3 DEF TickTypeOK, PcValues, Statuses
  <1>4. JobTypeOK /\ quiet = {}
    BY EmptyRowMap, EngineConstants DEF JobTypeOK
  <1> QED
    BY <1>1, <1>2, <1>3, <1>4 DEF TypeOK
-----------------------------------------------------------------------------
\* Types of what the actions write.
LEMMA TickGoneType ==
  ASSUME TickGone
  PROVE  TickTypeOK'
  <1>1. IsRowMap(snap)' /\ IsRowMap(rows)'
    BY EmptyRowMap DEF TickGone, IsRowMap
  <1>2. evOk' \in BOOLEAN
    BY DEF TickGone
  <1>3. 0 \in 0 .. Horizon /\ 0 \in 0 .. 2
    BY CalendarAssumption
  <1> QED
    BY <1>1, <1>2, <1>3 DEF TickGone, TickTypeOK, PcValues, Statuses

LEMMA InsertType ==
  ASSUME LogTypeOK, NEW k \in Keys, Insert(k), UNCHANGED histVars
  PROVE  LogTypeOK'
  <1>1. [status |-> "pending", sched |-> FireUTC(k)] \in LogRow
    BY FireUTCType DEF LogRow, Statuses
  <1>2. DOMAIN log' = DOMAIN log \cup {k}
    BY DEF Insert
  <1>3. \A x \in DOMAIN log' : log'[x] \in LogRow
    BY <1>1, <1>2 DEF Insert, LogTypeOK
  <1>4. delivered' \in [Keys -> Nat] /\ lost' \in [Keys -> Nat]
    BY DEF histVars, LogTypeOK
  <1> QED
    BY <1>2, <1>3, <1>4 DEF LogTypeOK

LEMMA DeliverType ==
  ASSUME LogTypeOK, NEW k, NEW n \in {0, 1}, Deliver(k, n)
  PROVE  delivered' \in [Keys -> Nat]
  <1>1. \A x \in Keys : delivered[x] \in Nat /\ delivered[x] + n \in Nat
    BY DEF LogTypeOK
  <1>2. delivered' = [delivered EXCEPT ![k] = delivered[k] + n]
    BY DEF Deliver
  <1> QED
    BY <1>1, <1>2 DEF LogTypeOK

LEMMA RowType ==
  ASSUME NEW f, IsRowMap(f), NEW e \in DOMAIN f
  PROVE  e \in Events /\ f[e] \in EventRow
  BY DEF IsRowMap

LEMMA UserRowType ==
  ASSUME DataTypeOK, NEW u, NEW b \in BOOLEAN
  PROVE  /\ [usr EXCEPT ![u].notif = b] \in [Users -> UserRow]
         /\ [usr EXCEPT ![u].blocked = b] \in [Users -> UserRow]
         /\ [usr EXCEPT ![u].botBlocked = b] \in [Users -> UserRow]
         /\ [usr EXCEPT ![u].here = b] \in [Users -> UserRow]
  <1>1. usr \in [Users -> UserRow]
    BY DEF DataTypeOK
  <1>2. ASSUME NEW row \in UserRow
        PROVE  /\ [row EXCEPT !.notif = b] \in UserRow
               /\ [row EXCEPT !.blocked = b] \in UserRow
               /\ [row EXCEPT !.botBlocked = b] \in UserRow
               /\ [row EXCEPT !.here = b] \in UserRow
    BY DEF UserRow
  <1> QED
    BY <1>1, <1>2

-----------------------------------------------------------------------------
\* Every step keeps the types.  quiet is left to the end: WatchQuiet follows
\* every step.
Typed == DataTypeOK /\ LogTypeOK /\ TickTypeOK /\ JobTypeOK


LEMMA RecoverType ==
  ASSUME TypeOK, TickStart \/ Recover
  PROVE  Typed'
  <1> USE DEF Typed, TypeOK, dataVars, histVars, scanVars, sendVars, jobVars
  <1>1. CASE TickStart
    <2>1. PendingBefore(now) \subseteq [key : Keys, sched : Int]
      BY DEF LogTypeOK, PendingBefore, LogRow
    <2>2. rec' \subseteq [key : Keys, sched : Int]
      BY <1>1, <2>1 DEF TickStart
    <2>3. evOk' \in BOOLEAN /\ IsRowMap(snap') /\ IsRowMap(rows')
      BY <1>1 DEF TickStart, TickTypeOK
    <2>4. TickTypeOK'
      BY <1>1, <2>2, <2>3 DEF TickStart, DataTypeOK, TickTypeOK, PcValues
    <2>5. DataTypeOK' /\ LogTypeOK'
      BY <1>1 DEF TickStart, DataTypeOK, LogTypeOK
    <2>6. JobTypeOK'
      BY <1>1, EngineConstants DEF TickStart, Fault, JobTypeOK
    <2> QED
      BY <2>4, <2>5, <2>6
  <1>2. ASSUME NEW p \in rec, RecoverEvent(p) PROVE Typed'
    <2>1. p.key \in Keys /\ rec' \subseteq [key : Keys, sched : Int]
      BY <1>2 DEF TickTypeOK, RecoverEvent
    <2>2. evOk' \in BOOLEAN
      BY <1>2 DEF TickTypeOK, RecoverEvent, EventOK
    <2>3. TickTypeOK'
      BY <1>2, <2>1, <2>2 DEF RecoverEvent, ToMark, TickTypeOK, PcValues, Statuses
    <2>4. DataTypeOK' /\ LogTypeOK'
      BY <1>2 DEF RecoverEvent, DataTypeOK, LogTypeOK
    <2>5. JobTypeOK'
      BY <1>2, EngineConstants DEF RecoverEvent, Fault, JobTypeOK
    <2> QED
      BY <2>3, <2>4, <2>5
  <1>3. CASE RecoverUser
    <2>1. TickTypeOK'
      BY <1>3 DEF RecoverUser, ToMark, TickTypeOK, PcValues, Statuses
    <2>2. DataTypeOK' /\ LogTypeOK'
      BY <1>3 DEF RecoverUser, DataTypeOK, LogTypeOK
    <2>3. JobTypeOK'
      BY <1>3, EngineConstants DEF RecoverUser, Fault, JobTypeOK
    <2> QED
      BY <2>1, <2>2, <2>3
  <1>4. CASE RecoverRule
    <2>1. TickTypeOK'
      BY <1>4 DEF RecoverRule, ToMark, TickTypeOK, PcValues, Statuses
    <2>2. DataTypeOK' /\ LogTypeOK'
      BY <1>4 DEF RecoverRule, DataTypeOK, LogTypeOK
    <2>3. JobTypeOK'
      BY <1>4, EngineConstants DEF RecoverRule, Fault, JobTypeOK
    <2> QED
      BY <2>1, <2>2, <2>3
  <1> QED
    BY <1>1, <1>2, <1>3, <1>4 DEF Recover

LEMMA ScanType ==
  ASSUME TypeOK, Scan
  PROVE  Typed'
  <1> USE DEF Typed, TypeOK, dataVars, histVars, sendVars, jobVars
  <1>1. CASE TickUsers
    BY <1>1 DEF TickUsers, DataTypeOK, LogTypeOK, TickTypeOK, JobTypeOK, PcValues
  <1>2. ASSUME NEW u \in userq, TickEvents(u) PROVE Typed'
    <2>1. IsRowMap(snap')
      BY <1>2 DEF TickEvents, DataTypeOK, IsRowMap
    <2>2. TickTypeOK'
      BY <1>2, <2>1 DEF TickEvents, TickTypeOK, PcValues
    <2>3. DataTypeOK' /\ LogTypeOK' /\ JobTypeOK'
      BY <1>2 DEF TickEvents, DataTypeOK, LogTypeOK, JobTypeOK
    <2> QED
      BY <2>2, <2>3
  <1>3. CASE TickRules
    <2>1. who \in Users /\ IsRowMap(snap) /\ tickNow \in 0 .. Horizon
      BY <1>3 DEF TickTypeOK, TickRules
    <2>2. ASSUME NEW task \in DueTasks(snap, ruleSnap', tickNow)
          PROVE  task \in Task
      <3>1. PICK e \in DOMAIN snap, r \in ruleSnap', tr \in Tracks :
              task = [key |-> <<e, r, snap[e].occ[tr]>>, track |-> tr]
        BY DEF DueTasks
      <3>2. task.key[3] # None
        BY DEF DueTasks
      <3>3. snap[e].occ[tr] \in Days \cup {None}
        BY <2>1, RowType DEF EventRow
      <3>4. e \in Events /\ r \in Rules
        BY <1>3, <2>1 DEF IsRowMap, TickRules
      <3>5. <<e, r, snap[e].occ[tr]>> \in Keys
        BY <3>1, <3>2, <3>3, <3>4 DEF Keys
      <3> QED
        BY <3>1, <3>5 DEF Task
    <2>3. todo' \subseteq Task
      BY <1>3, <2>2 DEF TickRules
    <2>4. LocalDay(who, tickNow) \in Days
      BY <2>1, LocalDayType
    <2>5. \A e \in DOMAIN snap :
            e \in Events /\ Advanced(snap[e], LocalDay(who, tickNow)) \in EventRow
      BY <2>1, <2>4, RowType, AdvancedType
    <2>6. rows' = [e \in {x \in DOMAIN snap :
                            Advanced(snap[x], LocalDay(who, tickNow)) # snap[x]}
                     |-> Advanced(snap[e], LocalDay(who, tickNow))]
      BY <1>3 DEF TickRules
    <2>7. IsRowMap(rows')
      BY <2>5, <2>6 DEF IsRowMap
    <2>8. ruleSnap' \subseteq Rules
      BY <1>3 DEF TickRules
    <2>9. TickTypeOK'
      BY <1>3, <2>3, <2>7, <2>8 DEF TickTypeOK, TickRules, PcValues
    <2>10. DataTypeOK' /\ LogTypeOK' /\ JobTypeOK'
      BY <1>3 DEF TickRules, DataTypeOK, LogTypeOK, JobTypeOK
    <2> QED
      BY <2>9, <2>10
  <1>4. ASSUME NEW task \in todo,
               QueueLate(task) \/ QueueSameMinute(task) \/ QueueSend(task)
        PROVE  Typed'
    <2>1. task.key \in Keys /\ task.track \in Tracks
      BY DEF TickTypeOK, Task
    <2>2. TakeTask(task)
      BY <1>4 DEF QueueLate, QueueSameMinute, QueueSend
    <2>3. Minute(task) \in Events \X Tracks \X Int
      BY <2>1, KeyParts, FireUTCType DEF Minute
    <2>4. TickTypeOK'
      <3>1. CASE QueueLate(task)
        BY <2>1, <3>1 DEF TickTypeOK, TakeTask, QueueLate, ToMark, PcValues, Statuses
      <3>2. CASE QueueSameMinute(task)
        BY <3>2 DEF TickTypeOK, TakeTask, QueueSameMinute
      <3>3. CASE QueueSend(task)
        BY <2>1, <2>3, <3>3 DEF TickTypeOK, TakeTask, QueueSend
      <3> QED
        BY <1>4, <3>1, <3>2, <3>3
    <2>5. LogTypeOK'
      <3>1. UNCHANGED histVars
        BY <2>2 DEF TakeTask
      <3>2. Insert(task.key) \/ UNCHANGED log
        BY <1>4 DEF QueueLate, QueueSameMinute, QueueSend
      <3>3. CASE UNCHANGED log
        BY <3>1, <3>3 DEF LogTypeOK
      <3> QED
        BY <2>1, <3>1, <3>2, <3>3, InsertType
    <2>6. DataTypeOK' /\ JobTypeOK'
      BY <2>2 DEF TakeTask, DataTypeOK, JobTypeOK
    <2> QED
      BY <2>4, <2>5, <2>6
  <1>5. ASSUME NEW task \in todo, QueueGone(task) PROVE Typed'
    <2>1. TickTypeOK'
      BY <1>5, TickGoneType DEF QueueGone
    <2>2. DataTypeOK' /\ LogTypeOK' /\ JobTypeOK'
      BY <1>5 DEF QueueGone, DataTypeOK, LogTypeOK, JobTypeOK
    <2> QED
      BY <2>1, <2>2
  <1>6. ASSUME NEW e \in DOMAIN rows, TickAdvance(e) PROVE Typed'
    <2>1. e \in Events /\ rows[e] \in EventRow
      BY RowType DEF TickTypeOK
    <2>2. ev' \in [Events -> EventRow]
      BY <1>6, <2>1, UpdateEventType DEF TickAdvance
    <2>3. IsRowMap(rows')
      BY <1>6, WithoutType DEF TickTypeOK, TickAdvance
    <2>4. TickTypeOK'
      BY <1>6, <2>3 DEF TickTypeOK, TickAdvance
    <2>5. DataTypeOK' /\ LogTypeOK' /\ JobTypeOK'
      BY <1>6, <2>2 DEF TickAdvance, DataTypeOK, LogTypeOK, JobTypeOK
    <2> QED
      BY <2>4, <2>5
  <1> QED
    BY <1>1, <1>2, <1>3, <1>4, <1>5, <1>6 DEF Scan
LEMMA SendType ==
  ASSUME TypeOK, Send
  PROVE  Typed'
  <1> USE DEF Typed, TypeOK, dataVars, histVars, scanVars, jobVars, sendFrame
  <1>1. ASSUME NEW k \in sends, SendNext(k) PROVE Typed'
    <2>1. TickTypeOK'
      BY <1>1, EmptyRowMap DEF SendNext, TickTypeOK, PcValues
    <2>2. DataTypeOK' /\ LogTypeOK' /\ JobTypeOK'
      BY <1>1 DEF SendNext, DataTypeOK, LogTypeOK, JobTypeOK
    <2> QED
      BY <2>1, <2>2
  <1>2. ASSUME SendOk \/ SendFlood \/ SendError \/ SendForbidden PROVE Typed'
    <2>1. TickTypeOK'
      BY <1>2 DEF SendOk, SendFlood, SendError, SendForbidden, ToMark, TickTypeOK,
                  PcValues, Statuses
    <2>2. delivered' \in [Keys -> Nat]
      BY <1>2, DeliverType DEF SendOk, SendFlood, SendError, SendForbidden, LogTypeOK
    <2>3. UNCHANGED <<now, usr, place, ev, rule, log, lost, jobUsers, jobRows, inflight,
                      edits, faults>>
      BY <1>2 DEF SendOk, SendFlood, SendError, SendForbidden
    <2> QED
      BY <2>1, <2>2, <2>3 DEF DataTypeOK, LogTypeOK, JobTypeOK
  <1>3. CASE SendBlock
    <2> DEFINE u == Owner[cur[1]]
    <2>1. [usr EXCEPT ![u].botBlocked = TRUE] \in [Users -> UserRow]
      BY UserRowType
    <2>2. usr' \in [Users -> UserRow]
      BY <1>3, <2>1 DEF DataTypeOK, SendBlock
    <2>3. UNCHANGED <<now, place, ev, rule>>
      BY <1>3 DEF SendBlock
    <2>4. DataTypeOK'
      BY <2>2, <2>3 DEF DataTypeOK
    <2>5. TickTypeOK'
      BY <1>3 DEF SendBlock, ToMark, TickTypeOK, PcValues, Statuses
    <2>6. LogTypeOK'
      BY <1>3 DEF SendBlock, LogTypeOK
    <2>7. JobTypeOK'
      BY <1>3, EngineConstants DEF SendBlock, Fault, JobTypeOK
    <2> QED
      BY <2>4, <2>5, <2>6, <2>7
  <1>4. CASE Mark
    <2>1. \A row \in LogRow : [row EXCEPT !.status = mark] \in LogRow
      BY DEF TickTypeOK, LogRow
    <2>2. LogTypeOK'
      BY <1>4, <2>1 DEF LogTypeOK, Mark
    <2>3. TickTypeOK'
      BY <1>4 DEF Mark, Unmarked, TickTypeOK, PcValues, Statuses
    <2>4. DataTypeOK' /\ JobTypeOK'
      BY <1>4 DEF Mark, DataTypeOK, JobTypeOK
    <2> QED
      BY <2>2, <2>3, <2>4
  <1> QED
    BY <1>1, <1>2, <1>3, <1>4 DEF Send

LEMMA TickEndType ==
  ASSUME TypeOK, TickEnd
  PROVE  Typed'
  <1> USE DEF TypeOK, dataVars, histVars, jobVars, TickEnd
  <1>1. TickTypeOK'
    BY TickGoneType
  <1>2. DataTypeOK' /\ LogTypeOK' /\ JobTypeOK'
    BY DEF DataTypeOK, LogTypeOK, JobTypeOK
  <1> QED
    BY <1>1, <1>2 DEF Typed

LEMMA JobType ==
  ASSUME TypeOK, Job
  PROVE  Typed'
  <1> USE DEF Typed, TypeOK, tickVars, scanVars, sendVars, histVars, jobFrame
  <1>1. CASE JobStart
    BY <1>1 DEF JobStart, DataTypeOK, LogTypeOK, TickTypeOK, JobTypeOK
  <1>2. ASSUME NEW u \in jobUsers, JobEvents(u) PROVE Typed'
    <2>1. LocalDay(u, now) \in Days
      BY LocalDayType DEF DataTypeOK, JobTypeOK
    <2>2. \A e \in Events : Recomputed(ev[e], LocalDay(u, now)) \in EventRow
      BY <2>1, RecomputedType DEF DataTypeOK
    <2>3. IsRowMap(jobRows')
      BY <1>2, <2>2 DEF JobEvents, IsRowMap
    <2>4. JobTypeOK'
      BY <1>2, <2>3 DEF JobTypeOK, JobEvents
    <2>5. DataTypeOK' /\ LogTypeOK' /\ TickTypeOK'
      BY <1>2 DEF JobEvents, DataTypeOK, LogTypeOK, TickTypeOK
    <2> QED
      BY <2>4, <2>5
  <1>3. ASSUME NEW e \in DOMAIN jobRows, JobUpdate(e) PROVE Typed'
    <2>1. e \in Events /\ jobRows[e] \in EventRow
      BY RowType DEF JobTypeOK
    <2>2. ev' \in [Events -> EventRow]
      BY <1>3, <2>1, UpdateEventType DEF JobUpdate
    <2>3. IsRowMap(jobRows')
      BY <1>3, WithoutType DEF JobTypeOK, JobUpdate
    <2>4. JobTypeOK'
      BY <1>3, <2>3 DEF JobTypeOK, JobUpdate
    <2>5. DataTypeOK' /\ LogTypeOK' /\ TickTypeOK'
      BY <1>3, <2>2 DEF JobUpdate, DataTypeOK, LogTypeOK, TickTypeOK
    <2> QED
      BY <2>4, <2>5
  <1> QED
    BY <1>1, <1>2, <1>3 DEF Job

\* A handler changes none of the tick's and the job's variables.
LEMMA HandlerType ==
  ASSUME TypeOK, Handler
  PROVE  Typed'
  <1> USE DEF Typed, TypeOK, dataVars, tickVars, scanVars, sendVars, histVars, jobVars,
              handFrame
  <1>1. ASSUME NEW e \in Events, NEW row \in EventRow, NEW kind \in {"mute", "date", "field"},
               Edit(kind), Prepare(e, row, kind)
        PROVE  Typed'
    <2>1. JobTypeOK'
      BY <1>1, EngineConstants DEF Edit, Prepare, JobTypeOK, Prepared
    <2>2. DataTypeOK' /\ LogTypeOK' /\ TickTypeOK'
      BY <1>1 DEF Prepare, DataTypeOK, LogTypeOK, TickTypeOK
    <2> QED
      BY <2>1, <2>2
  <1>2. ASSUME NEW e \in Events, MuteRead(e) \/ DateRead(e) \/ FieldRead(e) PROVE Typed'
    <2>1. Owner[e] \in Users
      BY EngineConstants
    <2>2. LocalDay(Owner[e], now) \in Days
      BY <2>1, LocalDayType DEF DataTypeOK
    <2>3. CASE MuteRead(e)
      <3>1. [ev[e] EXCEPT !.active = ~@] \in EventRow
        BY DEF DataTypeOK, EventRow
      <3> QED
        BY <1>1, <2>3, <3>1 DEF MuteRead
    <2>4. CASE DateRead(e)
      <3>1. PICK t \in Tracks, dt \in Dates :
              Prepare(e, Recomputed([ev[e] EXCEPT !.date[t] = dt], LocalDay(Owner[e], now)),
                      "date")
        BY <2>4 DEF DateRead
      <3>2. [ev[e] EXCEPT !.date[t] = dt] \in EventRow
        BY DEF DataTypeOK, EventRow
      <3>3. Recomputed([ev[e] EXCEPT !.date[t] = dt], LocalDay(Owner[e], now)) \in EventRow
        BY <2>2, <3>2, RecomputedType
      <3> QED
        BY <1>1, <2>4, <3>1, <3>3 DEF DateRead
    <2>5. CASE FieldRead(e)
      <3>1. Recomputed(ev[e], LocalDay(Owner[e], now)) \in EventRow
        BY <2>2, RecomputedType DEF DataTypeOK
      <3> QED
        BY <1>1, <2>5, <3>1 DEF FieldRead
    <2> QED
      BY <1>2, <2>3, <2>4, <2>5
  <1>3. ASSUME NEW p \in inflight, HandlerUpdate(p) PROVE Typed'
    <2>1. p.ev \in Events /\ p.row \in EventRow
      BY DEF JobTypeOK, Prepared
    <2>2. ev' \in [Events -> EventRow]
      BY <1>3, <2>1, UpdateEventType DEF HandlerUpdate
    <2> QED
      BY <1>3, <2>2 DEF HandlerUpdate, DataTypeOK, LogTypeOK, TickTypeOK, JobTypeOK
  <1>4. ASSUME NEW e \in Events, SoftDelete(e) \/ Restore(e) PROVE Typed'
    BY <1>4, EngineConstants DEF SoftDelete, Restore, Edit, DataTypeOK, LogTypeOK,
                                 TickTypeOK, JobTypeOK
  <1>5. ASSUME NEW r \in Rules, ToggleRule(r) \/ DeleteRule(r) PROVE Typed'
    BY <1>5, EngineConstants DEF ToggleRule, DeleteRule, Edit, DataTypeOK, LogTypeOK,
                                 TickTypeOK, JobTypeOK
  <1>6. ASSUME NEW u \in Users, SetNotifications(u) \/ SetBlocked(u) PROVE Typed'
    <2>1. usr' \in [Users -> UserRow]
      <3>1. PICK b \in BOOLEAN : \/ usr' = [usr EXCEPT ![u].notif = b]
                                 \/ usr' = [usr EXCEPT ![u].blocked = b]
        BY <1>6 DEF SetNotifications, SetBlocked
      <3>2. /\ [usr EXCEPT ![u].notif = b] \in [Users -> UserRow]
            /\ [usr EXCEPT ![u].blocked = b] \in [Users -> UserRow]
        BY UserRowType
      <3> QED
        BY <3>1, <3>2
    <2>2. UNCHANGED <<place, ev, rule, inflight, handFrame>>
      BY <1>6 DEF SetNotifications, SetBlocked
    <2>3. edits' \in 0 .. MaxEdits
      BY <1>6, EngineConstants DEF SetNotifications, SetBlocked, Edit, JobTypeOK
    <2> QED
      BY <2>1, <2>2, <2>3 DEF DataTypeOK, LogTypeOK, TickTypeOK, JobTypeOK
  <1>7. ASSUME NEW u \in Users, WipeAccount(u) PROVE Typed'
    <2>1. usr' \in [Users -> UserRow]
      BY <1>7, UserRowType DEF WipeAccount
    <2>2. /\ rule' \in [Rules -> {"on", "off", "gone"}]
          /\ place' \in [Events -> {"live", "trash", "gone"}]
      BY <1>7 DEF DataTypeOK, WipeAccount
    <2>3. DataTypeOK'
      BY <1>7, <2>1, <2>2 DEF WipeAccount, DataTypeOK
    <2>4. LogTypeOK'
      BY <1>7 DEF WipeAccount, LogTypeOK
    <2>5. TickTypeOK' /\ JobTypeOK'
      BY <1>7, EngineConstants DEF WipeAccount, Edit, TickTypeOK, JobTypeOK
    <2> QED
      BY <2>3, <2>4, <2>5
  <1> QED
    BY <1>2, <1>3, <1>4, <1>5, <1>6, <1>7 DEF Handler

LEMMA TroubleType ==
  ASSUME TypeOK, Trouble
  PROVE  Typed'
  <1> USE DEF Typed, TypeOK, dataVars, tickVars, scanVars, sendVars, histVars, jobVars,
              sendFrame, jobFrame
  <1>1. faults' \in 0 .. MaxFaults
    BY EngineConstants DEF Trouble, TickError, MarkLost, JobError, Crash, Fault, JobTypeOK
  <1>2. CASE TickError
    <2>1. TickTypeOK'
      BY <1>2, TickGoneType DEF TickError
    <2> QED
      BY <1>1, <1>2, <2>1 DEF TickError, DataTypeOK, LogTypeOK, JobTypeOK
  <1>3. CASE MarkLost
    <2>1. TickTypeOK'
      BY <1>3 DEF MarkLost, Unmarked, TickTypeOK, PcValues, Statuses
    <2>2. LogTypeOK'
      BY <1>3 DEF MarkLost, LogTypeOK
    <2> QED
      BY <1>1, <1>3, <2>1, <2>2 DEF MarkLost, DataTypeOK, JobTypeOK
  <1>4. CASE JobError
    <2>1. IsRowMap(jobRows')
      BY <1>4, EmptyRowMap DEF JobError, IsRowMap
    <2> QED
      BY <1>1, <1>4, <2>1 DEF JobError, DataTypeOK, LogTypeOK, TickTypeOK, JobTypeOK
  <1>5. CASE Crash
    <2>1. TickTypeOK'
      BY <1>5, TickGoneType DEF Crash
    <2>2. delivered' \in [Keys -> Nat]
      BY <1>5, DeliverType DEF LogTypeOK, Crash
    <2>3. lost' \in [Keys -> Nat]
      BY <1>5, <2>2 DEF LogTypeOK, Crash
    <2>4. DataTypeOK' /\ LogTypeOK'
      BY <1>5, <2>2, <2>3 DEF DataTypeOK, LogTypeOK, Crash
    <2>5. IsRowMap(jobRows')
      BY <1>5, EmptyRowMap DEF Crash, IsRowMap
    <2>6. JobTypeOK'
      BY <1>1, <1>5, <2>5 DEF Crash, JobTypeOK
    <2> QED
      BY <2>1, <2>4, <2>6
  <1> QED
    BY <1>2, <1>3, <1>4, <1>5 DEF Trouble

LEMMA NextTypeOK == TypeOK /\ [Next]_vars => TypeOK'
  <1> SUFFICES ASSUME TypeOK, [Next]_vars PROVE TypeOK'
    OBVIOUS
  <1>1. CASE UNCHANGED vars
    BY <1>1 DEF vars, dataVars, tickVars, scanVars, sendVars, jobVars, histVars, TypeOK,
                DataTypeOK, LogTypeOK, TickTypeOK, JobTypeOK
  <1>2. CASE Next
    <2>1. quiet' \subseteq (Users \cup Events \cup Rules)
      <3>1. WatchQuiet
        BY <1>2 DEF Next, TickStep, JobStep
      <3>2. OutOfService' \subseteq (Users \cup Events \cup Rules)
        BY DEF OutOfService
      <3> QED
        BY <3>1, <3>2 DEF WatchQuiet, TypeOK
    <2>2. Tick => Typed'
      BY RecoverType, ScanType, SendType, TickEndType DEF Tick
    <2>3. Pass => Typed'
      BY CalendarAssumption
      DEF Pass, Typed, TypeOK, dataVars, tickVars, scanVars, sendVars, jobVars, histVars,
          DataTypeOK, LogTypeOK, TickTypeOK, JobTypeOK
    <2>4. Typed'
      BY <1>2, <2>2, <2>3, JobType, HandlerType, TroubleType DEF Next, TickStep, JobStep
    <2> QED
      BY <2>1, <2>4 DEF TypeOK, Typed
  <1> QED
    BY <1>1, <1>2

\* Every variable of the engine keeps its type in every behaviour, for any set
\* of users, events and rules.
THEOREM TypeCorrect == Spec => []TypeOK
  <1>1. Init => TypeOK
    BY InitTypeOK
  <1>2. TypeOK /\ [Next]_vars => TypeOK'
    BY NextTypeOK
  <1> QED
    BY <1>1, <1>2, PTL DEF Spec
-----------------------------------------------------------------------------
\* The inductive invariant: what the tick holds is open, clean and disjoint.
LEMMA InitHeld == Init => HeldIsOpen
  BY DEF Init, HeldIsOpen, PcInv, RecInv, SendsInv, CurInv, TodoInv, CountInv, Recovering,
         Scanning, Holding, Clean

\* Nothing in it depends on what the job and most handlers write.
LEMMA FrameHeld ==
  ASSUME TypeOK, HeldIsOpen,
         UNCHANGED <<log, delivered, lost, tickPc, tickNow, rec, todo, sends, cur, mark, stage>>,
         \A u \in Users : usr'[u].here = usr[u].here
  PROVE  HeldIsOpen'
  <1>1. \A k \in Keys : usr'[Owner[k[1]]].here = usr[Owner[k[1]]].here
    BY KeyParts
  <1>2. \A k \in Keys : Open(k)' = Open(k) /\ Clean(k)' = Clean(k) /\ Fresh(k)' = Fresh(k)
    BY <1>1 DEF Open, Clean, Fresh
  <1>3. (\A p \in rec : p.key \in Keys) /\ sends \subseteq Keys
    BY DEF TypeOK, TickTypeOK
  <1>4. PcInv' /\ TodoInv'
    BY DEF HeldIsOpen, PcInv, TodoInv, Recovering, Scanning, Holding
  <1>5. RecInv' /\ SendsInv' /\ CurInv'
    BY <1>2, <1>3 DEF HeldIsOpen, PcInv, RecInv, SendsInv, CurInv, Holding
  <1>6. CountInv'
    BY <1>1, <1>2 DEF HeldIsOpen, CountInv
  <1> QED
    BY <1>4, <1>5, <1>6 DEF HeldIsOpen

\* A tick that returns or dies holds nothing.
LEMMA TickGoneHeld ==
  ASSUME TickGone, CountInv'
  PROVE  HeldIsOpen'
  BY DEF TickGone, HeldIsOpen, PcInv, RecInv, SendsInv, CurInv, TodoInv, Recovering,
         Scanning, Holding

LEMMA RecoverHeld ==
  ASSUME TypeOK, HeldIsOpen, TickStart \/ Recover
  PROVE  HeldIsOpen'
  <1> USE KeyParts DEF HeldIsOpen, PcInv, RecInv, SendsInv, CurInv, TodoInv, CountInv,
                       Recovering, Scanning, Holding, Open, Clean, Fresh, TypeOK, LogTypeOK,
                       TickTypeOK, DataTypeOK, dataVars, histVars, scanVars, sendVars, ToMark
  <1>1. CASE TickStart
    BY <1>1 DEF TickStart, PendingBefore
  <1>2. ASSUME NEW p \in rec, RecoverEvent(p) PROVE HeldIsOpen'
    BY <1>2, EngineConstants DEF RecoverEvent
  <1>3. CASE RecoverUser
    BY <1>3 DEF RecoverUser
  <1>4. CASE RecoverRule
    BY <1>4 DEF RecoverRule
  <1> QED
    BY <1>1, <1>2, <1>3, <1>4 DEF Recover

LEMMA ScanHeld ==
  ASSUME TypeOK, HeldIsOpen, Scan
  PROVE  HeldIsOpen'
  <1> USE KeyParts DEF Recovering, Scanning, Holding, Open, Clean, Fresh, dataVars, histVars,
                       scanVars, sendVars, HeldIsOpen, PcInv
  <1> USE DEF TypeOK, LogTypeOK, TickTypeOK, DataTypeOK
  <1>1. CASE TickUsers
    BY <1>1 DEF TickUsers, RecInv, SendsInv, CurInv, TodoInv, CountInv
  <1>2. ASSUME NEW u \in userq, TickEvents(u) PROVE HeldIsOpen'
    BY <1>2 DEF TickEvents, ScanDone, RecInv, SendsInv, CurInv, TodoInv, CountInv
  <1>3. CASE TickRules
    <2>1. TodoInv'
      BY <1>3 DEF TickRules, TodoInv, DueTasks, FireUTC
    <2>2. PcInv' /\ RecInv' /\ SendsInv' /\ CurInv' /\ CountInv'
      BY <1>3 DEF TickRules, RecInv, SendsInv, CurInv, CountInv
    <2> QED
      BY <2>1, <2>2
  <1>4. ASSUME NEW task \in todo, QueueLate(task) PROVE HeldIsOpen'
    <2> DEFINE k == task.key
    <2>1. k \in Keys /\ rec = {}
      BY <1>4 DEF Task, QueueLate, TakeTask
    <2>2. CASE k \in DOMAIN log
      BY <1>4, <2>1, <2>2
      DEF QueueLate, TakeTask, RecInv, SendsInv, CurInv, TodoInv, CountInv
    <2>3. CASE k \notin DOMAIN log
      <3>1. /\ Insert(k) /\ ToMark(k, "skipped", "scan")
            /\ usr[Owner[k[1]]].here
        BY <1>4, <2>3 DEF QueueLate, Referenced
      <3>2. k \notin sends
        BY <2>1, <2>3, <3>1 DEF SendsInv
      <3>3. PcInv' /\ RecInv' /\ TodoInv'
        BY <1>4, <2>1, <3>1 DEF QueueLate, TakeTask, ToMark, RecInv, TodoInv
      <3>4. SendsInv' /\ CurInv'
        BY <1>4, <2>1, <2>3, <3>1, <3>2
        DEF QueueLate, TakeTask, Insert, ToMark, SendsInv, CurInv
      <3>5. CountInv'
        BY <1>4, <2>1, <2>3, <3>1
        DEF QueueLate, TakeTask, Insert, ToMark, CountInv
      <3> QED
        BY <3>3, <3>4, <3>5
    <2> QED
      BY <2>2, <2>3
  <1>5. ASSUME NEW task \in todo, QueueSameMinute(task) PROVE HeldIsOpen'
    BY <1>5 DEF QueueSameMinute, TakeTask, RecInv, SendsInv, CurInv, TodoInv, CountInv
  <1>6. ASSUME NEW task \in todo, QueueSend(task) PROVE HeldIsOpen'
    <2> DEFINE k == task.key
    <2>1. k \in Keys /\ rec = {}
      BY <1>6 DEF Task, QueueSend, TakeTask
    <2>2. CASE k \in DOMAIN log
      BY <1>6, <2>1, <2>2
      DEF QueueSend, TakeTask, RecInv, SendsInv, CurInv, TodoInv, CountInv
    <2>3. CASE k \notin DOMAIN log
      <3>1. /\ Insert(k) /\ sends' = sends \cup {k}
            /\ usr[Owner[k[1]]].here /\ tickPc = "scan"
        BY <1>6, <2>3 DEF QueueSend, TakeTask, Referenced
      <3>2. UNCHANGED <<tickPc, tickNow, cur, usr, delivered, lost, rec, mark, stage>>
        BY <1>6, <2>3 DEF QueueSend, TakeTask
      <3>3. FireUTC(k) <= tickNow /\ tickNow - FireUTC(k) <= Grace
        <4>1. FireUTC(k) \in Int /\ Grace \in Int /\ tickNow \in Int
          BY <2>1, FireUTCType, EngineConstants
        <4>2. ~(tickNow - FireUTC(k) > Grace) /\ FireUTC(k) <= tickNow
          BY <1>6 DEF QueueSend, Late, TodoInv
        <4> QED
          BY <4>1, <4>2
      <3>4. Clean(k)
        BY <2>1, <2>3, <3>1 DEF CountInv
      <3>5. PcInv' /\ RecInv' /\ TodoInv' /\ CurInv'
        BY <1>6, <2>1, <3>1, <3>2 DEF QueueSend, TakeTask, RecInv, TodoInv, CurInv
      <3>6. SendsInv'
        <4>1. ASSUME NEW x \in sends PROVE Open(x)' /\ Clean(x)' /\ Fresh(x)'
          <5>1. x \in Keys /\ x # k
            BY <2>1, <2>3, <3>1 DEF SendsInv
          <5> QED
            BY <3>1, <3>2, <5>1 DEF SendsInv, Insert
        <4>2. Open(k)' /\ Clean(k)' /\ Fresh(k)'
          BY <2>1, <3>1, <3>2, <3>3, <3>4 DEF Insert
        <4> QED
          BY <3>1, <3>2, <4>1, <4>2 DEF SendsInv
      <3>7. CountInv'
        BY <2>1, <2>3, <3>1, <3>2, <3>4 DEF Insert, CountInv
      <3> QED
        BY <3>5, <3>6, <3>7
    <2> QED
      BY <2>2, <2>3
  <1>7. ASSUME NEW task \in todo, QueueGone(task) PROVE HeldIsOpen'
    BY <1>7, TickGoneHeld DEF QueueGone, TickGone, CountInv
  <1>8. ASSUME NEW e \in DOMAIN rows, TickAdvance(e) PROVE HeldIsOpen'
    BY <1>8, FrameHeld DEF TickAdvance
  <1> QED
    BY <1>1, <1>2, <1>3, <1>4, <1>5, <1>6, <1>7, <1>8 DEF Scan

LEMMA SendHeld ==
  ASSUME TypeOK, HeldIsOpen, Send \/ MarkLost
  PROVE  HeldIsOpen'
  <1> USE KeyParts DEF HeldIsOpen, PcInv, RecInv, SendsInv, CurInv, TodoInv, CountInv,
                       Recovering, Scanning, Holding, Open, Clean, Fresh, TypeOK, LogTypeOK,
                       TickTypeOK, DataTypeOK, dataVars, histVars, scanVars, sendVars,
                       sendFrame, ToMark, Unmarked, Deliver
  <1>1. ASSUME NEW k \in sends, SendNext(k) PROVE HeldIsOpen'
    BY <1>1 DEF SendNext, ScanDone
  <1>2. CASE SendOk
    BY <1>2 DEF SendOk
  <1>3. CASE SendFlood
    BY <1>3 DEF SendFlood
  <1>4. CASE SendError
    BY <1>4 DEF SendError
  <1>5. CASE SendForbidden
    BY <1>5 DEF SendForbidden
  <1>6. CASE SendBlock
    BY <1>6, EngineConstants, SMTT(60) DEF SendBlock
  <1>7. CASE Mark
    BY <1>7 DEF Mark
  <1>8. CASE MarkLost
    BY <1>8 DEF MarkLost
  <1> QED
    BY <1>1, <1>2, <1>3, <1>4, <1>5, <1>6, <1>7, <1>8 DEF Send

LEMMA TickEndHeld ==
  ASSUME TypeOK, HeldIsOpen, TickEnd \/ TickError
  PROVE  HeldIsOpen'
  BY TickGoneHeld
  DEF TickEnd, TickError, TickGone, ScanDone, dataVars, histVars, HeldIsOpen, CountInv, Clean

LEMMA CrashHeld ==
  ASSUME TypeOK, HeldIsOpen, Crash
  PROVE  HeldIsOpen'
  <1>1. CountInv'
    BY DEF Crash, TickGone, Deliver, HeldIsOpen, PcInv, CurInv, CountInv, Holding, Open,
           Clean, TypeOK, LogTypeOK, dataVars, histVars
  <1> QED
    BY <1>1, TickGoneHeld DEF Crash

LEMMA WipeHeld ==
  ASSUME TypeOK, HeldIsOpen, NEW u \in Users, WipeAccount(u)
  PROVE  HeldIsOpen'
  BY KeyParts
  DEF WipeAccount, HeldIsOpen, PcInv, RecInv, SendsInv, CurInv, TodoInv, CountInv, Recovering,
      Scanning, Holding, Open, Clean, Fresh, TypeOK, LogTypeOK, TickTypeOK, DataTypeOK,
      histVars, tickVars, scanVars, sendVars

LEMMA OtherHeld ==
  ASSUME TypeOK, HeldIsOpen, Job \/ JobError \/ Handler \/ Pass
  PROVE  HeldIsOpen'
  <1> DEFINE Engine == <<log, delivered, lost, tickPc, tickNow, rec, todo, sends, cur, mark,
                         stage>>
  <1> USE DEF histVars, dataVars, tickVars, scanVars, sendVars, jobFrame, handFrame
  <1>1. CASE Job \/ JobError \/ Pass
    <2>1. UNCHANGED Engine /\ UNCHANGED usr
      BY <1>1 DEF Job, JobStart, JobEvents, JobUpdate, JobError, Pass
    <2> QED
      BY <2>1, FrameHeld
  <1>2. ASSUME NEW e \in Events,
               \/ MuteRead(e) \/ DateRead(e) \/ FieldRead(e) \/ SoftDelete(e) \/ Restore(e)
        PROVE  HeldIsOpen'
    <2>1. UNCHANGED Engine /\ UNCHANGED usr
      BY <1>2 DEF MuteRead, DateRead, FieldRead, Prepare, SoftDelete, Restore
    <2> QED
      BY <2>1, FrameHeld
  <1>3. ASSUME NEW p \in inflight, HandlerUpdate(p) PROVE HeldIsOpen'
    <2>1. UNCHANGED Engine /\ UNCHANGED usr
      BY <1>3 DEF HandlerUpdate
    <2> QED
      BY <2>1, FrameHeld
  <1>4. ASSUME NEW r \in Rules, ToggleRule(r) \/ DeleteRule(r) PROVE HeldIsOpen'
    <2>1. UNCHANGED Engine /\ UNCHANGED usr
      BY <1>4 DEF ToggleRule, DeleteRule
    <2> QED
      BY <2>1, FrameHeld
  <1>5. ASSUME NEW u \in Users, SetNotifications(u) \/ SetBlocked(u) PROVE HeldIsOpen'
    <2>1. UNCHANGED Engine
      BY <1>5 DEF SetNotifications, SetBlocked
    <2>2. \A x \in Users : usr'[x].here = usr[x].here
      BY <1>5 DEF SetNotifications, SetBlocked, TypeOK, DataTypeOK, UserRow
    <2> QED
      BY <2>1, <2>2, FrameHeld
  <1> QED
    BY <1>1, <1>2, <1>3, <1>4, <1>5, WipeHeld DEF Handler

LEMMA NextHeld == TypeOK /\ HeldIsOpen /\ [Next]_vars => HeldIsOpen'
  <1> SUFFICES ASSUME TypeOK, HeldIsOpen, [Next]_vars PROVE HeldIsOpen'
    OBVIOUS
  <1>1. CASE UNCHANGED vars
    BY <1>1, FrameHeld DEF vars, dataVars, tickVars, scanVars, sendVars, histVars
  <1>2. CASE Next
    BY <1>2, RecoverHeld, ScanHeld, SendHeld, TickEndHeld, CrashHeld, OtherHeld
    DEF Next, TickStep, JobStep, Tick, Trouble
  <1> QED
    BY <1>1, <1>2

\* What the tick holds stays unsettled, for any set of users, events and rules.
THEOREM HoldsOpen == Spec => []HeldIsOpen
  <1>1. Init => HeldIsOpen
    BY InitHeld
  <1>2. TypeOK /\ HeldIsOpen /\ [Next]_vars => HeldIsOpen'
    BY NextHeld
  <1> QED
    BY <1>1, <1>2, TypeCorrect, PTL DEF Spec

\* A reminder reaches the user at most once for each outcome that was written
\* or lost: the claim behind "UNIQUE prevents double-send", with its price.
THEOREM AtMostOnce == Spec => []AtMostOncePerOutcome
  <1>1. HeldIsOpen => AtMostOncePerOutcome
    BY DEF HeldIsOpen, CountInv, AtMostOncePerOutcome
  <1> QED
    BY <1>1, HoldsOpen, PTL
-----------------------------------------------------------------------------
\* What a step can do to the log, to the two counts and to the accounts.
LedgerSame == /\ UNCHANGED <<log, delivered, lost>>
              /\ \A u \in Users : usr'[u].here = usr[u].here

NewRow(k) == /\ k \notin DOMAIN log /\ usr[Owner[k[1]]].here /\ Insert(k)
             /\ UNCHANGED <<usr, delivered, lost>>

LedgerStep == \/ LedgerSame
              \/ \E k \in Keys : NewRow(k)
              \/ Mark \/ MarkLost \/ SendOk \/ SendError \/ Crash
              \/ \E u \in Users : WipeAccount(u)

LEMMA StepKinds == TypeOK /\ [Next]_vars => LedgerStep
  <1> SUFFICES ASSUME TypeOK, [Next]_vars PROVE LedgerStep
    OBVIOUS
  <1> USE DEF LedgerStep, LedgerSame, dataVars, histVars, sendFrame, jobFrame, handFrame
  <1>1. CASE UNCHANGED vars
    BY <1>1 DEF vars
  <1>2. CASE TickStart \/ Recover \/ TickEnd \/ TickError
    BY <1>2 DEF TickStart, Recover, RecoverEvent, RecoverUser, RecoverRule, TickEnd, TickError
  <1>3. CASE Scan
    <2>1. ASSUME NEW task \in todo, QueueLate(task) \/ QueueSend(task) PROVE LedgerStep
      <3>1. task.key \in Keys
        BY DEF TypeOK, TickTypeOK, Task
      <3>2. CASE task.key \in DOMAIN log
        BY <2>1, <3>2 DEF QueueLate, QueueSend, TakeTask
      <3>3. CASE task.key \notin DOMAIN log
        <4>1. NewRow(task.key)
          BY <2>1, <3>3 DEF QueueLate, QueueSend, TakeTask, Referenced, NewRow
        <4> QED
          BY <3>1, <4>1
      <3> QED
        BY <3>2, <3>3
    <2>2. ASSUME NEW task \in todo, QueueSameMinute(task) \/ QueueGone(task)
          PROVE  LedgerSame
      BY <2>2 DEF QueueSameMinute, TakeTask, QueueGone
    <2>3. ASSUME \/ TickUsers \/ TickRules
                 \/ \E u \in userq : TickEvents(u)
                 \/ \E e \in DOMAIN rows : TickAdvance(e)
          PROVE  LedgerSame
      BY <2>3 DEF TickUsers, TickRules, TickEvents, TickAdvance
    <2> QED
      BY <1>3, <2>1, <2>2, <2>3 DEF Scan
  <1>4. CASE Send
    <2>1. ASSUME NEW k \in sends, SendNext(k) PROVE LedgerSame
      BY <2>1 DEF SendNext
    <2>2. CASE SendFlood \/ SendForbidden
      BY <2>2 DEF SendFlood, SendForbidden
    <2>3. CASE SendBlock
      BY <2>3 DEF SendBlock, TypeOK, DataTypeOK, UserRow
    <2> QED
      BY <1>4, <2>1, <2>2, <2>3 DEF Send
  <1>5. CASE Job \/ JobError \/ Pass
    BY <1>5 DEF Job, JobStart, JobEvents, JobUpdate, JobError, Pass
  <1>6. CASE Handler
    <2>1. ASSUME NEW e \in Events,
                 MuteRead(e) \/ DateRead(e) \/ FieldRead(e) \/ SoftDelete(e) \/ Restore(e)
          PROVE  LedgerSame
      BY <2>1 DEF MuteRead, DateRead, FieldRead, Prepare, SoftDelete, Restore
    <2>2. ASSUME NEW p \in inflight, HandlerUpdate(p) PROVE LedgerSame
      BY <2>2 DEF HandlerUpdate
    <2>3. ASSUME NEW r \in Rules, ToggleRule(r) \/ DeleteRule(r) PROVE LedgerSame
      BY <2>3 DEF ToggleRule, DeleteRule
    <2>4. ASSUME NEW u \in Users, SetNotifications(u) \/ SetBlocked(u) PROVE LedgerSame
      BY <2>4 DEF SetNotifications, SetBlocked, TypeOK, DataTypeOK, UserRow
    <2> QED
      BY <1>6, <2>1, <2>2, <2>3, <2>4 DEF Handler
  <1> QED
    BY <1>1, <1>2, <1>3, <1>4, <1>5, <1>6 DEF Next, TickStep, JobStep, Tick, Trouble

LEMMA RowsStayStep == TypeOK /\ HeldIsOpen /\ [Next]_vars => RowsStay
  <1> SUFFICES ASSUME TypeOK, HeldIsOpen, LedgerStep PROVE RowsStay
    BY StepKinds
  <1> USE DEF RowsStay, dataVars, histVars, sendFrame
  <1>1. CASE LedgerSame \/ MarkLost \/ SendOk \/ SendError \/ Crash
    BY <1>1 DEF LedgerSame, MarkLost, SendOk, SendError, Crash
  <1>2. ASSUME NEW k \in Keys, NewRow(k) PROVE RowsStay
    BY <1>2 DEF NewRow, Insert
  <1>3. CASE Mark
    BY <1>3 DEF Mark, HeldIsOpen, CurInv, Holding, Open, TypeOK, LogTypeOK, LogRow
  <1>4. ASSUME NEW u \in Users, WipeAccount(u) PROVE RowsStay
    BY <1>4 DEF WipeAccount
  <1> QED
    BY <1>1, <1>2, <1>3, <1>4 DEF LedgerStep

\* A row of notifications_log that has an outcome keeps it for ever.
THEOREM FinishedStay == Spec => FinishedRowsStay
  <1>1. TypeOK /\ HeldIsOpen /\ [Next]_vars => [RowsStay]_vars
    BY RowsStayStep
  <1> QED
    BY <1>1, TypeCorrect, HoldsOpen, PTL DEF Spec, FinishedRowsStay

LEMMA SendsAreDueStep ==
  TypeOK /\ HeldIsOpen /\ [Next]_vars =>
    \A k \in Keys : delivered'[k] > delivered[k] => RowIsDue(k)
  <1> SUFFICES ASSUME TypeOK, HeldIsOpen, LedgerStep,
                      NEW k \in Keys, delivered'[k] > delivered[k]
               PROVE  RowIsDue(k)
    BY StepKinds
  <1> USE DEF dataVars, histVars, sendFrame
  <1>1. delivered[k] \in Nat
    BY DEF TypeOK, LogTypeOK
  <1>2. delivered' # delivered
    BY <1>1
  <1>3. tickPc = "sending" /\ \E n \in {0, 1} : Deliver(cur, n)
    BY <1>2 DEF LedgerStep, LedgerSame, NewRow, Mark, MarkLost, SendOk, SendError, Crash,
                WipeAccount
  <1>4. cur = k
    BY <1>1, <1>3 DEF Deliver, TypeOK, LogTypeOK
  <1>5. Open(k) /\ Fresh(k)
    BY <1>3, <1>4 DEF HeldIsOpen, CurInv, Holding
  <1> QED
    BY <1>5 DEF Open, Fresh, RowIsDue

\* Every message is sent for a pending row that is due and within its grace.
THEOREM SendsAreDue == Spec => SendsAreDueAndPending
  <1>1. TypeOK /\ HeldIsOpen /\ [Next]_vars =>
          [\A k \in Keys : delivered'[k] > delivered[k] => RowIsDue(k)]_vars
    BY SendsAreDueStep
  <1> QED
    BY <1>1, TypeCorrect, HoldsOpen, PTL DEF Spec, SendsAreDueAndPending
-----------------------------------------------------------------------------
\* Refinement: the log and the accounts, seen as ReminderLedger's status.
AbsStatus == [k \in Keys |-> Status(k)]

LEMMA StatusSame ==
  ASSUME TypeOK, UNCHANGED log, \A u \in Users : usr'[u].here = usr[u].here
  PROVE  AbsStatus' = AbsStatus
  <1>1. \A k \in Keys : Status(k)' = Status(k)
    BY KeyParts DEF Status
  <1> QED
    BY <1>1 DEF AbsStatus

LEMMA InitLedger == Init => Ledger!Init
  <1> SUFFICES ASSUME Init PROVE Ledger!Init
    OBVIOUS
  <1>1. \A k \in Keys : Status(k) = "none"
    BY KeyParts DEF Init, Status
  <1> QED
    BY <1>1 DEF Ledger!Init, Init

LEMMA StepLedger ==
  TypeOK /\ HeldIsOpen /\ [Next]_vars => [Ledger!Next]_(Ledger!vars)
  <1> SUFFICES ASSUME TypeOK, HeldIsOpen, LedgerStep
               PROVE  [Ledger!Next]_(Ledger!vars)
    BY StepKinds
  <1> USE DEF dataVars, histVars, sendFrame
  <1>1. CASE LedgerSame
    BY <1>1, StatusSame DEF LedgerSame, Ledger!vars, AbsStatus
  <1>2. ASSUME NEW k \in Keys, NewRow(k) PROVE Ledger!Queue(k)
    <2>1. Status(k) = "none" /\ Status(k)' = "pending"
      BY <1>2 DEF NewRow, Insert, Status
    <2>2. \A x \in Keys : x # k => Status(x)' = Status(x)
      BY <1>2 DEF NewRow, Insert, Status
    <2>3. AbsStatus' = [AbsStatus EXCEPT ![k] = "pending"]
      BY <2>1, <2>2 DEF AbsStatus
    <2> QED
      BY <1>2, <2>1, <2>3 DEF NewRow, Ledger!Queue, AbsStatus
  <1>3. CASE Mark
    <2>1. PICK k \in Keys, m \in {"sent", "failed", "skipped"} : k = cur /\ m = mark
      BY <1>3 DEF Mark, HeldIsOpen, PcInv, Holding, TypeOK, TickTypeOK, Statuses
    <2>2. CASE cur \in DOMAIN log
      <3>1. Status(k) = "pending" /\ Status(k)' = m
        BY <1>3, <2>1, <2>2
        DEF Mark, HeldIsOpen, CurInv, Holding, Open, Status, TypeOK, LogTypeOK, LogRow
      <3>2. \A x \in Keys : x # k => Status(x)' = Status(x)
        BY <1>3, <2>1 DEF Mark, Status
      <3>3. AbsStatus' = [AbsStatus EXCEPT ![k] = m]
        BY <3>1, <3>2 DEF AbsStatus
      <3>4. Ledger!Settle(k)
        BY <1>3, <2>1, <3>1, <3>3 DEF Mark, Ledger!Settle, Ledger!Outcomes, AbsStatus
      <3> QED
        BY <2>1, <3>4 DEF Ledger!Next
    <2>3. CASE cur \notin DOMAIN log
      <3>1. UNCHANGED <<log, delivered, lost, usr>>
        BY <1>3, <2>3 DEF Mark
      <3> QED
        BY <3>1, StatusSame DEF Ledger!vars, AbsStatus
    <2> QED
      BY <2>2, <2>3
  <1>4. CASE SendOk \/ SendError \/ MarkLost \/ Crash
    <2>1. UNCHANGED <<log, usr>>
      BY <1>4 DEF SendOk, SendError, MarkLost, Crash
    <2>2. AbsStatus' = AbsStatus
      BY <2>1, StatusSame
    <2>3. CASE UNCHANGED <<delivered, lost>>
      BY <2>2, <2>3 DEF Ledger!vars, AbsStatus
    <2>4. CASE ~UNCHANGED <<delivered, lost>>
      <3>1. tickPc \in {"sending", "mark"} /\ cur \in Keys
        BY <1>4, <2>4 DEF SendOk, SendError, MarkLost, Crash, HeldIsOpen, PcInv, Holding
      <3>2. delivered \in [Keys -> Nat] /\ lost \in [Keys -> Nat]
        BY DEF TypeOK, LogTypeOK
      <3>3. tickPc = "sending" => Ledger!MaySend(cur)
        BY <3>1 DEF HeldIsOpen, CurInv, Holding, Open, Clean, Status, Ledger!MaySend
      <3>4. CASE SendOk \/ SendError
        <4>1. /\ tickPc = "sending" /\ UNCHANGED lost
              /\ delivered' = [delivered EXCEPT ![cur] = delivered[cur] + 1]
          BY <2>4, <3>1, <3>2, <3>4 DEF SendOk, SendError, Deliver
        <4>2. Ledger!Send(cur)
          BY <2>2, <3>3, <4>1 DEF Ledger!Send, AbsStatus
        <4> QED
          BY <3>1, <4>2 DEF Ledger!Next
      <3>5. CASE MarkLost \/ Crash
        <4>1. /\ lost' = [lost EXCEPT ![cur] = delivered'[cur]]
              /\ \/ UNCHANGED delivered
                 \/ /\ tickPc = "sending"
                    /\ delivered' = [delivered EXCEPT ![cur] = delivered[cur] + 1]
          BY <2>4, <3>1, <3>2, <3>5 DEF MarkLost, Crash, Deliver
        <4>2. Ledger!Lose(cur)
          BY <2>2, <3>3, <4>1 DEF Ledger!Lose, AbsStatus
        <4> QED
          BY <3>1, <4>2 DEF Ledger!Next
      <3> QED
        BY <1>4, <3>4, <3>5
    <2> QED
      BY <2>3, <2>4
  <1>5. ASSUME NEW u \in Users, WipeAccount(u)
        PROVE  Ledger!Forget({k \in Keys : Owner[k[1]] = u})
    <2>1. \A k \in Keys :
            Status(k)' = IF Owner[k[1]] = u THEN "gone" ELSE Status(k)
      BY <1>5, KeyParts DEF WipeAccount, Status, TypeOK, DataTypeOK, UserRow
    <2> QED
      BY <1>5, <2>1 DEF WipeAccount, Ledger!Forget
  <1> QED
    BY <1>1, <1>2, <1>3, <1>4, <1>5 DEF LedgerStep, Ledger!Next

\* The engine implements the ledger: the abstract specification of what
\* notifications_log promises holds of every behaviour of the jobs.
THEOREM ImplementsLedger == Spec => KeepsLedger
  <1>1. TypeOK /\ HeldIsOpen /\ [Next]_vars => [Ledger!Next]_(Ledger!vars)
    BY StepLedger
  <1> QED
    BY <1>1, InitLedger, TypeCorrect, HoldsOpen, PTL DEF Spec, KeepsLedger, Ledger!Spec

-----------------------------------------------------------------------------
\* Time

LEMMA QuotientMonotone ==
  ASSUME NEW a \in Int, NEW b \in Int, a <= b, NEW n \in Nat \ {0}
  PROVE  a \div n <= b \div n
  <1> DEFINE p == a \div n
             q == b \div n
  <1>1. p \in Int /\ q \in Int
    BY SMT
  <1>2. n * p <= a /\ b < n * q + n
    BY SMT
  <1>3. SUFFICES ASSUME q + 1 <= p PROVE FALSE
    BY <1>1 DEF p, q
  <1>4. n * (q + 1) <= n * p
    BY <1>1, <1>3, SMT
  <1>5. n * (q + 1) = n * q + n
    BY <1>1, SMT
  <1>6. n * p \in Int /\ n * q \in Int
    BY <1>1, SMT
  <1> QED
    BY <1>2, <1>4, <1>5, <1>6, SMT

\* A user's day does not go back.
LEMMA LocalDayMonotone ==
  ASSUME NEW u \in Users, NEW s \in Int, NEW t \in Int, s <= t
  PROVE  LocalDay(u, s) <= LocalDay(u, t)
  <1>1. Tz[u] \in Int /\ DayLen \in Nat \ {0}
    BY CalendarAssumption
  <1>2. s + Tz[u] \in Int /\ t + Tz[u] \in Int /\ s + Tz[u] <= t + Tz[u]
    BY <1>1
  <1> QED
    BY <1>1, <1>2, QuotientMonotone DEF LocalDay

\* Today is a day, for every user and every moment of the model.
LEMMA TodayIsDay ==
  ASSUME TypeOK, NEW u \in Users
  PROVE  /\ LocalDay(u, now) \in Nat /\ LocalDay(u, tickNow) \in Nat
         /\ LocalDay(u, now) \in Days /\ LocalDay(u, tickNow) \in Days
  BY LocalDayType, CalendarAssumption DEF TypeOK, DataTypeOK, TickTypeOK, Days

-----------------------------------------------------------------------------
\* Occurrences that fit their dates

LEMMA FitsLater ==
  ASSUME NEW row, NEW t, NEW a \in Nat, NEW b \in Nat, a <= b, Fits(row, t, a)
  PROVE  Fits(row, t, b)
  BY DEF Fits

LEMMA RecomputedFits ==
  ASSUME NEW row \in EventRow, NEW today \in Nat, NEW t \in Tracks
  PROVE  Fits(Recomputed(row, today), t, today)
  <1>1. Recomputed(row, today).date[t] = row.date[t]
    BY DEF Recomputed, EventRow
  <1>2. Recomputed(row, today).occ[t] = Recur(row.date[t], today)
    BY DEF Recomputed, EventRow
  <1>3. today \in 0 .. today
    OBVIOUS
  <1> QED
    BY <1>1, <1>2, <1>3 DEF Fits, Recur

LEMMA AdvancedFits ==
  ASSUME NEW row \in EventRow, NEW today \in Nat, NEW t \in Tracks, Fits(row, t, today)
  PROVE  Fits(Advanced(row, today), t, today)
  <1>1. Advanced(row, today).date[t] = row.date[t]
    BY DEF Advanced, EventRow
  <1>2. \/ Advanced(row, today).occ[t] = row.occ[t]
        \/ Advanced(row, today).occ[t] = Recur(row.date[t], today) /\ row.date[t] # None
    BY DEF Advanced, EventRow
  <1>3. today \in 0 .. today
    OBVIOUS
  <1> QED
    BY <1>1, <1>2, <1>3 DEF Fits, Recur

LEMMA MutedFits ==
  ASSUME NEW row \in EventRow, NEW today, NEW t, Fits(row, t, today)
  PROVE  Fits([row EXCEPT !.active = ~@], t, today)
  BY DEF Fits, EventRow

LEMMA InitFits == Init => CopiesFit
  <1> HAVE Init
  <1>1. ASSUME NEW e \in Events, NEW t \in Tracks
        PROVE  Fits(ev[e], t, LocalDay(Owner[e], now))
    <2>1. LocalDay(Owner[e], 0) \in Nat /\ now = 0
      BY EngineConstants, LocalDayType, CalendarAssumption DEF Init, Days
    <2>2. PICK start \in [Events -> StartDates] :
            ev = [x \in Events |->
               [active |-> TRUE, date |-> start[x],
                occ |-> [y \in Tracks |-> Recur(start[x][y], LocalDay(Owner[x], 0))]]]
      BY DEF Init
    <2>3. /\ ev[e].date[t] = start[e][t]
          /\ ev[e].occ[t] = Recur(start[e][t], LocalDay(Owner[e], 0))
      BY <2>2
    <2>4. LocalDay(Owner[e], 0) \in 0 .. LocalDay(Owner[e], 0)
      BY <2>1
    <2> QED
      BY <2>1, <2>3, <2>4 DEF Fits, Recur
  <1>2. /\ tickNow <= now /\ inflight = {}
        /\ DOMAIN snap = {} /\ DOMAIN rows = {} /\ DOMAIN jobRows = {}
    BY DEF Init
  <1> QED
    BY <1>1, <1>2 DEF CopiesFit, FitsToday

\* Nothing but these variables matters to CopiesFit.
LEMMA SameCopiesFit ==
  ASSUME CopiesFit, UNCHANGED <<now, ev, who, snap, rows, jobRows, inflight>>,
         tickNow' = tickNow
  PROVE  CopiesFit'
  BY DEF CopiesFit, FitsToday

LEMMA TickGoneFits ==
  ASSUME TypeOK, CopiesFit, TickGone, UNCHANGED <<now, ev, jobRows, inflight>>
  PROVE  CopiesFit'
  <1>1. tickNow' <= now' /\ DOMAIN snap' = {} /\ DOMAIN rows' = {}
    BY CalendarAssumption DEF TickGone, TypeOK, DataTypeOK
  <1> QED
    BY <1>1 DEF CopiesFit, FitsToday

\* A full-row write of a copy that fits.
LEMMA WriteFits ==
  ASSUME TypeOK, CopiesFit, NEW e \in Events, NEW row, UpdateEvent(e, row),
         FitsToday(e, row), now' = now
  PROVE  \A x \in Events : FitsToday(x, ev[x])'
  BY DEF UpdateEvent, CopiesFit, FitsToday, TypeOK, DataTypeOK

LEMMA ScanFits ==
  ASSUME TypeOK, CopiesFit, Scan
  PROVE  CopiesFit'
  <1> USE DEF dataVars, histVars, sendVars, jobVars
  <1>1. CASE TickUsers
    BY <1>1, SameCopiesFit DEF TickUsers
  <1>2. ASSUME NEW u \in userq, TickEvents(u) PROVE CopiesFit'
    <2>1. ASSUME NEW e \in DOMAIN snap' PROVE Owner[e] = who' /\ FitsToday(e, snap[e])'
      BY <1>2, <2>1 DEF TickEvents, CopiesFit, FitsToday
    <2>2. UNCHANGED <<now, tickNow, ev, rows, jobRows, inflight>>
      BY <1>2 DEF TickEvents
    <2> QED
      BY <2>1, <2>2 DEF CopiesFit, FitsToday
  <1>3. CASE TickRules
    <2> DEFINE today == LocalDay(who, tickNow)
    <2>1. /\ rows' = [e \in {x \in DOMAIN snap : Advanced(snap[x], today) # snap[x]}
                        |-> Advanced(snap[e], today)]
          /\ UNCHANGED <<now, tickNow, ev, who, snap, jobRows, inflight>>
      BY <1>3 DEF TickRules
    <2>2. ASSUME NEW e \in DOMAIN rows', NEW t \in Tracks
          PROVE  Fits(rows'[e], t, LocalDay(Owner[e], now))
      <3>1. /\ e \in DOMAIN snap /\ rows'[e] = Advanced(snap[e], today)
            /\ Advanced(snap[e], today) # snap[e]
        BY <2>1
      <3>2. snap[e] \in EventRow /\ e \in Events /\ Owner[e] = who
        BY <3>1, RowType DEF TypeOK, TickTypeOK, CopiesFit
      <3>3. who \in Users
        BY <3>2, EngineConstants
      <3>4. today \in Nat /\ LocalDay(who, now) \in Nat /\ today <= LocalDay(who, now)
        BY <3>3, TodayIsDay, LocalDayMonotone DEF CopiesFit, TypeOK, DataTypeOK, TickTypeOK
      <3>5. Fits(snap[e], t, LocalDay(who, now))
        BY <3>1, <3>2 DEF CopiesFit, FitsToday
      <3>6. CASE Advanced(snap[e], today).occ[t] = snap[e].occ[t]
        BY <3>1, <3>2, <3>5, <3>6 DEF Fits, Advanced, EventRow
      <3>7. CASE Advanced(snap[e], today).occ[t] # snap[e].occ[t]
        <4>1. /\ Advanced(snap[e], today).date[t] = snap[e].date[t] /\ snap[e].date[t] # None
              /\ Advanced(snap[e], today).occ[t] = Recur(snap[e].date[t], today)
          BY <3>2, <3>7 DEF Advanced, EventRow
        <4>2. today \in 0 .. LocalDay(who, now)
          BY <3>4
        <4> QED
          BY <3>1, <3>2, <4>1, <4>2 DEF Fits, Recur
      <3> QED
        BY <3>6, <3>7
    <2> QED
      BY <2>1, <2>2 DEF CopiesFit, FitsToday
  <1>4. ASSUME NEW task \in todo,
               QueueLate(task) \/ QueueSameMinute(task) \/ QueueSend(task)
        PROVE  CopiesFit'
    <2>1. TakeTask(task)
      BY <1>4 DEF QueueLate, QueueSameMinute, QueueSend
    <2> QED
      BY <2>1, SameCopiesFit DEF TakeTask
  <1>5. ASSUME NEW task \in todo, QueueGone(task) PROVE CopiesFit'
    BY <1>5, TickGoneFits DEF QueueGone
  <1>6. ASSUME NEW e \in DOMAIN rows, TickAdvance(e) PROVE CopiesFit'
    <2>1. e \in Events /\ FitsToday(e, rows[e])
      BY RowType DEF TypeOK, TickTypeOK, CopiesFit
    <2>2. UpdateEvent(e, rows[e]) /\ UNCHANGED <<now, tickNow, who, snap, jobRows, inflight>>
      BY <1>6 DEF TickAdvance
    <2>3. \A x \in Events : FitsToday(x, ev[x])'
      BY <2>1, <2>2, WriteFits
    <2>4. \A x \in DOMAIN rows' : x \in DOMAIN rows /\ rows'[x] = rows[x]
      BY <1>6 DEF TickAdvance, Without
    <2> QED
      BY <2>2, <2>3, <2>4 DEF CopiesFit, FitsToday
  <1> QED
    BY <1>1, <1>2, <1>3, <1>4, <1>5, <1>6 DEF Scan

LEMMA TickFits ==
  ASSUME TypeOK, CopiesFit, Tick
  PROVE  CopiesFit'
  <1> USE DEF dataVars, histVars, scanVars, sendVars, jobVars
  <1>1. CASE TickStart
    <2>1. tickNow' <= now' /\ UNCHANGED <<now, ev, who, snap, rows, jobRows, inflight>>
      BY <1>1 DEF TickStart, TypeOK, DataTypeOK
    <2> QED
      BY <2>1 DEF CopiesFit, FitsToday
  <1>2. CASE Recover
    BY <1>2, SameCopiesFit DEF Recover, RecoverEvent, RecoverUser, RecoverRule
  <1>3. CASE Scan
    BY <1>3, ScanFits
  <1>4. CASE Send
    <2>1. ASSUME NEW k \in sends, SendNext(k) PROVE CopiesFit'
      <3>1. DOMAIN snap' = {} /\ UNCHANGED <<now, tickNow, ev, rows, jobRows, inflight>>
        BY <2>1 DEF SendNext
      <3> QED
        BY <3>1 DEF CopiesFit, FitsToday
    <2>2. ASSUME SendOk \/ SendFlood \/ SendError \/ SendForbidden \/ SendBlock \/ Mark
          PROVE  CopiesFit'
      <3>1. UNCHANGED sendFrame
        BY <2>2 DEF SendOk, SendFlood, SendError, SendForbidden, SendBlock, Mark
      <3> QED
        BY <3>1, SameCopiesFit DEF sendFrame
    <2> QED
      BY <1>4, <2>1, <2>2 DEF Send
  <1>5. CASE TickEnd
    BY <1>5, TickGoneFits DEF TickEnd
  <1> QED
    BY <1>1, <1>2, <1>3, <1>4, <1>5 DEF Tick

LEMMA JobFits ==
  ASSUME TypeOK, CopiesFit, Job
  PROVE  CopiesFit'
  <1> USE DEF tickVars, scanVars, jobFrame
  <1>1. CASE JobStart
    BY <1>1, SameCopiesFit DEF JobStart
  <1>2. ASSUME NEW u \in jobUsers, JobEvents(u) PROVE CopiesFit'
    <2>1. u \in Users /\ LocalDay(u, now) \in Nat
      BY TodayIsDay DEF TypeOK, JobTypeOK
    <2>2. /\ jobRows' = [e \in {x \in Events : /\ Owner[x] = u /\ EventOK(x)
                                               /\ Recomputed(ev[x], LocalDay(u, now)) # ev[x]}
                           |-> Recomputed(ev[e], LocalDay(u, now))]
          /\ UNCHANGED <<now, tickNow, ev, who, snap, rows, inflight>>
      BY <1>2 DEF JobEvents
    <2>3. ASSUME NEW e \in DOMAIN jobRows' PROVE FitsToday(e, jobRows[e])'
      <3>1. /\ e \in Events /\ Owner[e] = u /\ ev[e] \in EventRow
            /\ jobRows'[e] = Recomputed(ev[e], LocalDay(u, now))
        BY <2>2, <2>3 DEF TypeOK, DataTypeOK
      <3> QED
        BY <2>1, <2>2, <3>1, RecomputedFits DEF FitsToday
    <2> QED
      BY <2>2, <2>3 DEF CopiesFit, FitsToday
  <1>3. ASSUME NEW e \in DOMAIN jobRows, JobUpdate(e) PROVE CopiesFit'
    <2>1. e \in Events /\ FitsToday(e, jobRows[e])
      BY RowType DEF TypeOK, JobTypeOK, CopiesFit
    <2>2. UpdateEvent(e, jobRows[e]) /\ UNCHANGED <<now, tickNow, who, snap, rows, inflight>>
      BY <1>3 DEF JobUpdate
    <2>3. \A x \in Events : FitsToday(x, ev[x])'
      BY <2>1, <2>2, WriteFits
    <2>4. \A x \in DOMAIN jobRows' : x \in DOMAIN jobRows /\ jobRows'[x] = jobRows[x]
      BY <1>3 DEF JobUpdate, Without
    <2> QED
      BY <2>2, <2>3, <2>4 DEF CopiesFit, FitsToday
  <1> QED
    BY <1>1, <1>2, <1>3 DEF Job

\* A handler holds a row that fits: as it was read, or recomputed.
LEMMA HandlerFits ==
  ASSUME TypeOK, CopiesFit, Handler
  PROVE  CopiesFit'
  <1> USE DEF dataVars, tickVars, scanVars, jobVars, handFrame
  <1>1. ASSUME NEW e \in Events, NEW row, NEW kind, Prepare(e, row, kind), FitsToday(e, row)
        PROVE  CopiesFit'
    <2>1. \A p \in inflight' : p \in inflight \/ p = [ev |-> e, row |-> row, kind |-> kind]
      BY <1>1 DEF Prepare
    <2>2. UNCHANGED <<now, tickNow, ev, who, snap, rows, jobRows>>
      BY <1>1 DEF Prepare
    <2>3. \A p \in inflight' : FitsToday(p.ev, p.row)
      BY <1>1, <2>1 DEF CopiesFit
    <2> QED
      BY <2>2, <2>3 DEF CopiesFit, FitsToday
  <1>2. ASSUME NEW e \in Events, MuteRead(e) \/ DateRead(e) \/ FieldRead(e) PROVE CopiesFit'
    <2>1. ev[e] \in EventRow /\ Owner[e] \in Users /\ LocalDay(Owner[e], now) \in Nat
      BY EngineConstants, TodayIsDay DEF TypeOK, DataTypeOK
    <2>2. CASE MuteRead(e)
      <3>1. FitsToday(e, [ev[e] EXCEPT !.active = ~@])
        BY <2>1, MutedFits DEF CopiesFit, FitsToday
      <3> QED
        BY <1>1, <2>2, <3>1 DEF MuteRead
    <2>3. CASE DateRead(e)
      <3>1. PICK t \in Tracks, dt \in Dates :
              Prepare(e, Recomputed([ev[e] EXCEPT !.date[t] = dt], LocalDay(Owner[e], now)),
                      "date")
        BY <2>3 DEF DateRead
      <3>2. [ev[e] EXCEPT !.date[t] = dt] \in EventRow
        BY <2>1 DEF EventRow
      <3> QED
        BY <1>1, <2>1, <3>1, <3>2, RecomputedFits DEF FitsToday
    <2>4. CASE FieldRead(e)
      BY <1>1, <2>1, <2>4, RecomputedFits DEF FieldRead, FitsToday
    <2> QED
      BY <1>2, <2>2, <2>3, <2>4
  <1>3. ASSUME NEW p \in inflight, HandlerUpdate(p) PROVE CopiesFit'
    <2>1. p.ev \in Events /\ FitsToday(p.ev, p.row)
      BY DEF TypeOK, JobTypeOK, Prepared, CopiesFit
    <2>2. /\ UpdateEvent(p.ev, p.row) /\ inflight' \subseteq inflight
          /\ UNCHANGED <<now, tickNow, who, snap, rows, jobRows>>
      BY <1>3 DEF HandlerUpdate
    <2>3. \A x \in Events : FitsToday(x, ev[x])'
      BY <2>1, <2>2, WriteFits
    <2> QED
      BY <2>2, <2>3 DEF CopiesFit, FitsToday
  <1>4. ASSUME \/ \E e \in Events : SoftDelete(e) \/ Restore(e)
               \/ \E r \in Rules : ToggleRule(r) \/ DeleteRule(r)
               \/ \E u \in Users : SetNotifications(u) \/ SetBlocked(u) \/ WipeAccount(u)
        PROVE  CopiesFit'
    BY <1>4, SameCopiesFit DEF SoftDelete, Restore, ToggleRule, DeleteRule,
                               SetNotifications, SetBlocked, WipeAccount
  <1> QED
    BY <1>2, <1>3, <1>4 DEF Handler

LEMMA TroubleFits ==
  ASSUME TypeOK, CopiesFit, Trouble
  PROVE  CopiesFit'
  <1> USE DEF dataVars, tickVars, scanVars, sendVars, histVars, jobVars, sendFrame, jobFrame
  <1>1. CASE TickError
    BY <1>1, TickGoneFits DEF TickError
  <1>2. CASE MarkLost
    BY <1>2, SameCopiesFit DEF MarkLost
  <1>3. CASE JobError
    <2>1. DOMAIN jobRows' = {} /\ UNCHANGED <<now, tickNow, ev, who, snap, rows, inflight>>
      BY <1>3 DEF JobError
    <2> QED
      BY <2>1 DEF CopiesFit, FitsToday
  <1>4. CASE Crash
    <2>1. /\ DOMAIN jobRows' = {} /\ inflight' = {} /\ DOMAIN snap' = {} /\ DOMAIN rows' = {}
          /\ tickNow' = 0 /\ UNCHANGED <<now, ev>>
      BY <1>4 DEF Crash, TickGone
    <2>2. 0 <= now
      BY CalendarAssumption DEF TypeOK, DataTypeOK
    <2> QED
      BY <2>1, <2>2 DEF CopiesFit, FitsToday
  <1> QED
    BY <1>1, <1>2, <1>3, <1>4 DEF Trouble

\* Time only adds days a date may have had.
LEMMA PassFits ==
  ASSUME TypeOK, TypeOK', CopiesFit, Pass
  PROVE  CopiesFit'
  <1> USE DEF dataVars, tickVars, scanVars, jobVars
  <1>1. /\ now' = now + 1 /\ now \in Int /\ tickNow \in Int
        /\ UNCHANGED <<ev, tickNow, who, snap, rows, jobRows, inflight>>
    BY CalendarAssumption DEF Pass, TypeOK, DataTypeOK, TickTypeOK
  <1>2. ASSUME NEW e \in Events, NEW row, FitsToday(e, row)
        PROVE  FitsToday(e, row)'
    <2>1. Owner[e] \in Users
      BY EngineConstants
    <2>2. LocalDay(Owner[e], now) \in Nat /\ LocalDay(Owner[e], now') \in Nat
      BY <2>1, LocalDayType, CalendarAssumption DEF TypeOK, DataTypeOK, Days
    <2>3. LocalDay(Owner[e], now) <= LocalDay(Owner[e], now')
      BY <1>1, <2>1, LocalDayMonotone
    <2> QED
      BY <1>2, <2>2, <2>3, FitsLater DEF FitsToday
  <1>3. /\ DOMAIN snap \subseteq Events /\ DOMAIN rows \subseteq Events
        /\ DOMAIN jobRows \subseteq Events /\ \A p \in inflight : p.ev \in Events
    BY DEF TypeOK, TickTypeOK, JobTypeOK, IsRowMap, Prepared
  <1> QED
    BY <1>1, <1>2, <1>3 DEF CopiesFit

LEMMA NextFits ==
  ASSUME TypeOK, TypeOK', CopiesFit, [Next]_vars
  PROVE  CopiesFit'
  <1>1. CASE UNCHANGED vars
    BY <1>1, SameCopiesFit DEF vars, dataVars, tickVars, scanVars, jobVars
  <1> QED
    BY <1>1, TickFits, JobFits, HandlerFits, TroubleFits, PassFits DEF Next, TickStep, JobStep

\* Every copy of an event that the tick, the daily job or a handler holds, and every row
\* itself, has occurrences its own dates had on some day up to today: the inductive
\* invariant behind OccurrencesFit.
THEOREM CopiesStayFit == Spec => []CopiesFit
  BY InitFits, NextFits, TypeCorrect, PTL DEF Spec

\* The stored occurrence of every event is one its stored date had on some day up
\* to today, whichever of the stale rows that the tick, the daily job and the
\* handlers hold is written last.
THEOREM OccurrencesFit == Spec => []OccurrenceFitsDate
  <1>1. CopiesFit => OccurrenceFitsDate
    BY DEF CopiesFit, FitsToday, OccurrenceFitsDate
  <1> QED
    BY <1>1, CopiesStayFit, PTL

-----------------------------------------------------------------------------
\* What is out of service

\* Whatever is looked at and found in service is not quiet.
LEMMA InServiceNotQuiet ==
  ASSUME HeldInService
  PROVE  /\ \A u \in Users : UserOK(u) => u \notin quiet
         /\ \A e \in Events : EventOK(e) => e \notin quiet
         /\ \A r \in Rules : RuleOK(r) => r \notin quiet
  BY NamesAssumption DEF HeldInService, OutOfService

\* During a tick, and while none runs, quiet only shrinks.
LEMMA QuietShrinks ==
  ASSUME HeldInService, WatchQuiet
  PROVE  /\ quiet' \subseteq OutOfService'
         /\ tickPc # "idle" \/ tickPc' = "idle" => quiet' \subseteq quiet
  BY DEF HeldInService, WatchQuiet

LEMMA InitInService == Init => HeldInService
  BY DEF Init, HeldInService

LEMMA SameInService ==
  ASSUME HeldInService, WatchQuiet, UNCHANGED tickVars
  PROVE  HeldInService'
  <1>1. quiet' \subseteq quiet /\ quiet' \subseteq OutOfService'
    BY QuietShrinks DEF tickVars
  <1> QED
    BY <1>1 DEF HeldInService, Heeded, tickVars, scanVars, sendVars

LEMMA TickGoneInService ==
  ASSUME HeldInService, WatchQuiet, TickGone
  PROVE  HeldInService'
  <1>1. quiet' \subseteq OutOfService'
    BY QuietShrinks
  <1> QED
    BY <1>1 DEF HeldInService, TickGone

\* A step of the tick that holds no more than before of what it has read.
LEMMA FewerInService ==
  ASSUME HeldInService, WatchQuiet, tickPc # "idle", tickPc' # "idle",
         userq' \subseteq userq, ruleSnap' \subseteq ruleSnap,
         DOMAIN snap' \subseteq DOMAIN snap, todo' \subseteq todo,
         \A k \in sends' : Heeded(k),
         tickPc' = "recUser" /\ evOk' => cur'[1] \notin quiet,
         tickPc' = "recRule" => cur'[1] \notin quiet /\ Owner[cur'[1]] \notin quiet,
         tickPc' = "sending" => Heeded(cur')
  PROVE  HeldInService'
  <1>1. quiet' \subseteq quiet /\ quiet' \subseteq OutOfService'
    BY QuietShrinks
  <1> QED
    BY <1>1 DEF HeldInService, Heeded

LEMMA RecoverInService ==
  ASSUME TypeOK, HeldIsOpen, HeldInService, WatchQuiet, TickStart \/ Recover
  PROVE  HeldInService'
  <1> USE DEF scanVars, sendVars
  <1>0. Holding => cur[1] \in Events /\ cur[2] \in Rules /\ Owner[cur[1]] \in Users
    BY KeyParts DEF HeldIsOpen, PcInv
  <1>1. CASE TickStart
    <2>1. quiet' \subseteq OutOfService'
      BY QuietShrinks
    <2> QED
      BY <1>1, <2>1 DEF TickStart, HeldInService
  <1>2. ASSUME NEW p \in rec, RecoverEvent(p) PROVE HeldInService'
    <2>1. p.key[1] \in Events
      BY KeyParts DEF TypeOK, TickTypeOK
    <2>2. tickPc' = "recUser" /\ evOk' => cur'[1] \notin quiet
      BY <1>2, <2>1, InServiceNotQuiet DEF RecoverEvent, ToMark
    <2>3. /\ tickPc # "idle" /\ tickPc' \in {"recUser", "mark"}
          /\ UNCHANGED <<userq, ruleSnap, snap, todo, sends>>
      BY <1>2 DEF RecoverEvent, ToMark
    <2>4. \A k \in sends' : Heeded(k)
      BY <2>3 DEF HeldInService
    <2> QED
      BY <2>2, <2>3, <2>4, FewerInService
  <1>3. CASE RecoverUser
    <2>1. tickPc' = "recRule" => cur'[1] \notin quiet /\ Owner[cur'[1]] \notin quiet
      <3>1. tickPc' = "recRule" => cur' = cur /\ UserOK(Owner[cur[1]]) /\ evOk
        BY <1>3 DEF RecoverUser, ToMark
      <3>2. evOk => cur[1] \notin quiet
        BY <1>3 DEF RecoverUser, HeldInService
      <3>3. UserOK(Owner[cur[1]]) => Owner[cur[1]] \notin quiet
        BY <1>0, <1>3, InServiceNotQuiet DEF RecoverUser, Holding
      <3> QED
        BY <3>1, <3>2, <3>3
    <2>2. /\ tickPc # "idle" /\ tickPc' \in {"recRule", "mark"}
          /\ UNCHANGED <<userq, ruleSnap, snap, todo, sends>>
      BY <1>3 DEF RecoverUser, ToMark
    <2>3. \A k \in sends' : Heeded(k)
      BY <2>2 DEF HeldInService
    <2> QED
      BY <2>1, <2>2, <2>3, FewerInService
  <1>4. CASE RecoverRule
    <2>1. tickPc' = "sending" => Heeded(cur')
      <3>1. tickPc' = "sending" => cur' = cur /\ RuleOK(cur[2])
        BY <1>4 DEF RecoverRule, ToMark
      <3>2. cur[1] \notin quiet /\ Owner[cur[1]] \notin quiet
        BY <1>4 DEF RecoverRule, HeldInService
      <3>3. RuleOK(cur[2]) => cur[2] \notin quiet
        BY <1>0, <1>4, InServiceNotQuiet DEF RecoverRule, Holding
      <3> QED
        BY <3>1, <3>2, <3>3 DEF Heeded
    <2>2. /\ tickPc # "idle" /\ tickPc' \in {"sending", "mark"}
          /\ UNCHANGED <<userq, ruleSnap, snap, todo, sends>>
      BY <1>4 DEF RecoverRule, ToMark
    <2>3. \A k \in sends' : Heeded(k)
      BY <2>2 DEF HeldInService
    <2> QED
      BY <2>1, <2>2, <2>3, FewerInService
  <1> QED
    BY <1>1, <1>2, <1>3, <1>4 DEF Recover

LEMMA DueTaskParts ==
  ASSUME NEW evs, NEW rs, NEW t, NEW task \in DueTasks(evs, rs, t)
  PROVE  /\ task.key[1] \in DOMAIN evs /\ task.key[2] \in rs /\ task.track \in Tracks
         /\ task.key = <<task.key[1], task.key[2], evs[task.key[1]].occ[task.track]>>
         /\ task = [key |-> task.key, track |-> task.track]
         /\ task.key[3] # None /\ task.key[2] \in Applicable(task.key[1], rs)
         /\ FireUTC(task.key) <= t
  BY DEF DueTasks

LEMMA ScanInService ==
  ASSUME TypeOK, HeldIsOpen, HeldInService, WatchQuiet, Scan
  PROVE  HeldInService'
  <1> USE DEF sendVars
  <1>0. /\ tickPc \in {"recover", "rules", "scan"} => quiet' \subseteq quiet
        /\ quiet' \subseteq OutOfService'
    BY QuietShrinks
  <1>1. CASE TickUsers
    <2>1. userq' \cap quiet = {}
      BY <1>1, InServiceNotQuiet DEF TickUsers
    <2>2. /\ tickPc = "recover" /\ tickPc' = "scan"
          /\ UNCHANGED <<snap, ruleSnap, todo, sends>>
      BY <1>1 DEF TickUsers
    <2> QED
      BY <1>0, <2>1, <2>2 DEF HeldInService, Heeded
  <1>2. ASSUME NEW u \in userq, TickEvents(u) PROVE HeldInService'
    <2>1. \A e \in DOMAIN snap' : e \notin quiet /\ Owner[e] \notin quiet
      <3>1. u \notin quiet
        BY <1>2 DEF HeldInService
      <3>2. \A e \in DOMAIN snap' : e \in Events /\ Owner[e] = u /\ EventOK(e)
        BY <1>2 DEF TickEvents
      <3> QED
        BY <3>1, <3>2, InServiceNotQuiet
    <2>2. /\ tickPc = "scan" /\ tickPc' = "rules" /\ userq' \subseteq userq
          /\ ruleSnap' = {} /\ UNCHANGED <<todo, sends>>
      BY <1>2 DEF TickEvents, ScanDone
    <2> QED
      BY <1>0, <2>1, <2>2 DEF HeldInService, Heeded
  <1>3. CASE TickRules
    <2>1. ruleSnap' \cap quiet = {}
      BY <1>3, InServiceNotQuiet DEF TickRules
    <2>2. ASSUME NEW task \in todo' PROVE Heeded(task.key)
      <3>1. task \in DueTasks(snap, ruleSnap', tickNow)
        BY <1>3, <2>2 DEF TickRules
      <3>2. task.key[1] \in DOMAIN snap /\ task.key[2] \in ruleSnap'
        BY <3>1, DueTaskParts
      <3> QED
        BY <2>1, <3>2 DEF HeldInService, Heeded
    <2>3. /\ tickPc = "rules" /\ tickPc' = "scan"
          /\ UNCHANGED <<userq, snap, sends>>
      BY <1>3 DEF TickRules
    <2> QED
      BY <1>0, <2>1, <2>2, <2>3 DEF HeldInService, Heeded
  <1>4. ASSUME NEW task \in todo,
               QueueLate(task) \/ QueueSameMinute(task) \/ QueueSend(task)
        PROVE  HeldInService'
    <2>1. /\ tickPc = "scan" /\ tickPc' \in {"scan", "mark"} /\ todo' \subseteq todo
          /\ UNCHANGED <<userq, snap, ruleSnap>>
      BY <1>4 DEF QueueLate, QueueSameMinute, QueueSend, TakeTask, ToMark
    <2>2. sends' \subseteq sends \cup {task.key}
      BY <1>4 DEF QueueLate, QueueSameMinute, QueueSend
    <2>3. \A k \in sends' : Heeded(k)
      BY <2>2 DEF HeldInService
    <2> QED
      BY <2>1, <2>3, FewerInService
  <1>5. ASSUME NEW task \in todo, QueueGone(task) PROVE HeldInService'
    BY <1>5, TickGoneInService DEF QueueGone
  <1>6. ASSUME NEW e \in DOMAIN rows, TickAdvance(e) PROVE HeldInService'
    <2>1. /\ tickPc = "scan" /\ tickPc' = "scan"
          /\ UNCHANGED <<userq, snap, ruleSnap, todo, sends>>
      BY <1>6 DEF TickAdvance
    <2>2. \A k \in sends' : Heeded(k)
      BY <2>1 DEF HeldInService
    <2> QED
      BY <2>1, <2>2, FewerInService
  <1> QED
    BY <1>1, <1>2, <1>3, <1>4, <1>5, <1>6 DEF Scan

LEMMA SendInService ==
  ASSUME TypeOK, HeldIsOpen, HeldInService, WatchQuiet, Send
  PROVE  HeldInService'
  <1> USE DEF sendFrame, scanVars
  <1>1. ASSUME NEW k \in sends, SendNext(k) PROVE HeldInService'
    <2>1. /\ tickPc \in {"scan", "send"} /\ tickPc' = "sending"
          /\ userq' = {} /\ ruleSnap' = {} /\ DOMAIN snap' = {}
          /\ sends' \subseteq sends /\ cur' = k /\ UNCHANGED todo
      BY <1>1 DEF SendNext, ScanDone
    <2>2. Heeded(k) /\ \A j \in sends' : Heeded(j)
      BY <2>1 DEF HeldInService
    <2> QED
      BY <2>1, <2>2, FewerInService
  <1>2. ASSUME SendOk \/ SendFlood \/ SendError \/ SendForbidden \/ SendBlock \/ Mark
        PROVE  HeldInService'
    <2>1. /\ tickPc \in {"sending", "block", "mark"}
          /\ UNCHANGED <<userq, snap, ruleSnap, todo, sends>>
      BY <1>2 DEF SendOk, SendFlood, SendError, SendForbidden, SendBlock, Mark
    <2>2. tickPc' \in {"sending", "block", "mark", "recover", "scan", "send"}
      BY <1>2 DEF SendOk, SendFlood, SendError, SendForbidden, SendBlock, Mark, Unmarked,
                  ToMark, TypeOK, TickTypeOK
    <2>3. tickPc' = "sending" => cur' = cur /\ tickPc = "sending"
      BY <1>2 DEF SendOk, SendFlood, SendError, SendForbidden, SendBlock, Mark, Unmarked,
                  ToMark, TypeOK, TickTypeOK
    <2>4. (\A k \in sends' : Heeded(k)) /\ (tickPc' = "sending" => Heeded(cur'))
      BY <2>1, <2>3 DEF HeldInService
    <2> QED
      BY <2>1, <2>2, <2>4, FewerInService
  <1> QED
    BY <1>1, <1>2 DEF Send

LEMMA NextInService ==
  ASSUME TypeOK, HeldIsOpen, HeldInService, [Next]_vars
  PROVE  HeldInService'
  <1> USE DEF dataVars, histVars, jobVars
  <1>1. CASE UNCHANGED vars
    <2>1. OutOfService' = OutOfService
      BY <1>1 DEF vars, OutOfService, UserOK, EventOK, RuleOK
    <2> QED
      BY <1>1, <2>1 DEF vars, tickVars, scanVars, sendVars, HeldInService, Heeded
  <1>2. CASE Tick /\ WatchQuiet
    BY <1>2, RecoverInService, ScanInService, SendInService, TickGoneInService
    DEF Tick, TickEnd
  <1>3. CASE (Job \/ Handler \/ Pass) /\ WatchQuiet
    <2>1. UNCHANGED tickVars
      BY <1>3 DEF Job, JobStart, JobEvents, JobUpdate, jobFrame, Handler, MuteRead, DateRead,
                  FieldRead, Prepare, HandlerUpdate, SoftDelete, Restore, ToggleRule, DeleteRule,
                  SetNotifications, SetBlocked, WipeAccount, handFrame, Pass
    <2> QED
      BY <1>3, <2>1, SameInService
  <1>4. CASE Trouble /\ WatchQuiet
    <2>1. CASE TickError \/ Crash
      BY <1>4, <2>1, TickGoneInService DEF TickError, Crash
    <2>2. CASE JobError
      BY <1>4, <2>2, SameInService DEF JobError, jobFrame
    <2>3. CASE MarkLost
      <3>1. /\ tickPc = "mark" /\ tickPc' \in {"recover", "scan", "send"}
            /\ UNCHANGED <<userq, snap, ruleSnap, todo, sends>>
        BY <2>3 DEF MarkLost, Unmarked, sendFrame, scanVars, TypeOK, TickTypeOK
      <3>2. \A k \in sends' : Heeded(k)
        BY <3>1 DEF HeldInService
      <3> QED
        BY <1>4, <3>1, <3>2, FewerInService
    <2> QED
      BY <1>4, <2>1, <2>2, <2>3 DEF Trouble
  <1> QED
    BY <1>1, <1>2, <1>3, <1>4 DEF Next, TickStep, JobStep

\* What the tick holds (users and events still to be scanned, its snapshots, queued sends
\* and the send in hand) was in service at some moment since the tick began: the inductive
\* invariant behind QuietIsKept.
THEOREM HeldStaysInService == Spec => []HeldInService
  BY InitInService, NextInService, TypeCorrect, HoldsOpen, PTL DEF Spec

\* Only a send delivers, and only what is in hand.
LEMMA DeliversCur ==
  ASSUME TypeOK, [Next]_vars, NEW k \in Keys, delivered'[k] > delivered[k]
  PROVE  tickPc = "sending" /\ k = cur
  <1>1. delivered[k] \in Nat /\ delivered[k] # delivered'[k]
    BY DEF TypeOK, LogTypeOK
  <1>2. SendOk \/ SendError \/ Crash
    <2>1. UNCHANGED delivered \/ SendOk \/ SendError \/ Crash
      BY DEF Next, TickStep, JobStep, Tick, TickStart, Recover, RecoverEvent, RecoverUser,
             RecoverRule, Scan, TickUsers, TickEvents, TickRules, QueueLate, QueueSameMinute,
             QueueSend, TakeTask, QueueGone, TickAdvance, Send, SendNext, SendFlood,
             SendForbidden, SendBlock, Mark, TickEnd, Job, JobStart, JobEvents, JobUpdate,
             jobFrame, Handler, MuteRead, DateRead, FieldRead, Prepare, HandlerUpdate,
             SoftDelete, Restore, ToggleRule, DeleteRule, SetNotifications, SetBlocked,
             WipeAccount, handFrame, Trouble, TickError, MarkLost, JobError, Pass, histVars,
             vars
    <2> QED
      BY <1>1, <2>1
  <1>3. tickPc = "sending" /\ \E n \in {0, 1} : Deliver(cur, n)
    <2>1. SendOk \/ SendError => tickPc = "sending" /\ \E n \in {0, 1} : Deliver(cur, n)
      BY DEF SendOk, SendError
    <2>2. Crash => \/ tickPc = "sending" /\ \E n \in {0, 1} : Deliver(cur, n)
                   \/ UNCHANGED delivered
      BY DEF Crash, histVars
    <2> QED
      BY <1>1, <1>2, <2>1, <2>2
  <1> QED
    BY <1>1, <1>3 DEF Deliver, TypeOK, LogTypeOK

\* No message goes out about a user, an event or a rule that has been out of service
\* since before the current tick began, although the recovery, the scan and the
\* queue of sends all work on rows read earlier in it.
THEOREM QuietIsKept == Spec => QuietStaysQuiet
  <1>1. ASSUME TypeOK, HeldInService, [Next]_vars, NEW k \in Keys,
               delivered'[k] > delivered[k]
        PROVE  {Owner[k[1]], k[1], k[2]} \cap quiet = {}
    <2>1. Heeded(k)
      BY <1>1, DeliversCur DEF HeldInService
    <2> QED
      BY <2>1 DEF Heeded
  <1>2. TypeOK /\ HeldInService /\ [Next]_vars =>
          [\A k \in Keys : delivered'[k] > delivered[k] =>
             {Owner[k[1]], k[1], k[2]} \cap quiet = {}]_vars
    BY <1>1
  <1> QED
    BY <1>2, TypeCorrect, HeldStaysInService, PTL DEF Spec, QuietStaysQuiet

-----------------------------------------------------------------------------
\* What the scan accounts for

\* An occurrence before a user's today has every fire time of its rules behind it.
LEMMA PastIsDue ==
  ASSUME NEW e \in Events, NEW r \in Rules, NEW o \in Days, NEW t \in Int,
         o < LocalDay(Owner[e], t)
  PROVE  FireUTC(<<e, r, o>>) <= t
  <1> DEFINE D == DayLen
             z == Tz[Owner[e]]
             q == (t + z) \div D
             f == RuleOffset[r]
             c == RuleAt[r]
  <1>1. D \in Nat \ {0} /\ z \in Int /\ f \in Nat /\ c \in Int /\ c < D /\ o \in Nat
    BY EngineConstants, CalendarAssumption, NamesAssumption DEF Days
  <1>2. o + 1 <= q /\ q \in Int
    BY <1>1 DEF LocalDay, Days
  <1> HIDE DEF D, z, f, c
  <1>3. D * q <= t + z
    BY <1>1, SMT DEF q
  <1> HIDE DEF q
  <1>4. D * (o + 1) <= D * q
    BY <1>1, <1>2, SMT
  <1>5. D * (o + 1) = D * o + D /\ D * o \in Int /\ D * q \in Int
    BY <1>1, <1>2, SMT
  <1>6. (o - f) * D <= D * o /\ (o - f) * D \in Int
    BY <1>1, SMT
  <1>7. (o - f) * D + c - z <= t
    BY <1>1, <1>2, <1>3, <1>4, <1>5, <1>6, SMT
  <1> QED
    BY <1>7 DEF FireUTC, D, z, f, c

\* A row of the log stays, or its event is gone for good.
Kept ==
  /\ \A e \in Events : place[e] = "gone" => place'[e] = "gone"
  /\ \A k \in DOMAIN log : k \in DOMAIN log' \/ place'[k[1]] = "gone"

LEMMA InsertDomain ==
  ASSUME NEW k, Insert(k)
  PROVE  DOMAIN log' = DOMAIN log \cup {k}
  BY DEF Insert

LEMMA StepKeeps ==
  ASSUME TypeOK, [Next]_vars
  PROVE  Kept
  <1> USE DEF dataVars, histVars
  <1>1. CASE UNCHANGED <<place, log>>
    BY <1>1 DEF Kept
  <1>2. ASSUME NEW k, Insert(k), UNCHANGED place PROVE Kept
    BY <1>2, InsertDomain DEF Kept
  <1>3. CASE Mark
    BY <1>3 DEF Mark, Kept, sendFrame
  <1>4. ASSUME NEW u \in Users, WipeAccount(u) PROVE Kept
    <2>1. DOMAIN log' = {x \in DOMAIN log : Owner[x[1]] # u}
      BY <1>4 DEF WipeAccount
    <2>2. \A e \in Events : place'[e] = IF Owner[e] = u THEN "gone" ELSE place[e]
      BY <1>4 DEF WipeAccount
    <2>3. \A k \in DOMAIN log : k[1] \in Events
      BY KeyParts DEF TypeOK, LogTypeOK
    <2> QED
      BY <2>1, <2>2, <2>3 DEF Kept
  <1>5. CASE \E e \in Events : SoftDelete(e) \/ Restore(e)
    <2>1. PICK e \in Events : SoftDelete(e) \/ Restore(e)
      BY <1>5
    <2>2. place[e] # "gone" /\ (\A x \in Events : x # e => place'[x] = place[x]) /\ log' = log
      BY <2>1 DEF SoftDelete, Restore, handFrame, TypeOK, DataTypeOK
    <2> QED
      BY <2>2 DEF Kept
  <1>6. CASE Job \/ Pass \/ Trouble
    BY <1>1, <1>6 DEF Job, JobStart, JobEvents, JobUpdate, jobFrame, Pass, Trouble, TickError,
                      MarkLost, JobError, Crash, sendFrame
  <1>7. CASE Handler
    <2>1. \/ UNCHANGED <<place, log>>
          \/ \E e \in Events : SoftDelete(e) \/ Restore(e)
          \/ \E u \in Users : WipeAccount(u)
      BY <1>7 DEF Handler, MuteRead, DateRead, FieldRead, Prepare, HandlerUpdate, ToggleRule,
                  DeleteRule, SetNotifications, SetBlocked, handFrame
    <2> QED
      BY <1>1, <1>4, <1>5, <2>1
  <1>8. CASE TickStart \/ Recover \/ Send \/ TickEnd
    BY <1>1, <1>3, <1>8 DEF TickStart, Recover, RecoverEvent, RecoverUser, RecoverRule, Send,
                            SendNext, SendOk, SendFlood, SendError, SendForbidden, SendBlock,
                            sendFrame, TickEnd
  <1>9. CASE Scan
    <2>1. UNCHANGED place /\ (UNCHANGED log \/ \E k : Insert(k))
      BY <1>9 DEF Scan, TickUsers, TickEvents, TickRules, QueueLate, QueueSameMinute,
                  QueueSend, TakeTask, QueueGone, TickAdvance
    <2> QED
      BY <1>1, <1>2, <2>1
  <1>10. CASE UNCHANGED vars
    BY <1>1, <1>10 DEF vars
  <1> QED
    BY <1>6, <1>7, <1>8, <1>9, <1>10 DEF Next, TickStep, JobStep, Tick

LEMMA AccountedStays ==
  ASSUME Kept, ruleSnap' = ruleSnap, NEW k, Accounted(k)
  PROVE  Accounted(k)' \/ place'[k[1]] = "gone"
  <1>1. CASE k \in DOMAIN log
    BY <1>1 DEF Kept, Accounted
  <1>2. ASSUME NEW r \in Applicable(k[1], ruleSnap), <<k[1], r, k[3]>> \in DOMAIN log,
               FireUTC(<<k[1], r, k[3]>>) = FireUTC(k)
        PROVE  Accounted(k)' \/ place'[k[1]] = "gone"
    BY <1>2 DEF Kept, Accounted
  <1> QED
    BY <1>1, <1>2 DEF Accounted

LEMMA ClaimStays ==
  ASSUME Kept, UNCHANGED <<snap, ruleSnap>>, NEW m, Claimed(m)
  PROVE  Claimed(m)' \/ place'[m[1]] = "gone"
  <1>1. PICK r \in Applicable(m[1], ruleSnap) :
          /\ <<m[1], r, snap[m[1]].occ[m[2]]>> \in DOMAIN log
          /\ FireUTC(<<m[1], r, snap[m[1]].occ[m[2]]>>) = m[3]
    BY DEF Claimed
  <1> QED
    BY <1>1 DEF Kept, Claimed

LEMMA InitAccounts == Init => ScanAccounts
  BY DEF Init, ScanAccounts, Recovering, Scanning

LEMMA TickGoneAccounts ==
  ASSUME TickGone
  PROVE  ScanAccounts'
  BY DEF TickGone, ScanAccounts, Recovering, Scanning

\* What the scan has read stands still, and so does the phase of the tick.
LEMMA SamePhaseAccounts ==
  ASSUME TypeOK, ScanAccounts, Kept,
         UNCHANGED <<tickNow, who, snap, ruleSnap, todo, seen, rows>>,
         Scanning' <=> Scanning, tickPc' = "rules" <=> tickPc = "rules",
         Recovering' \/ tickPc' = "idle" => Recovering \/ tickPc = "idle"
  PROVE  ScanAccounts'
  <1>1. ASSUME Scanning
        PROVE  /\ \A task \in DueTasks(snap, ruleSnap, tickNow) :
                    task \in todo \/ place'[task.key[1]] = "gone" \/ Accounted(task.key)'
               /\ \A m \in seen : place'[m[1]] = "gone" \/ Claimed(m)'
    <2>1. ASSUME NEW task \in DueTasks(snap, ruleSnap, tickNow)
          PROVE  task \in todo \/ place'[task.key[1]] = "gone" \/ Accounted(task.key)'
      <3>1. task.key[1] \in Events
        BY DueTaskParts, RowType DEF TypeOK, TickTypeOK
      <3>2. task \in todo \/ place[task.key[1]] = "gone" \/ Accounted(task.key)
        BY <1>1, <2>1 DEF ScanAccounts
      <3> QED
        BY <3>1, <3>2, AccountedStays DEF Kept
    <2>2. ASSUME NEW m \in seen
          PROVE  place'[m[1]] = "gone" \/ Claimed(m)'
      <3>1. m[1] \in Events
        BY <2>2 DEF TypeOK, TickTypeOK
      <3> QED
        BY <1>1, <2>2, <3>1, ClaimStays DEF ScanAccounts, Kept
    <2> QED
      BY <2>1, <2>2
  <1>2. /\ (tickPc' \in {"idle", "rules"} \/ Recovering') => DOMAIN rows = {} /\ todo = {}
        /\ (tickPc' = "idle" \/ Recovering') => DOMAIN snap = {} /\ seen = {}
        /\ ~(Scanning' \/ tickPc' = "rules") => DOMAIN rows = {}
        /\ tickPc' = "rules" => seen = {}
    BY DEF ScanAccounts
  <1>3. /\ \A e \in DOMAIN snap : Owner[e] = who
        /\ \A e \in DOMAIN rows :
             e \in DOMAIN snap /\ rows[e] = Advanced(snap[e], LocalDay(who, tickNow))
        /\ Scanning => todo \subseteq DueTasks(snap, ruleSnap, tickNow)
    BY DEF ScanAccounts
  <1> QED
    BY <1>1, <1>2, <1>3 DEF ScanAccounts

\* The three ways a task leaves todo with its row, or the row of its minute, in the
\* log.
LEMMA QueueAccounts ==
  ASSUME TypeOK, ScanAccounts, Kept, NEW task \in todo,
         QueueLate(task) \/ QueueSameMinute(task) \/ QueueSend(task)
  PROVE  ScanAccounts'
  <1>1. /\ tickPc = "scan" /\ todo' = todo \ {task}
        /\ UNCHANGED <<tickNow, who, snap, ruleSnap, rows>>
    BY DEF QueueLate, QueueSameMinute, QueueSend, TakeTask
  <1>2. Scanning /\ Scanning' /\ ~Recovering' /\ tickPc' \notin {"idle", "rules"}
    BY <1>1 DEF QueueLate, QueueSameMinute, QueueSend, TakeTask, ToMark, Scanning, Recovering
  <1>3. task \in DueTasks(snap, ruleSnap, tickNow) /\ task.key \in Keys
    BY <1>2 DEF ScanAccounts, TypeOK, TickTypeOK, Task
  <1>4. /\ task.key[1] \in Events /\ task.key[2] \in Applicable(task.key[1], ruleSnap)
        /\ task.key = <<task.key[1], task.key[2], snap[task.key[1]].occ[task.track]>>
    BY <1>3, DueTaskParts, KeyParts
  <1>5. \A x : Accounted(x) => Accounted(x)' \/ place'[x[1]] = "gone"
    BY <1>1, AccountedStays
  <1>6. Claimed(Minute(task)) => Accounted(task.key)
    BY <1>4 DEF Claimed, Minute, Accounted
  <1>7. place'[task.key[1]] = "gone" \/ Accounted(task.key)'
    <2>1. CASE QueueSameMinute(task)
      <3>1. place[Minute(task)[1]] = "gone" \/ Claimed(Minute(task))
        BY <1>2, <2>1 DEF QueueSameMinute, ScanAccounts
      <3> QED
        BY <1>4, <1>5, <1>6, <3>1 DEF Minute, Kept
    <2>2. CASE QueueLate(task) \/ QueueSend(task)
      <3>1. task.key \in DOMAIN log'
        BY <2>2, InsertDomain DEF QueueLate, QueueSend
      <3> QED
        BY <3>1 DEF Accounted
    <2> QED
      BY <2>1, <2>2
  <1>8. ASSUME NEW m \in seen'
        PROVE  place'[m[1]] = "gone" \/ Claimed(m)'
    <2>1. CASE m \in seen
      <3>1. m[1] \in Events
        BY <2>1 DEF TypeOK, TickTypeOK
      <3>2. place[m[1]] = "gone" \/ Claimed(m)
        BY <1>2, <2>1 DEF ScanAccounts
      <3> QED
        BY <1>1, <3>1, <3>2, ClaimStays DEF Kept
    <2>2. CASE m \notin seen
      <3>1. QueueSend(task) /\ m = Minute(task)
        BY <1>8, <2>2 DEF QueueLate, QueueSameMinute, QueueSend
      <3>2. task.key \in DOMAIN log'
        BY <3>1, InsertDomain DEF QueueSend
      <3> QED
        BY <1>1, <1>4, <3>1, <3>2 DEF Claimed, Minute
    <2> QED
      BY <2>1, <2>2
  <1>9. ASSUME NEW x \in DueTasks(snap, ruleSnap, tickNow)
        PROVE  x \in todo' \/ place'[x.key[1]] = "gone" \/ Accounted(x.key)'
    <2>1. x.key[1] \in Events
      BY <1>9, DueTaskParts, RowType DEF TypeOK, TickTypeOK
    <2>2. x \in todo \/ place[x.key[1]] = "gone" \/ Accounted(x.key)
      BY <1>2, <1>9 DEF ScanAccounts
    <2> QED
      BY <1>1, <1>5, <1>7, <2>1, <2>2 DEF Kept
  <1>10. /\ \A e \in DOMAIN snap : Owner[e] = who
         /\ \A e \in DOMAIN rows :
              e \in DOMAIN snap /\ rows[e] = Advanced(snap[e], LocalDay(who, tickNow))
         /\ todo' \subseteq DueTasks(snap, ruleSnap, tickNow)
    BY <1>1, <1>2 DEF ScanAccounts
  <1> QED
    BY <1>1, <1>2, <1>8, <1>9, <1>10 DEF ScanAccounts

LEMMA ScanStepAccounts ==
  ASSUME TypeOK, ScanAccounts, Kept, Scan
  PROVE  ScanAccounts'
  <1> USE DEF dataVars, histVars, sendVars, jobVars
  <1>1. CASE TickUsers
    <2>1. /\ tickPc = "recover" /\ tickPc' = "scan"
          /\ UNCHANGED <<tickNow, who, snap, ruleSnap, todo, seen, rows>>
      BY <1>1 DEF TickUsers
    <2>2. DOMAIN snap = {} /\ seen = {} /\ DOMAIN rows = {} /\ todo = {}
      BY <2>1 DEF ScanAccounts, Recovering
    <2>3. DueTasks(snap, ruleSnap, tickNow) = {}
      BY <2>2 DEF DueTasks
    <2> QED
      BY <2>1, <2>2, <2>3 DEF ScanAccounts, Recovering
  <1>2. ASSUME NEW u \in userq, TickEvents(u) PROVE ScanAccounts'
    <2>1. /\ tickPc' = "rules" /\ DOMAIN rows' = {} /\ todo' = {} /\ seen' = {}
          /\ \A e \in DOMAIN snap' : Owner[e] = who'
      BY <1>2 DEF TickEvents, ScanDone
    <2> QED
      BY <2>1 DEF ScanAccounts, Recovering, Scanning
  <1>3. CASE TickRules
    <2>1. /\ tickPc = "rules" /\ tickPc' = "scan"
          /\ todo' = DueTasks(snap, ruleSnap', tickNow)
          /\ rows' = [e \in {x \in DOMAIN snap :
                               Advanced(snap[x], LocalDay(who, tickNow)) # snap[x]}
                        |-> Advanced(snap[e], LocalDay(who, tickNow))]
          /\ UNCHANGED <<tickNow, who, snap, seen>>
      BY <1>3 DEF TickRules
    <2>2. seen = {} /\ \A e \in DOMAIN snap : Owner[e] = who
      BY <2>1 DEF ScanAccounts
    <2> QED
      BY <2>1, <2>2 DEF ScanAccounts, Recovering, Scanning
  <1>4. ASSUME NEW task \in todo,
               QueueLate(task) \/ QueueSameMinute(task) \/ QueueSend(task)
        PROVE  ScanAccounts'
    BY <1>4, QueueAccounts
  <1>5. ASSUME NEW task \in todo, QueueGone(task) PROVE ScanAccounts'
    BY <1>5, TickGoneAccounts DEF QueueGone
  <1>6. ASSUME NEW e \in DOMAIN rows, TickAdvance(e) PROVE ScanAccounts'
    <2> DEFINE OneRowLess ==
          /\ UNCHANGED <<tickNow, who, snap, ruleSnap, todo, seen>>
          /\ UNCHANGED <<tickPc, stage, log>>
          /\ \A x \in DOMAIN rows' : x \in DOMAIN rows /\ rows'[x] = rows[x]
    <2>1. OneRowLess /\ tickPc = "scan" /\ UNCHANGED place
      BY <1>6 DEF TickAdvance, Without
    <2>2. /\ \A x : Accounted(x)' = Accounted(x)
          /\ \A m : Claimed(m)' = Claimed(m)
      BY <2>1 DEF Accounted, Claimed
    <2>3. Scanning /\ Scanning' /\ ~Recovering' /\ tickPc' = "scan"
      BY <2>1 DEF Scanning, Recovering
    <2>4. /\ \A x \in DueTasks(snap, ruleSnap, tickNow) :
               x \in todo \/ place[x.key[1]] = "gone" \/ Accounted(x.key)
          /\ \A m \in seen : place[m[1]] = "gone" \/ Claimed(m)
          /\ todo \subseteq DueTasks(snap, ruleSnap, tickNow)
      BY <2>3 DEF ScanAccounts
    <2>5. /\ \A x \in DOMAIN snap : Owner[x] = who
          /\ \A x \in DOMAIN rows :
               x \in DOMAIN snap /\ rows[x] = Advanced(snap[x], LocalDay(who, tickNow))
      BY DEF ScanAccounts
    <2> QED
      BY <2>1, <2>2, <2>3, <2>4, <2>5 DEF ScanAccounts
  <1> QED
    BY <1>1, <1>2, <1>3, <1>4, <1>5, <1>6 DEF Scan

LEMMA NextAccounts ==
  ASSUME TypeOK, HeldIsOpen, ScanAccounts, [Next]_vars
  PROVE  ScanAccounts'
  <1>0. Kept
    BY StepKeeps
  <1> DEFINE Read == UNCHANGED <<tickNow, who, snap, ruleSnap, todo, seen, rows>>
  <1>1. CASE UNCHANGED tickVars
    BY <1>0, <1>1, SamePhaseAccounts DEF tickVars, scanVars, sendVars, Scanning, Recovering
  <1>2. CASE TickStart
    <2>1. tickPc = "idle" /\ tickPc' = "recover" /\ UNCHANGED scanVars
      BY <1>2 DEF TickStart
    <2>2. DOMAIN snap = {} /\ seen = {} /\ DOMAIN rows = {} /\ todo = {}
      BY <2>1 DEF ScanAccounts
    <2> QED
      BY <2>1, <2>2 DEF ScanAccounts, Scanning, scanVars
  <1>3. CASE Recover
    <2>1. Read /\ Recovering /\ Recovering' /\ ~Scanning /\ ~Scanning'
      BY <1>3 DEF Recover, RecoverEvent, RecoverUser, RecoverRule, ToMark, scanVars,
                  Recovering, Scanning
    <2>2. tickPc # "rules" /\ tickPc' # "rules"
      BY <2>1 DEF Recovering
    <2> QED
      BY <1>0, <2>1, <2>2, SamePhaseAccounts
  <1>4. CASE Scan
    BY <1>0, <1>4, ScanStepAccounts
  <1>5. CASE \E k \in sends : SendNext(k)
    <2>1. PICK k \in sends : SendNext(k)
      BY <1>5
    <2>2. /\ DOMAIN rows = {}
          /\ tickPc' = "sending" /\ stage' = "send" /\ UNCHANGED <<todo, rows>>
          /\ DOMAIN snap' = {} /\ seen' = {}
      BY <2>1 DEF SendNext, ScanDone, ScanAccounts, Scanning
    <2> QED
      BY <2>2 DEF ScanAccounts, Recovering, Scanning
  <1>6. CASE SendOk \/ SendFlood \/ SendError \/ SendForbidden \/ SendBlock
    <2>1. /\ Read /\ stage' = stage /\ tickPc \in {"sending", "block"}
          /\ tickPc' \in {"sending", "block", "mark"}
      BY <1>6 DEF SendOk, SendFlood, SendError, SendForbidden, SendBlock, ToMark, sendFrame,
                  scanVars
    <2>2. stage # "scan"
      BY <2>1 DEF HeldIsOpen, PcInv
    <2> QED
      BY <1>0, <2>1, <2>2, SamePhaseAccounts DEF Recovering, Scanning
  <1>7. CASE Mark \/ MarkLost
    <2>1. Read /\ tickPc = "mark" /\ tickPc' = stage /\ stage' = "recover"
      BY <1>7 DEF Mark, MarkLost, Unmarked, sendFrame, scanVars
    <2>2. stage \in {"recover", "scan", "send"}
      BY DEF TypeOK, TickTypeOK
    <2> QED
      BY <1>0, <2>1, <2>2, SamePhaseAccounts DEF Recovering, Scanning
  <1>8. CASE TickEnd \/ TickError \/ Crash
    BY <1>8, TickGoneAccounts DEF TickEnd, TickError, Crash
  <1>9. CASE Job \/ Handler \/ Pass \/ JobError
    BY <1>1, <1>9 DEF Job, JobStart, JobEvents, JobUpdate, JobError, jobFrame, Handler,
                  MuteRead, DateRead, FieldRead, Prepare, HandlerUpdate, SoftDelete, Restore,
                  ToggleRule, DeleteRule, SetNotifications, SetBlocked, WipeAccount, handFrame,
                  Pass
  <1>10. CASE UNCHANGED vars
    BY <1>1, <1>10 DEF vars
  <1> QED
    BY <1>2, <1>3, <1>4, <1>5, <1>6, <1>7, <1>8, <1>9, <1>10
    DEF Next, TickStep, JobStep, Tick, Send, Trouble

\* While the scan goes on, each rule it has passed has its row, or the row of the rule that
\* spoke for its minute, and what it has not passed is still in its loop: the inductive
\* invariant behind NothingIsDropped.
THEOREM ScanKeepsAccount == Spec => []ScanAccounts
  BY InitAccounts, NextAccounts, TypeCorrect, HoldsOpen, PTL DEF Spec

\* Only an advance shortens rows while the tick goes on.
LEMMA RowsGoByAdvance ==
  ASSUME TypeOK, ScanAccounts, [Next]_vars, NEW e \in DOMAIN rows, e \notin DOMAIN rows',
         tickPc' = "scan"
  PROVE  todo = {} /\ Scanning
  <1>1. Scanning
    BY DEF ScanAccounts
  <1>2. \/ rows' = rows \/ tickPc' = "idle" \/ tickPc = "rules"
        \/ \E x \in DOMAIN rows : TickAdvance(x)
    BY DEF Next, TickStep, JobStep, Tick, TickStart, Recover, RecoverEvent, RecoverUser,
           RecoverRule, Scan, TickUsers, TickEvents, TickRules, QueueLate, QueueSameMinute,
           QueueSend, TakeTask, QueueGone, TickGone, Send, SendNext, SendOk, SendFlood,
           SendError, SendForbidden, SendBlock, Mark, sendFrame, TickEnd, Job, JobStart,
           JobEvents, JobUpdate, jobFrame, Handler, MuteRead, DateRead, FieldRead, Prepare,
           HandlerUpdate, SoftDelete, Restore, ToggleRule, DeleteRule, SetNotifications,
           SetBlocked, WipeAccount, handFrame, Trouble, TickError, MarkLost, JobError, Crash,
           Pass, tickVars, scanVars, vars
  <1> QED
    BY <1>1, <1>2 DEF TickAdvance, Scanning

\* The scan never drops a reminder by moving an occurrence on: every rule it had read
\* for the event has its row, or the row of the rule that speaks for the minute.
THEOREM NothingIsDropped == Spec => NothingDroppedByAdvance
  <1>1. ASSUME TypeOK, ScanAccounts, [Next]_vars,
               NEW e \in DOMAIN rows \cap DOMAIN snap,
               e \notin DOMAIN rows', tickPc' = "scan", place[e] # "gone",
               NEW t \in Tracks, snap[e].occ[t] \notin {None, rows[e].occ[t]},
               NEW r \in Applicable(e, ruleSnap)
        PROVE  Accounted(<<e, r, snap[e].occ[t]>>)
    <2> DEFINE o == snap[e].occ[t]
               task == [key |-> <<e, r, o>>, track |-> t]
    <2>1. todo = {} /\ Scanning
      BY <1>1, RowsGoByAdvance
    <2>2. /\ e \in Events /\ snap[e] \in EventRow
          /\ Owner[e] = who /\ rows[e] = Advanced(snap[e], LocalDay(who, tickNow))
      BY <1>1, RowType DEF ScanAccounts, TypeOK, TickTypeOK
    <2>3. o \in Days /\ r \in Rules /\ r \in ruleSnap
      BY <1>1, <2>2 DEF EventRow, Applicable, TypeOK, TickTypeOK
    <2>4. o < LocalDay(who, tickNow)
      BY <1>1, <2>2, <2>3 DEF Advanced, EventRow
    <2>5. tickNow \in Int
      BY <1>1, CalendarAssumption DEF TypeOK, TickTypeOK
    <2>6. FireUTC(task.key) <= tickNow
      BY <2>2, <2>3, <2>4, <2>5, PastIsDue
    <2>7. task \in DueTasks(snap, ruleSnap, tickNow)
      BY <1>1, <2>3, <2>6 DEF DueTasks
    <2> QED
      BY <1>1, <2>1, <2>7 DEF ScanAccounts
  <1>2. TypeOK /\ ScanAccounts /\ [Next]_vars =>
          [\A e \in DOMAIN rows \cap DOMAIN snap :
             e \notin DOMAIN rows' /\ tickPc' = "scan" /\ place[e] # "gone" =>
               \A t \in Tracks : snap[e].occ[t] \notin {None, rows[e].occ[t]} =>
                 \A r \in Applicable(e, ruleSnap) : Accounted(<<e, r, snap[e].occ[t]>>)]_vars
    BY <1>1
  <1> QED
    BY <1>2, TypeCorrect, ScanKeepsAccount, PTL DEF Spec, NothingDroppedByAdvance

-----------------------------------------------------------------------------
\* One message a minute

\* The order of the scan tells any two rules apart.
LEMMA PrecedesTotal ==
  ASSUME NEW r \in Rules, NEW s \in Rules, r # s
  PROVE  Precedes(r, s) \/ Precedes(s, r)
  <1>1. r \in Nat /\ s \in Nat
    BY Zenon, EngineAssumption
  <1> QED
    BY <1>1 DEF Precedes

LEMMA KeyIsTriple ==
  ASSUME NEW k \in Keys
  PROVE  k = <<k[1], k[2], k[3]>>
  BY DEF Keys

\* For an event, a day and a minute there is one key that speaks.
LEMMA OneSpeaks ==
  ASSUME NEW j \in Keys, NEW k \in Keys, Speaks(j), Speaks(k),
         j[1] = k[1], j[3] = k[3], FireUTC(j) = FireUTC(k)
  PROVE  j = k
  <1>1. j[2] \in Rules /\ k[2] \in Rules
    BY KeyParts
  <1>2. ~Precedes(j[2], k[2]) /\ ~Precedes(k[2], j[2])
    BY KeyIsTriple DEF Speaks
  <1>3. j[2] = k[2]
    BY <1>1, <1>2, PrecedesTotal
  <1> QED
    BY <1>3, KeyIsTriple

\* The parts of FirstRuleSpeaks.
RulesStand ==
  \A r \in Rules : rule[r] = IF ~usr[RuleUser[r]].here THEN "gone"
                             ELSE IF r \in StartOff THEN "off" ELSE "on"
SnapSpeaks == ruleSnap = {} \/ ruleSnap = RulesOf(who)
ScanSpeaks ==
  Scanning => \A task \in DueTasks(snap, ruleSnap, tickNow) :
                task \in todo \/ Late(task.key) \/ Minute(task) \in seen
LogSpeaks ==
  \A k \in DOMAIN log :
    \/ Speaks(k)
    \/ /\ now - log[k].sched > Grace
       /\ tickPc # "idle" => tickNow - log[k].sched > Grace
HeldSpeaks ==
  /\ \A p \in rec : Speaks(p.key) \/ tickNow - p.sched > Grace
  /\ \A k \in sends : Speaks(k)
  /\ tickPc \in {"recUser", "recRule", "sending"} => Speaks(cur)
SentSpeaks == \A k \in Keys : delivered[k] > 0 => Speaks(k)

LEMMA SpeaksParts ==
  FirstRuleSpeaks <=> /\ RulesStand /\ SnapSpeaks /\ ScanSpeaks
                      /\ LogSpeaks /\ HeldSpeaks /\ SentSpeaks
  BY DEF FirstRuleSpeaks, RulesStand, SnapSpeaks, ScanSpeaks, LogSpeaks, HeldSpeaks, SentSpeaks

LEMMA InitSpeaks == Init => FirstRuleSpeaks
  <1> HAVE Init
  <1>1. \A r \in Rules : RuleUser[r] \in Users
    BY Zenon, EngineAssumption
  <1>2. usr = [u \in Users |-> [here |-> TRUE, notif |-> TRUE, blocked |-> FALSE,
                                botBlocked |-> FALSE]]
    BY DEF Init
  <1>3. \A r \in Rules : usr[RuleUser[r]].here
    BY <1>1, <1>2
  <1>4. RulesStand
    BY <1>3 DEF Init, RulesStand
  <1>5. DOMAIN log = {} /\ rec = {} /\ sends = {} /\ ruleSnap = {} /\ tickPc = "idle"
    BY DEF Init
  <1>6. \A k \in Keys : delivered[k] = 0
    BY DEF Init
  <1>7. SnapSpeaks /\ ScanSpeaks /\ LogSpeaks /\ HeldSpeaks
    BY <1>5 DEF SnapSpeaks, ScanSpeaks, LogSpeaks, HeldSpeaks, Scanning
  <1>8. SentSpeaks
    BY <1>6 DEF SentSpeaks
  <1> QED
    BY <1>4, <1>7, <1>8, SpeaksParts

\* Rules change only with their user's account, where nobody edits them.
LEMMA RulesStandStep ==
  ASSUME TypeOK, "rule" \notin Kinds, RulesStand, [Next]_vars
  PROVE  RulesStand'
  <1>0. \A r \in Rules : RuleUser[r] \in Users
    BY Zenon, EngineAssumption
  <1>1. ASSUME UNCHANGED rule, \A u \in Users : usr'[u].here = usr[u].here
        PROVE  RulesStand'
    BY <1>0, <1>1 DEF RulesStand
  <1>2. ASSUME NEW u \in Users, WipeAccount(u) PROVE RulesStand'
    <2>1. \A w \in Users : usr'[w].here = IF w = u THEN FALSE ELSE usr[w].here
      BY <1>2 DEF WipeAccount, TypeOK, DataTypeOK, UserRow
    <2>2. \A r \in Rules : rule'[r] = IF RuleUser[r] = u THEN "gone" ELSE rule[r]
      BY <1>2 DEF WipeAccount
    <2> QED
      BY <1>0, <2>1, <2>2 DEF RulesStand
  <1>3. ASSUME NEW u \in Users, SetNotifications(u) \/ SetBlocked(u) PROVE RulesStand'
    <2>1. UNCHANGED rule /\ \A w \in Users : usr'[w].here = usr[w].here
      BY <1>3 DEF SetNotifications, SetBlocked, TypeOK, DataTypeOK, UserRow
    <2> QED
      BY <1>1, <2>1
  <1>4. CASE SendBlock
    <2>1. UNCHANGED rule /\ \A w \in Users : usr'[w].here = usr[w].here
      BY <1>4 DEF SendBlock, sendFrame, TypeOK, DataTypeOK, UserRow
    <2> QED
      BY <1>1, <2>1
  <1>5. CASE UNCHANGED <<usr, rule>>
    BY <1>1, <1>5
  <1>6. CASE Handler
    <2>1. \/ UNCHANGED <<usr, rule>>
          \/ \E u \in Users : SetNotifications(u) \/ SetBlocked(u) \/ WipeAccount(u)
      BY <1>6 DEF Handler, MuteRead, DateRead, FieldRead, Prepare, HandlerUpdate, SoftDelete,
                  Restore, ToggleRule, DeleteRule, Edit, dataVars
    <2> QED
      BY <1>2, <1>3, <1>5, <2>1
  <1>7. CASE Job \/ Pass \/ Trouble \/ UNCHANGED vars
    BY <1>5, <1>7 DEF Job, JobStart, JobEvents, JobUpdate, jobFrame, Pass, Trouble, TickError,
                      MarkLost, JobError, Crash, sendFrame, dataVars, vars
  <1>8. CASE Tick
    BY <1>4, <1>5, <1>8 DEF Tick, TickStart, Recover, RecoverEvent, RecoverUser, RecoverRule,
                            Scan, TickUsers, TickEvents, TickRules, QueueLate, QueueSameMinute,
                            QueueSend, TakeTask, QueueGone, TickAdvance, Send, SendNext, SendOk,
                            SendFlood, SendError, SendForbidden, Mark, sendFrame, TickEnd,
                            dataVars
  <1> QED
    BY <1>6, <1>7, <1>8 DEF Next, TickStep, JobStep

\* The task the scan queues is that of the first rule of its minute.
LEMMA QueuedSpeaks ==
  ASSUME TypeOK, ScanAccounts, SnapSpeaks, ScanSpeaks, NEW task \in todo, QueueSend(task)
  PROVE  Speaks(task.key)
  <1> DEFINE e == task.key[1]
             o == task.key[3]
  <1>1. /\ tickPc = "scan" /\ ~Late(task.key) /\ Minute(task) \notin seen
        /\ \A other \in todo : ~Before(other, task)
    BY DEF QueueSend, TakeTask
  <1>2. task \in DueTasks(snap, ruleSnap, tickNow) /\ task.key \in Keys
    BY <1>1 DEF ScanAccounts, Scanning, TypeOK, TickTypeOK, Task
  <1>3. /\ e \in DOMAIN snap /\ task.key[2] \in ruleSnap /\ task.track \in Tracks
        /\ o = snap[e].occ[task.track] /\ o # None /\ FireUTC(task.key) <= tickNow
        /\ task.key[2] \in Applicable(e, ruleSnap)
    BY <1>2, DueTaskParts
  <1>4. ruleSnap = RulesOf(Owner[e])
    BY <1>3 DEF SnapSpeaks, ScanAccounts
  <1>5. ASSUME NEW r \in Applicable(e, ruleSnap), Precedes(r, task.key[2]),
               FireUTC(<<e, r, o>>) = FireUTC(task.key)
        PROVE  FALSE
    <2> DEFINE x == [key |-> <<e, r, o>>, track |-> task.track]
    <2>1. r \in ruleSnap
      BY DEF Applicable
    <2>2. x \in DueTasks(snap, ruleSnap, tickNow)
      BY <1>3, <1>5, <2>1 DEF DueTasks
    <2>3. x \in todo \/ Late(x.key) \/ Minute(x) \in seen
      BY <1>1, <2>2 DEF ScanSpeaks, Scanning
    <2>4. ~Late(x.key) /\ Minute(x) = Minute(task)
      BY <1>1, <1>5 DEF Late, Minute
    <2>5. x \in todo
      BY <1>1, <2>3, <2>4
    <2>6. Before(x, task)
      BY <1>5 DEF Precedes, Before
    <2> QED
      BY <1>1, <2>5, <2>6
  <1> QED
    BY <1>3, <1>4, <1>5 DEF Speaks

LEMMA TickGoneSpeaks ==
  ASSUME TickGone
  PROVE  SnapSpeaks' /\ ScanSpeaks' /\ HeldSpeaks'
  BY DEF TickGone, SnapSpeaks, ScanSpeaks, HeldSpeaks, Scanning

\* The snapshot of the rules, and what the scan has dropped.
LEMMA ScanSpeaksStep ==
  ASSUME TypeOK, HeldIsOpen, ScanAccounts, RulesStand, SnapSpeaks, ScanSpeaks, Scan
  PROVE  SnapSpeaks' /\ ScanSpeaks'
  <1>1. CASE TickUsers
    <2>1. tickPc = "recover" /\ UNCHANGED <<tickNow, who, snap, ruleSnap>>
      BY <1>1 DEF TickUsers
    <2>2. DOMAIN snap = {}
      BY <2>1 DEF ScanAccounts, Recovering
    <2>3. DueTasks(snap, ruleSnap, tickNow) = {}
      BY <2>2 DEF DueTasks
    <2> QED
      BY <2>1, <2>3 DEF SnapSpeaks, ScanSpeaks
  <1>2. ASSUME NEW u \in userq, TickEvents(u) PROVE SnapSpeaks' /\ ScanSpeaks'
    BY <1>2 DEF TickEvents, SnapSpeaks, ScanSpeaks, Scanning
  <1>3. CASE TickRules
    <2>1. /\ who \in Users /\ ruleSnap' = {r \in Rules : RuleUser[r] = who /\ rule[r] = "on"}
          /\ todo' = DueTasks(snap, ruleSnap', tickNow)
          /\ UNCHANGED <<tickNow, who, snap>>
      BY <1>3 DEF TickRules, RuleOK, TypeOK, TickTypeOK
    <2>2. ruleSnap' = {} \/ ruleSnap' = RulesOf(who)
      <3>1. CASE usr[who].here
        BY <2>1, <3>1 DEF RulesStand, RulesOf
      <3>2. CASE ~usr[who].here
        BY <2>1, <3>2 DEF RulesStand
      <3> QED
        BY <3>1, <3>2
    <2> QED
      BY <2>1, <2>2 DEF SnapSpeaks, ScanSpeaks
  <1>4. ASSUME NEW task \in todo,
               QueueLate(task) \/ QueueSameMinute(task) \/ QueueSend(task)
        PROVE  SnapSpeaks' /\ ScanSpeaks'
    <2>1. /\ tickPc = "scan" /\ todo' = todo \ {task} /\ seen \subseteq seen'
          /\ UNCHANGED <<tickNow, who, snap, ruleSnap>>
          /\ Late(task.key) \/ Minute(task) \in seen'
      BY <1>4 DEF QueueLate, QueueSameMinute, QueueSend, TakeTask
    <2>2. \A x \in DueTasks(snap, ruleSnap, tickNow) :
            x \in todo' \/ Late(x.key) \/ Minute(x) \in seen'
      BY <2>1 DEF ScanSpeaks, Scanning
    <2> QED
      BY <2>1, <2>2 DEF SnapSpeaks, ScanSpeaks, Late
  <1>5. ASSUME NEW task \in todo, QueueGone(task) PROVE SnapSpeaks' /\ ScanSpeaks'
    BY <1>5, TickGoneSpeaks DEF QueueGone
  <1>6. ASSUME NEW e \in DOMAIN rows, TickAdvance(e) PROVE SnapSpeaks' /\ ScanSpeaks'
    <2>1. tickPc = "scan" /\ UNCHANGED <<tickPc, tickNow, who, snap, ruleSnap, todo, seen>>
      BY <1>6 DEF TickAdvance
    <2> QED
      BY <2>1 DEF SnapSpeaks, ScanSpeaks, Scanning, Late
  <1> QED
    BY <1>1, <1>2, <1>3, <1>4, <1>5, <1>6 DEF Scan

\* Every other step leaves the snapshot and the dropped tasks alone.
LEMMA SnapSpeaksStep ==
  ASSUME TypeOK, HeldIsOpen, ScanAccounts, RulesStand, SnapSpeaks, ScanSpeaks, [Next]_vars
  PROVE  SnapSpeaks' /\ ScanSpeaks'
  <1> DEFINE Read == UNCHANGED <<tickNow, who, snap, ruleSnap, todo, seen>>
  <1>1. ASSUME Read, Scanning' => Scanning PROVE SnapSpeaks' /\ ScanSpeaks'
    BY <1>1 DEF SnapSpeaks, ScanSpeaks, Late
  <1>2. CASE TickStart
    BY <1>2 DEF TickStart, scanVars, SnapSpeaks, ScanSpeaks, Scanning
  <1>3. CASE Recover
    <2>1. Read /\ ~Scanning'
      BY <1>3 DEF Recover, RecoverEvent, RecoverUser, RecoverRule, ToMark, scanVars, Scanning
    <2> QED
      BY <1>1, <2>1
  <1>4. CASE Scan
    BY <1>4, ScanSpeaksStep
  <1>5. CASE \E k \in sends : SendNext(k)
    BY <1>5 DEF SendNext, SnapSpeaks, ScanSpeaks, Scanning
  <1>6. CASE SendOk \/ SendFlood \/ SendError \/ SendForbidden \/ SendBlock
    <2>1. /\ Read /\ stage' = stage /\ tickPc \in {"sending", "block"}
          /\ tickPc' \in {"sending", "block", "mark"}
      BY <1>6 DEF SendOk, SendFlood, SendError, SendForbidden, SendBlock, ToMark, sendFrame,
                  scanVars
    <2>2. stage # "scan"
      BY <2>1 DEF HeldIsOpen, PcInv
    <2> QED
      BY <1>1, <2>1, <2>2 DEF Scanning
  <1>7. CASE Mark \/ MarkLost
    <2>1. Read /\ tickPc = "mark" /\ tickPc' = stage /\ stage' = "recover"
      BY <1>7 DEF Mark, MarkLost, Unmarked, sendFrame, scanVars
    <2>2. stage \in {"recover", "scan", "send"}
      BY DEF TypeOK, TickTypeOK
    <2> QED
      BY <1>1, <2>1, <2>2 DEF Scanning
  <1>8. CASE TickEnd \/ TickError \/ Crash
    BY <1>8, TickGoneSpeaks DEF TickEnd, TickError, Crash
  <1>9. CASE UNCHANGED tickVars
    BY <1>1, <1>9 DEF tickVars, scanVars, sendVars, Scanning
  <1>10. CASE Job \/ Handler \/ Pass \/ JobError \/ UNCHANGED vars
    BY <1>9, <1>10 DEF Job, JobStart, JobEvents, JobUpdate, JobError, jobFrame, Handler,
                  MuteRead, DateRead, FieldRead, Prepare, HandlerUpdate, SoftDelete, Restore,
                  ToggleRule, DeleteRule, SetNotifications, SetBlocked, WipeAccount, handFrame,
                  Pass, vars
  <1> QED
    BY <1>2, <1>3, <1>4, <1>5, <1>6, <1>7, <1>8, <1>10
    DEF Next, TickStep, JobStep, Tick, Send, Trouble

LEMMA Clocks ==
  ASSUME TypeOK, [Next]_vars
  PROVE  /\ now' >= now
         /\ \/ tickPc' = "idle"
            \/ tickPc # "idle" /\ tickNow' = tickNow
            \/ TickStart
  <1>0. now \in Int
    BY CalendarAssumption DEF TypeOK, DataTypeOK
  <1>1. CASE Job \/ Handler \/ Pass \/ JobError \/ UNCHANGED vars
    <2>1. UNCHANGED tickVars
      BY <1>1 DEF Job, JobStart, JobEvents, JobUpdate, JobError, jobFrame, Handler, MuteRead,
                  DateRead, FieldRead, Prepare, HandlerUpdate, SoftDelete, Restore, ToggleRule,
                  DeleteRule, SetNotifications, SetBlocked, WipeAccount, handFrame, Pass, vars
    <2>2. now' = now \/ now' = now + 1
      BY <1>1 DEF Job, JobStart, JobEvents, JobUpdate, JobError, jobFrame, Handler, MuteRead,
                  DateRead, FieldRead, Prepare, HandlerUpdate, SoftDelete, Restore, ToggleRule,
                  DeleteRule, SetNotifications, SetBlocked, WipeAccount, handFrame, Pass, vars
    <2> QED
      BY <1>0, <2>1, <2>2 DEF tickVars
  <1>2. CASE TickStart
    BY <1>0, <1>2 DEF TickStart
  <1>3. CASE Recover \/ Scan \/ Send \/ MarkLost
    <2>1. now' = now /\ (tickPc' = "idle" \/ (tickPc # "idle" /\ tickNow' = tickNow))
      BY <1>3 DEF Recover, RecoverEvent, RecoverUser, RecoverRule, Scan, TickUsers, TickEvents,
                  ScanDone, TickRules, QueueLate, QueueSameMinute, QueueSend, TakeTask,
                  QueueGone, TickGone, TickAdvance, Send, SendNext, SendOk, SendFlood,
                  SendError, SendForbidden, SendBlock, Mark, MarkLost, sendFrame
    <2> QED
      BY <1>0, <2>1
  <1>4. CASE TickEnd \/ TickError \/ Crash
    BY <1>0, <1>4 DEF TickEnd, TickError, Crash, TickGone
  <1> QED
    BY <1>1, <1>2, <1>3, <1>4 DEF Next, TickStep, JobStep, Tick, Trouble

\* A new row is made by the scan.
LEMMA NewRows ==
  ASSUME TypeOK, [Next]_vars, NEW k \in DOMAIN log', k \notin DOMAIN log
  PROVE  \E task \in todo : task.key = k /\ Insert(k) /\ (QueueLate(task) \/ QueueSend(task))
  <1>1. CASE UNCHANGED log
    BY <1>1
  <1>2. ASSUME NEW task \in todo, QueueLate(task) \/ QueueSend(task)
        PROVE  UNCHANGED log \/ (Insert(task.key) /\ task.key = k)
    <2>1. UNCHANGED log \/ Insert(task.key)
      BY <1>2 DEF QueueLate, QueueSend
    <2>2. Insert(task.key) => DOMAIN log' = DOMAIN log \cup {task.key}
      BY InsertDomain
    <2> QED
      BY <2>1, <2>2
  <1>3. Mark \/ (\E u \in Users : WipeAccount(u)) => DOMAIN log' \subseteq DOMAIN log
    BY DEF Mark, WipeAccount
  <1>4. \/ UNCHANGED log \/ Mark \/ (\E u \in Users : WipeAccount(u))
        \/ \E task \in todo : QueueLate(task) \/ QueueSend(task)
    BY DEF Next, TickStep, JobStep, Tick, TickStart, Recover, RecoverEvent, RecoverUser,
           RecoverRule, Scan, TickUsers, TickEvents, TickRules, QueueSameMinute, QueueGone,
           TickAdvance, Send, SendNext, SendOk, SendFlood, SendError, SendForbidden, SendBlock,
           sendFrame, TickEnd, Job, JobStart, JobEvents, JobUpdate, jobFrame, Handler,
           MuteRead, DateRead, FieldRead, Prepare, HandlerUpdate, SoftDelete, Restore,
           ToggleRule, DeleteRule, SetNotifications, SetBlocked, handFrame, Trouble,
           TickError, MarkLost, JobError, Crash, Pass, vars
  <1> QED
    BY <1>1, <1>2, <1>3, <1>4

LEMMA LogSpeaksStep ==
  ASSUME TypeOK, TypeOK', HeldIsOpen, CopiesFit, ScanAccounts, SnapSpeaks, ScanSpeaks,
         LogSpeaks, [Next]_vars
  PROVE  LogSpeaks'
  <1>1. /\ now \in Int /\ now' \in Int /\ tickNow \in Int /\ tickNow' \in Int /\ Grace \in Int
        /\ tickNow <= now
    BY CalendarAssumption, EngineConstants DEF TypeOK, DataTypeOK, TickTypeOK, CopiesFit
  <1>2. ASSUME NEW k \in DOMAIN log', k \in DOMAIN log
        PROVE  \/ Speaks(k)
               \/ /\ now' - log'[k].sched > Grace
                  /\ tickPc' # "idle" => tickNow' - log'[k].sched > Grace
    <2>1. log'[k].sched = log[k].sched /\ log[k].sched \in Int
      BY <1>2, RowsStayStep DEF RowsStay, TypeOK, LogTypeOK, LogRow
    <2>2. \/ Speaks(k)
          \/ /\ now - log[k].sched > Grace
             /\ tickPc # "idle" => tickNow - log[k].sched > Grace
      BY <1>2 DEF LogSpeaks
    <2>3. TickStart => tickNow' = now
      BY DEF TickStart
    <2> QED
      BY <1>1, <2>1, <2>2, <2>3, Clocks
  <1>3. ASSUME NEW k \in DOMAIN log', k \notin DOMAIN log
        PROVE  \/ Speaks(k)
               \/ /\ now' - log'[k].sched > Grace
                  /\ tickPc' # "idle" => tickNow' - log'[k].sched > Grace
    <2>1. PICK task \in todo :
            task.key = k /\ Insert(k) /\ (QueueLate(task) \/ QueueSend(task))
      BY <1>3, NewRows
    <2>2. CASE QueueSend(task)
      BY <2>1, <2>2, QueuedSpeaks
    <2>3. CASE QueueLate(task)
      <3>1. log'[k].sched = FireUTC(k)
        BY <2>1 DEF Insert
      <3>2. UNCHANGED <<now, tickNow>> /\ tickNow - FireUTC(k) > Grace
        BY <2>1, <2>3 DEF QueueLate, TakeTask, Late
      <3>3. FireUTC(k) \in Int
        BY <2>1, FireUTCType DEF TypeOK, TickTypeOK, Task
      <3> QED
        BY <1>1, <3>1, <3>2, <3>3
    <2> QED
      BY <2>1, <2>2, <2>3
  <1> QED
    BY <1>2, <1>3 DEF LogSpeaks

\* What the recovery and the queue of sends take from the log and the scan.
LEMMA HeldSpeaksStep ==
  ASSUME TypeOK, HeldIsOpen, ScanAccounts, SnapSpeaks, ScanSpeaks, LogSpeaks, HeldSpeaks,
         [Next]_vars
  PROVE  HeldSpeaks'
  <1>1. ASSUME tickNow' = tickNow, rec' \subseteq rec, sends' \subseteq sends,
               tickPc' \in {"recUser", "recRule", "sending"} =>
                 tickPc \in {"recUser", "recRule", "sending"} /\ cur' = cur
        PROVE  HeldSpeaks'
    BY <1>1 DEF HeldSpeaks
  <1>2. CASE TickStart
    <2>1. /\ tickPc = "idle" /\ tickPc' = "recover" /\ tickNow' = now /\ sends' = sends
          /\ rec' \subseteq PendingBefore(now)
      BY <1>2 DEF TickStart, scanVars
    <2>2. ASSUME NEW p \in rec' PROVE Speaks(p.key) \/ now - p.sched > Grace
      <3>1. p.key \in DOMAIN log /\ p.sched = log[p.key].sched
        BY <2>1 DEF PendingBefore
      <3> QED
        BY <3>1 DEF LogSpeaks
    <2> QED
      BY <2>1, <2>2 DEF HeldSpeaks
  <1>3. ASSUME NEW p \in rec, RecoverEvent(p) PROVE HeldSpeaks'
    <2>1. tickPc' = "recUser" => cur' = p.key /\ ~(tickNow - p.sched > Grace)
      BY <1>3 DEF RecoverEvent, ToMark
    <2>2. /\ tickNow' = tickNow /\ rec' \subseteq rec /\ sends' = sends
          /\ tickPc' \in {"recUser", "mark"}
      BY <1>3 DEF RecoverEvent, ToMark, scanVars
    <2> QED
      BY <2>1, <2>2 DEF HeldSpeaks
  <1>4. CASE RecoverUser \/ RecoverRule
    BY <1>1, <1>4 DEF RecoverUser, RecoverRule, ToMark, scanVars
  <1>5. ASSUME NEW task \in todo, QueueSend(task) PROVE HeldSpeaks'
    <2>1. /\ UNCHANGED <<tickNow, rec, tickPc, cur>> /\ sends' \subseteq sends \cup {task.key}
      BY <1>5 DEF QueueSend, TakeTask
    <2>2. Speaks(task.key)
      BY <1>5, QueuedSpeaks
    <2> QED
      BY <2>1, <2>2 DEF HeldSpeaks
  <1>6. CASE Scan
    <2>1. ASSUME NEW task \in todo, QueueGone(task) PROVE HeldSpeaks'
      BY <2>1, TickGoneSpeaks DEF QueueGone
    <2>2. ASSUME \/ TickUsers \/ TickRules
                 \/ \E u \in userq : TickEvents(u)
                 \/ \E task \in todo : QueueLate(task) \/ QueueSameMinute(task)
                 \/ \E e \in DOMAIN rows : TickAdvance(e)
          PROVE  HeldSpeaks'
      BY <1>1, <2>2 DEF TickUsers, TickRules, TickEvents, QueueLate, QueueSameMinute, TakeTask,
                        ToMark, TickAdvance, sendVars
    <2> QED
      BY <1>5, <1>6, <2>1, <2>2 DEF Scan
  <1>7. ASSUME NEW k \in sends, SendNext(k) PROVE HeldSpeaks'
    <2>1. UNCHANGED <<tickNow, rec>> /\ sends' \subseteq sends /\ cur' = k
      BY <1>7 DEF SendNext
    <2> QED
      BY <2>1 DEF HeldSpeaks
  <1>8. CASE SendOk \/ SendFlood \/ SendError \/ SendForbidden \/ SendBlock
    BY <1>1, <1>8 DEF SendOk, SendFlood, SendError, SendForbidden, SendBlock, ToMark,
                      sendFrame, scanVars
  <1>9. CASE Mark \/ MarkLost
    <2>1. stage \in {"recover", "scan", "send"}
      BY DEF TypeOK, TickTypeOK
    <2> QED
      BY <1>1, <1>9, <2>1 DEF Mark, MarkLost, Unmarked, sendFrame, scanVars
  <1>10. CASE TickEnd \/ TickError \/ Crash
    BY <1>10, TickGoneSpeaks DEF TickEnd, TickError, Crash
  <1>11. CASE UNCHANGED tickVars
    BY <1>1, <1>11 DEF tickVars, scanVars, sendVars
  <1>12. CASE Job \/ Handler \/ Pass \/ JobError \/ UNCHANGED vars
    BY <1>11, <1>12 DEF Job, JobStart, JobEvents, JobUpdate, JobError, jobFrame, Handler,
                  MuteRead, DateRead, FieldRead, Prepare, HandlerUpdate, SoftDelete, Restore,
                  ToggleRule, DeleteRule, SetNotifications, SetBlocked, WipeAccount, handFrame,
                  Pass, vars
  <1> QED
    BY <1>2, <1>3, <1>4, <1>6, <1>7, <1>8, <1>9, <1>10, <1>12
    DEF Next, TickStep, JobStep, Tick, Recover, Send, Trouble

LEMMA SentSpeaksStep ==
  ASSUME TypeOK, TypeOK', HeldSpeaks, SentSpeaks, [Next]_vars
  PROVE  SentSpeaks'
  <1>1. ASSUME NEW k \in Keys, delivered'[k] > 0 PROVE Speaks(k)
    <2>1. delivered[k] \in Nat /\ delivered'[k] \in Nat
      BY DEF TypeOK, LogTypeOK
    <2>2. delivered[k] > 0 \/ delivered'[k] > delivered[k]
      BY <1>1, <2>1
    <2> QED
      BY <2>2, DeliversCur DEF HeldSpeaks, SentSpeaks
  <1> QED
    BY <1>1 DEF SentSpeaks

\* Where nobody edits rules, two rules that fire at the same minute for the same event
\* and day never both send, in one tick or in several, with crashes, aborted ticks and
\* recoveries in between: the rule the scan looks at first is the only one ever sent.
THEOREM OneEachMinute ==
  ASSUME "rule" \notin Kinds
  PROVE  Spec => []OneMessagePerMinute
  <1>1. TypeOK /\ TypeOK' /\ HeldIsOpen /\ CopiesFit /\ ScanAccounts /\ FirstRuleSpeaks
          /\ [Next]_vars => FirstRuleSpeaks'
    BY SpeaksParts, RulesStandStep, SnapSpeaksStep, LogSpeaksStep, HeldSpeaksStep,
       SentSpeaksStep
    DEF FirstRuleSpeaks, RulesStand, SnapSpeaks, ScanSpeaks, LogSpeaks, HeldSpeaks, SentSpeaks
  <1>2. FirstRuleSpeaks => OneMessagePerMinute
    BY OneSpeaks DEF FirstRuleSpeaks, OneMessagePerMinute
  <1> QED
    BY <1>1, <1>2, InitSpeaks, TypeCorrect, HoldsOpen, CopiesStayFit, ScanKeepsAccount, PTL
    DEF Spec
=============================================================================
