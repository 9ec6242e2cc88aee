------------------------------ MODULE AddFlow ------------------------------
(***************************************************************************)
(* The conversation that adds an event (handlers/event_add.go), as one     *)
(* user's updates drive it through the FSM store.  Each update runs in a   *)
(* goroutine of its own and touches the store and the database in several  *)
(* steps, so that two updates of the user can overlap: two messages sent   *)
(* at once, a button pressed again while the first press waits for the     *)
(* database.  The debouncer only parts presses 400 ms apart.               *)
(*                                                                         *)
(* A value the user gave is represented by the number of the conversation  *)
(* it was given in, counted from 1 by cbMenuAdd; 0 is a value never given. *)
(***************************************************************************)
EXTENDS Sequences, FiniteSets, FsmStore

CONSTANTS
  Updates,    \* goroutines of the user's updates
  Cap,        \* MaxEventsPerUser
  MaxFlows,   \* bound on conversations
  RaceUntil,  \* bound: the last conversation in which an update may overlap
  UnreadFrom, \* bound: the first in which a new row may not be read back
  Nothing     \* a secondary date that is not set

States == {"name", "date", "heb_month", "heb_day", "heb_year", "sec_prompt",
           "auto", "sec_date", "search"}

ASSUME AddFlowAssumption ==
  /\ DataKeys = {"name", "month", "day", "year", "auto", "adar", "event"}
  /\ NoState \notin States /\ Nothing \notin Int
  /\ Cap \in Nat /\ MaxFlows \in Nat /\ RaceUntil \in Nat /\ UnreadFrom \in Nat
  /\ IsFiniteSet(Updates) /\ Updates # {}

VARIABLES
  run,    \* what each goroutine is at, and what it has read
  events, \* the user's events, in the order of their ids
  flow,   \* the number of the current conversation
  over,   \* history: it was cancelled, saved, refused or forgotten
  raced   \* history: two updates overlapped since it began

vars == <<store, run, events, flow, over, raced>>

-----------------------------------------------------------------------------
(* The steps of the conversation *)

\* Answers and the state each is asked for in.
From == [name |-> "name", date |-> "date", heb |-> "date", month |-> "heb_month",
         day |-> "heb_day", year |-> "heb_year", noyear |-> "heb_year",
         secyes |-> "sec_prompt", secno |-> "sec_prompt", automanual |-> "auto",
         autono |-> "auto", autoyes |-> "auto", secdate |-> "sec_date",
         query |-> "search"]

Kinds == DOMAIN From

\* The state that answers without further ado lead to, and what they store.
To == [name |-> "date", heb |-> "heb_month", month |-> "heb_day", day |-> "heb_year",
       noyear |-> "sec_prompt", secyes |-> "sec_date", automanual |-> "sec_date"]

Storing == {"name", "month", "day", "year"}

\* Answers that end it; all but the Gregorian date complete a Hebrew one.
Final == {"date", "secno", "autono", "autoyes", "secdate"}

\* The step a handler goes on with once it has looked at the state.
First(kind) ==
  IF kind \in Storing THEN "store"
  ELSE IF kind \in DOMAIN To THEN "move"
  ELSE IF kind = "date" THEN "person"
  ELSE IF kind = "autoyes" THEN "second"
  ELSE IF kind \in Final THEN "fields"
  ELSE "clear"

\* What finalizeEvent is called with, as far as the answer itself decides.
Given(kind) ==
  [name |-> 0,
   month |-> IF kind = "date" THEN flow ELSE 0,
   day   |-> IF kind = "date" THEN flow ELSE 0,
   year  |-> IF kind = "date" THEN flow ELSE 0,
   sec   |-> IF kind = "secdate" THEN flow ELSE Nothing]

Idle == [kind |-> "none", pc |-> "idle", flow |-> 0, id |-> 0,
         row |-> [name |-> 0, month |-> 0, day |-> 0, year |-> 0, sec |-> Nothing]]

Busy == {g \in Updates : run[g] # Idle}

Init ==
  /\ store = Empty /\ run = [g \in Updates |-> Idle] /\ events = <<>>
  /\ flow = 0 /\ over = TRUE /\ raced = FALSE

Goto(g, pc) == run' = [run EXCEPT ![g].pc = pc]
Return(g)   == run' = [run EXCEPT ![g] = Idle]

At(g, pc) == run[g].pc = pc

\* An update that may find others under way.
Overlap == Busy # {} => flow <= RaceUntil

-----------------------------------------------------------------------------
(* Updates that do not look at the state *)

\* cbMenuAdd starts a conversation from any state and drops nothing.
MenuAdd ==
  /\ flow < MaxFlows
  /\ SetState("name")
  /\ flow' = flow + 1 /\ over' = FALSE /\ raced' = (Busy # {})
  /\ UNCHANGED <<run, events>>

MenuSearch ==
  /\ Overlap
  /\ SetState("search")
  /\ over' = TRUE /\ raced' = (raced \/ Busy # {})
  /\ UNCHANGED <<run, events, flow>>

\* Mutant: the data go, the state stays.
CancelData ==
  /\ Overlap
  /\ store' = [Empty EXCEPT !.state = GetState]
  /\ over' = TRUE /\ raced' = (raced \/ Busy # {})
  /\ UNCHANGED <<run, events, flow>>

\* /cancel and the cancel button.
Cancel ==
  /\ Overlap
  /\ Clear
  /\ over' = TRUE /\ raced' = (raced \/ Busy # {})
  /\ UNCHANGED <<run, events, flow>>

-----------------------------------------------------------------------------
(* Answers: a handler looks at the state and returns unless it is its own *)

Answer(g, kind) ==
  /\ Overlap
  /\ run[g] = Idle
  /\ GetState = From[kind]
  /\ run' = [run EXCEPT ![g] =
               [kind |-> kind, pc |-> First(kind), flow |-> flow, id |-> 0, row |-> Given(kind)]]
  /\ raced' = (raced \/ Busy # {})
  /\ UNCHANGED <<store, events, flow, over>>

\* Adar is first answered with the choice between the two Adars.
AskAdar(g) ==
  /\ At(g, "store") /\ run[g].kind = "month" /\ GetData("adar") = 0
  /\ UpdateData({"adar"}, run[g].flow)
  /\ Return(g)
  /\ UNCHANGED <<events, flow, over, raced>>

Store(g) ==
  /\ At(g, "store")
  /\ UpdateData({run[g].kind}, run[g].flow)
  /\ Goto(g, IF run[g].kind = "year" THEN "civil" ELSE "move")
  /\ UNCHANGED <<events, flow, over, raced>>

Move(g) ==
  /\ At(g, "move")
  /\ SetState(To[run[g].kind])
  /\ Return(g)
  /\ UNCHANGED <<events, flow, over, raced>>

\* msgAddHebrewYear computes the civil date, for which the month must exist; it
\* is a date of this conversation if both of its parts are.
Civil(g) ==
  /\ At(g, "civil")
  /\ IF GetData("month") # 0
     THEN run' = [run EXCEPT ![g].pc = "offer",
                             ![g].id = IF {GetData("month"), GetData("day")} = {run[g].flow}
                                       THEN run[g].flow ELSE -1]
     ELSE Goto(g, "prompt")
  /\ UNCHANGED <<store, events, flow, over, raced>>

Offer(g) ==
  /\ At(g, "offer")
  /\ UpdateData({"auto"}, run[g].id)
  /\ run' = [run EXCEPT ![g].pc = "confirm", ![g].id = 0]
  /\ UNCHANGED <<events, flow, over, raced>>

Prompt(g) ==
  /\ At(g, "confirm") \/ At(g, "prompt")
  /\ SetState(IF At(g, "confirm") THEN "auto" ELSE "sec_prompt")
  /\ Return(g)
  /\ UNCHANGED <<events, flow, over, raced>>

-----------------------------------------------------------------------------
(* finalizeEvent, and the reads of finalizeSecondaryFlow before it *)

Second(g) ==
  /\ At(g, "second")
  /\ run' = [run EXCEPT ![g].row.sec = GetData("auto"), ![g].pc = "fields"]
  /\ UNCHANGED <<store, events, flow, over, raced>>

Fields(g) ==
  /\ At(g, "fields")
  /\ run' = [run EXCEPT ![g].row = [@ EXCEPT !.month = GetData("month"),
                                             !.day = GetData("day"),
                                             !.year = GetData("year")],
                        ![g].pc = "person"]
  /\ UNCHANGED <<store, events, flow, over, raced>>

Person(g) ==
  /\ At(g, "person")
  /\ run' = [run EXCEPT ![g].row.name = GetData("name"), ![g].pc = "count"]
  /\ UNCHANGED <<store, events, flow, over, raced>>

\* Mutant: the limit itself is still let through.
LimitReachedLater == Len(events) > Cap

LimitReached == Len(events) >= Cap

\* CreateMinimalEvent counts; a user at the limit is told so and starts over.
Count(g) ==
  /\ At(g, "count")
  /\ Goto(g, IF LimitReached THEN "clear" ELSE "insert")
  /\ UNCHANGED <<store, events, flow, over, raced>>

\* No occurrence without a month; the CHECKs refuse a zero day or second date.
Valid(row) == row.month # 0 /\ row.day # 0 /\ row.sec # 0

\* Mutant: the id is off by one.
InsertNextId(g) ==
  /\ At(g, "insert") /\ Valid(run[g].row)
  /\ events' = Append(events, [row |-> run[g].row, flow |-> run[g].flow, raced |-> raced])
  /\ run' = [run EXCEPT ![g].id = Len(events) + 2, ![g].pc = "clear"]
  /\ UNCHANGED <<store, flow, over, raced>>

\* The row is read back for its id; if that fails, the conversation goes on although
\* the event is there.
Insert(g) ==
  /\ At(g, "insert") /\ Valid(run[g].row)
  /\ events' = Append(events, [row |-> run[g].row, flow |-> run[g].flow, raced |-> raced])
  /\ \/ run' = [run EXCEPT ![g].id = Len(events) + 1, ![g].pc = "clear"]
     \/ flow >= UnreadFrom /\ Return(g)
  /\ UNCHANGED <<store, flow, over, raced>>

\* The row is refused, or the database fails, for a search too: the
\* conversation stays as it is.
Refused(g) ==
  /\ At(g, "count") \/ At(g, "insert") \/ (At(g, "clear") /\ run[g].kind = "query")
  /\ Return(g)
  /\ UNCHANGED <<store, events, flow, over, raced>>

\* Clear, after a save, a refusal at the limit, or a search.
Finish(g) ==
  /\ At(g, "clear")
  /\ Clear
  /\ over' = TRUE
  /\ IF run[g].id = 0 THEN Return(g) ELSE Goto(g, "note")
  /\ UNCHANGED <<events, flow, raced>>

\* event_id, for the buttons under the saved event.
Note(g) ==
  /\ At(g, "note")
  /\ UpdateData({"event"}, run[g].id)
  /\ Return(g)
  /\ UNCHANGED <<events, flow, over, raced>>

-----------------------------------------------------------------------------
(* The store forgets *)

\* Untouched for maxAge, the record goes with a write of some other user.
Evict ==
  /\ Busy = {}
  /\ Clear /\ over' = TRUE
  /\ UNCHANGED <<run, events, flow, raced>>

Restart ==
  /\ Clear /\ over' = TRUE
  /\ run' = [g \in Updates |-> Idle]
  /\ UNCHANGED <<events, flow, raced>>

Step(g) ==
  \/ \E kind \in Kinds : Answer(g, kind)
  \/ AskAdar(g) \/ Store(g) \/ Move(g) \/ Civil(g) \/ Offer(g) \/ Prompt(g)
  \/ Second(g) \/ Fields(g) \/ Person(g) \/ Count(g) \/ Insert(g) \/ Refused(g)
  \/ Finish(g) \/ Note(g)

Next ==
  \/ MenuAdd \/ MenuSearch \/ Cancel \/ Evict \/ Restart
  \/ \E g \in Updates : Step(g)

Spec == Init /\ [][Next]_vars

-----------------------------------------------------------------------------
(* Properties *)

Token == -1 .. MaxFlows
Row == [name : Token, month : Token, day : Token, year : Token, sec : Token \cup {Nothing}]

Pcs == {"store", "move", "civil", "offer", "confirm", "prompt", "second", "fields",
        "person", "count", "insert", "clear", "note"}

\* The state is well formed; the event_id in the store and the one a handler is
\* about to write there name events that exist.
TypeOK ==
  /\ store \in [state : States \cup {NoState}, data : [DataKeys -> Int]]
  /\ \A k \in DataKeys \ {"event"} : store.data[k] \in Token
  /\ store.data["event"] \in 0 .. Len(events)
  /\ run \in [Updates -> {Idle} \cup [kind : Kinds, pc : Pcs, flow : 0 .. MaxFlows, id : Int, row : Row]]
  /\ \A g \in Updates : IF run[g].pc \in {"clear", "note"} THEN run[g].id \in 0 .. Len(events)
                         ELSE run[g].id \in (IF run[g].pc = "offer" THEN Token ELSE {0})
  /\ events \in Seq([row : Row, flow : 1 .. MaxFlows, raced : BOOLEAN])
  /\ flow \in 0 .. MaxFlows /\ over \in BOOLEAN /\ raced \in BOOLEAN

\* An event saved by a conversation in which no two updates overlapped is of
\* one person: name, month, day and second date were all given in it, whatever
\* abandoned, raced or forgotten conversations left in the store before.
SavedIsOnePerson ==
  \A i \in DOMAIN events :
    LET e == events[i]
    IN  ~e.raced => /\ {e.row.name, e.row.month, e.row.day} = {e.flow}
                    /\ e.row.sec \in {e.flow, Nothing}

\* Without overlap, nothing is saved by a conversation that has ended: that saved its
\* event and came to clear, was cancelled, left for a search, or forgotten by the
\* store.  One whose event could not be read back has not ended: it may save again.
EndedSavesNothing ==
  [][Len(events') > Len(events) /\ ~raced => ~over]_vars

\* The limit is checked before the insert and not with it: it can be passed, but
\* only by as many updates as were under way together, less one.
LimitOvershoot == Len(events) < Cap + Cardinality(Updates)

\* The year of a Hebrew event is one accumulated in the flow, says the comment
\* of finalizeSecondaryFlow.  It fails: cbAddNoYear leaves the year of an
\* abandoned conversation in place, and finalizeSecondaryFlow reads it back.
YearIsOfThisFlow ==
  \A i \in DOMAIN events : ~events[i].raced => events[i].row.year \in {0, events[i].flow}

-----------------------------------------------------------------------------
(* What makes them inductive *)

\* Who is at a step came to it by an answer that leads there.
StepsFit ==
  /\ store.state \notin {NoState, "search"} => flow > 0
  /\ \A g \in Busy :
       /\ IF run[g].kind = "query" THEN run[g].pc = "clear" /\ run[g].id = 0
          ELSE run[g].flow \in 1 .. flow
       /\ run[g].pc = "store" => run[g].kind \in Storing
       /\ run[g].pc = "move" => run[g].kind \in DOMAIN To

\* What the conversation has been given before it is in a state.
Given3 == {"name", "month", "day"}
Asked == [s \in States |->
  CASE s \in {"name", "search"}    -> {}
    [] s \in {"date", "heb_month"} -> {"name"}
    [] s = "heb_day"               -> {"name", "month"}
    [] s = "auto"                  -> Given3 \cup {"auto"}
    [] OTHER                       -> Given3]

\* What is still to be read from the store on the way from a step, or is needed in the
\* state it leads to.
Needs(r) ==
  CASE r.pc = "store"                                  -> Asked[From[r.kind]]
    [] r.pc = "move"                                   -> Asked[To[r.kind]]
    [] r.pc \in {"civil", "offer", "prompt", "fields"} -> Given3
    [] r.pc \in {"confirm", "second"}                  -> Given3 \cup {"auto"}
    [] r.pc = "person"                                 -> {"name"}
    [] OTHER                                           -> {}

Has(s, K, f) == \A k \in K : s.data[k] = f

\* What a goroutine has in hand is of conversation f; if that is over, it has saved.
OfThisFlow(r, s, f, ended) ==
  /\ r.flow = f /\ Has(s, Needs(r), f)
  /\ r.pc = "store" => s.state = From[r.kind]
  /\ r.pc = "offer" => r.id = f
  /\ r.pc \in {"fields", "person", "count", "insert"} => r.row.sec \in {f, Nothing}
  /\ r.pc \in {"person", "count", "insert"} => r.row.month = f /\ r.row.day = f
  /\ r.pc \in {"count", "insert"} => r.row.name = f
  /\ ended => r.pc \in {"clear", "note"}

\* The store holds the answers of conversation f as far as it has got; once over, it
\* has got nowhere.
SoFar(s, f, ended) ==
  /\ s.state # NoState => Has(s, Asked[s.state], f)
  /\ ended => s.state \in {NoState, "search"}

\* A conversation in which no two updates overlapped: one at a time is at work, on what
\* it was given itself.
OneAtATime ==
  ~raced =>
    /\ \A g, h \in Busy : g = h
    /\ \A g \in Busy : OfThisFlow(run[g], store, flow, over)
    /\ SoFar(store, flow, over)

\* The inserts under way all found the limit not yet reached.
Inserting == {g \in Updates : At(g, "insert")}
InsertsCounted == Len(events) + Cardinality(Inserting) < Cap + Cardinality(Updates)
=============================================================================
