------------------------------ MODULE Imports ------------------------------
(***************************************************************************)
(* The import of a backup file (handlers/backup.go and DoImport): the file *)
(* is parsed into the FSM store, and a button then adds its rows or        *)
(* replaces the user's events by them, statement by statement and without  *)
(* a transaction.  Rows are known by the key that finds duplicates (name,  *)
(* month, day and calendar); None stands for a row dictToEvent refuses.    *)
(***************************************************************************)
EXTENDS Sequences, FiniteSets, FsmStore

CONSTANTS
  Updates,   \* goroutines of the user's updates
  Keys,
  Refused,   \* keys of rows that dictToEvent lets through and a CHECK refuses
  Files,     \* file -> its rows; files are numbered from 1
  Initial,   \* keys of the events the user begins with
  MaxEvents, \* bound on rows of the events table
  RaceUntil, \* bound: rows up to which an update may overlap another
  None

States == {"waiting_file", "confirm"}

\* Assumed where the module is instantiated.
ImportsAssumption ==
  /\ DataKeys = {"import_payload"} /\ NoState \notin States
  /\ Refused \subseteq Keys /\ Initial \subseteq Keys \ Refused /\ None \notin Keys
  /\ IsFiniteSet(Initial) /\ MaxEvents \in Nat /\ Cardinality(Initial) <= MaxEvents
  /\ \A f \in DOMAIN Files : f # 0 /\ Files[f] \in Seq(Keys \cup {None})

VARIABLES
  events, \* the events table, in the order of the ids
  run     \* what each goroutine is at

vars == <<store, events, run>>

Rest == [pc |-> "idle"]
Busy == {g \in Updates : run[g] # Rest}

Event(key) == [key |-> key, live |-> TRUE]

Init ==
  /\ store = Empty
  /\ events \in {s \in [1 .. Cardinality(Initial) -> {Event(k) : k \in Initial}] :
                   {s[i].key : i \in DOMAIN s} = Initial}
  /\ run = [g \in Updates |-> Rest]

LiveIds  == {i \in DOMAIN events : events[i].live}
LiveKeys == {events[i].key : i \in LiveIds}

At(g, pc) == run[g].pc = pc
Goto(g, pc) == run' = [run EXCEPT ![g].pc = pc]
Return(g) == run' = [run EXCEPT ![g] = Rest]

\* An update begins; it and those under way have overlapped.
Begin(g, entry) ==
  /\ Busy # {} => Len(events) <= RaceUntil
  /\ run' = [h \in Updates |->
               IF h = g THEN entry
               ELSE IF run[h] = Rest THEN Rest ELSE [run[h] EXCEPT !.clean = FALSE]]

-----------------------------------------------------------------------------
(* The conversation *)

\* cbImportStart
Start(g) ==
  /\ run[g] = Rest
  /\ SetState("waiting_file")
  /\ UNCHANGED <<events, run>>

\* msgImportFile; a wrong or oversized file is answered and changes nothing.
File(g, f) ==
  /\ run[g] = Rest /\ GetState = "waiting_file"
  /\ Begin(g, [pc |-> "parsed", file |-> f, clean |-> Busy = {}])
  /\ UNCHANGED <<store, events>>

Unparsable(g) ==
  /\ run[g] = Rest /\ GetState = "waiting_file"
  /\ Clear
  /\ UNCHANGED <<events, run>>

Parsed(g) ==
  /\ At(g, "parsed")
  /\ SetState("confirm")
  /\ Goto(g, "keep")
  /\ UNCHANGED events

Keep(g) ==
  /\ At(g, "keep")
  /\ UpdateData({"import_payload"}, run[g].file)
  /\ Return(g)
  /\ UNCHANGED events

\* cbImportDo looks at the payload, not at the state.
Do(g, mode) ==
  LET f == GetData("import_payload")
  IN  /\ run[g] = Rest
      /\ IF f = 0 THEN Clear /\ UNCHANGED run
         ELSE /\ Begin(g, [pc |-> IF mode = "replace" THEN "list" ELSE "keys", mode |-> mode,
                           file |-> f, row |-> 1, left |-> {}, keys |-> {}, had |-> LiveKeys,
                           clean |-> Busy = {}])
              /\ UNCHANGED store
      /\ UNCHANGED events

\* "cancel", and the conversations that clear the record.
Cancel == Clear /\ UNCHANGED <<events, run>>

-----------------------------------------------------------------------------
(* DoImport *)

\* ListNotDeleted of what is to be replaced.
List(g) ==
  /\ At(g, "list")
  /\ run' = [run EXCEPT ![g].left = LiveIds, ![g].pc = "replace"]
  /\ UNCHANGED <<store, events>>

\* One SoftDelete for each, in any order as far as the properties can tell.
SoftDelete(g) ==
  /\ At(g, "replace") /\ run[g].left # {}
  /\ LET i == CHOOSE i \in run[g].left : \A j \in run[g].left : i <= j
     IN  /\ events' = [events EXCEPT ![i].live = FALSE]
         /\ run' = [run EXCEPT ![g].left = @ \ {i}]
  /\ UNCHANGED store

\* Mutant: the events that were replaced count, too.
KeysOfAll(g) == {events[i].key : i \in DOMAIN events}

\* The keys of the events there are once the others are deleted.
DupKeys(g) == LiveKeys

CollectKeys(g) ==
  /\ At(g, "keys") \/ (At(g, "replace") /\ run[g].left = {})
  /\ run' = [run EXCEPT ![g].keys = DupKeys(g), ![g].pc = "rows"]
  /\ UNCHANGED <<store, events>>

Row(g) == Files[run[g].file][run[g].row]
More(g) == run[g].row <= Len(Files[run[g].file])

\* DoImport returns.
Finish(g, pc) ==
  run' = [run EXCEPT ![g] = [@ EXCEPT !.pc = pc, !.row = 1, !.left = {}, !.keys = {}]]

\* A row that is not valid, or a duplicate, is counted and passed over.
PassOver(g) ==
  /\ At(g, "rows") /\ More(g)
  /\ Row(g) = None \/ Row(g) \in run[g].keys
  /\ run' = [run EXCEPT ![g].row = @ + 1]
  /\ UNCHANGED <<store, events>>

Create(g) ==
  /\ At(g, "rows") /\ More(g)
  /\ Row(g) \notin {None} \cup run[g].keys \cup Refused
  /\ Len(events) < MaxEvents
  /\ events' = Append(events, Event(Row(g)))
  /\ run' = [run EXCEPT ![g].row = @ + 1, ![g].keys = @ \cup {Row(g)}]
  /\ UNCHANGED store

\* The database refuses the row: the import ends with an error.
CreateFails(g) ==
  /\ At(g, "rows") /\ More(g) /\ Row(g) \in Refused \ run[g].keys
  /\ Finish(g, "refused")
  /\ UNCHANGED <<store, events>>

AllRows(g) ==
  /\ At(g, "rows") /\ ~More(g)
  /\ Finish(g, "done")
  /\ UNCHANGED <<store, events>>

\* Any other statement fails.
Fail(g) ==
  /\ run[g].pc \in {"list", "replace", "keys", "rows"}
  /\ Finish(g, "failed")
  /\ UNCHANGED <<store, events>>

\* The record is cleared after success and error alike.
End(g) ==
  /\ run[g].pc \in {"done", "refused", "failed"}
  /\ Clear
  /\ Return(g)
  /\ UNCHANGED events

\* The user deletes an event, or takes one back, meanwhile.
OtherHandler(i) ==
  /\ events' = [events EXCEPT ![i].live = ~@]
  /\ run' = [g \in Updates |-> IF run[g] = Rest THEN Rest ELSE [run[g] EXCEPT !.clean = FALSE]]
  /\ UNCHANGED store

Restart ==
  /\ Clear
  /\ run' = [g \in Updates |-> Rest]
  /\ UNCHANGED events

Step(g) ==
  \/ Start(g) \/ Unparsable(g) \/ Parsed(g) \/ Keep(g)
  \/ (\E f \in DOMAIN Files : File(g, f)) \/ (\E mode \in {"add", "replace"} : Do(g, mode))
  \/ List(g) \/ SoftDelete(g) \/ CollectKeys(g) \/ PassOver(g) \/ Create(g) \/ CreateFails(g)
  \/ AllRows(g) \/ Fail(g) \/ End(g)

Next == Cancel \/ Restart \/ (\E i \in DOMAIN events : OtherHandler(i)) \/ \E g \in Updates : Step(g)

Spec == Init /\ [][Next]_vars

-----------------------------------------------------------------------------
TypeOK ==
  /\ store.state \in States \cup {NoState} /\ GetData("import_payload") \in DOMAIN Files \cup {0}
  /\ Len(events) <= MaxEvents /\ \A i \in DOMAIN events : events[i].key \in Keys \ Refused
  /\ \A g \in Busy : run[g].pc = "rows" => run[g].row <= Len(Files[run[g].file]) + 1

\* The keys of the file's rows that the table would take.
Good(g) == {Files[run[g].file][i] : i \in DOMAIN Files[run[g].file]} \ ({None} \cup Refused)

FileArrived(g) ==
  /\ Good(g) \subseteq LiveKeys
  /\ LiveKeys = Good(g) \cup (IF run[g].mode = "add" THEN run[g].had ELSE {})
  /\ run[g].mode = "replace" => Cardinality(LiveIds) = Cardinality(LiveKeys)

\* An import that nothing overlapped and that came to the file's end leaves the user
\* with exactly the people of the file, each once (replace), or with them and those
\* there were (add), whatever earlier imports, failures and restarts left behind.
ImportIsExact ==
  \A g \in Busy : At(g, "done") /\ run[g].clean => FileArrived(g)

\* A bad row does not keep the others out: every import that nothing overlapped and
\* that no failure of the database stopped leaves the user with the file's good rows.
BadRowsDoNotAbort ==
  \A g \in Busy : run[g].pc \in {"done", "refused"} /\ run[g].clean => Good(g) \subseteq LiveKeys
=============================================================================
