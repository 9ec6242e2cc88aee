------------------------------ MODULE EditFlow ------------------------------
(***************************************************************************)
(* The field editor of handlers/event_edit.go, as one user's updates drive *)
(* it through the FSM store.  Its buttons carry no event: the menu's edit  *)
(* button and the end of the add flow leave the event in the store, and    *)
(* whatever is pressed or typed later is about the event found there.      *)
(***************************************************************************)
EXTENDS FsmStore

CONSTANTS
  Updates,  \* goroutines of the user's updates
  Events,   \* ids of the user's events, positive
  Pickers,  \* fields set by a button
  Texts,    \* fields set by a text
  Photo,    \* the field set by a photo
  None

Fields == Pickers \cup Texts \cup {Photo}
States == {"choosing", "entering"}

\* Assumed where the module is instantiated.
EditFlowAssumption ==
  /\ DataKeys = {"event_id", "editing_field"} /\ NoState \notin States
  /\ Events \subseteq Nat \ {0} /\ Photo \notin Pickers \cup Texts /\ None \notin Fields

VARIABLES
  run,    \* what each goroutine is at, and what it has read
  asked   \* history: the last prompt, None if its update overlapped another

vars == <<store, run, asked>>

\* What the user can send: the edit button of a card or the end of the add flow,
\* a button of the editor, an answer.
Requests ==
  [do : {"menu", "added"}, event : Events]
    \cup [do : {"more", "skip", "cancel", "text", "photo"}]
    \cup [do : {"field"}, field : Fields] \cup [do : {"pick"}, field : Pickers]
    \cup [do : {"clear"}, field : Fields \ Pickers]

Rest == [pc |-> "idle"]
Busy == {g \in Updates : run[g] # Rest}

Init == store = Empty /\ run = [g \in Updates |-> Rest] /\ asked = None

At(g, pc)   == run[g].pc = pc
Do(g)       == run[g].request.do
Asks(g, do) == At(g, "route") /\ Do(g) = do
Return(g)   == run' = [run EXCEPT ![g] = Rest]
Goto(g, pc) == run' = [run EXCEPT ![g].pc = pc]

\* fsmEventID, and the field msgFieldValue and msgFieldPhoto are after.
EventId == GetData("event_id")
EditingField == GetData("editing_field")

Begin(g, request) ==
  /\ run[g] = Rest
  /\ run' = [h \in Updates |->
       IF h = g THEN [pc |-> "route", request |-> request, event |-> 0,
                      field |-> IF request.do \in {"pick", "clear", "field"} THEN request.field ELSE None,
                      clean |-> Busy = {}]
       ELSE IF run[h] = Rest THEN Rest ELSE [run[h] EXCEPT !.clean = FALSE]]
  /\ UNCHANGED <<store, asked>>

-----------------------------------------------------------------------------
(* What the handlers share *)

\* An update goes on when the store holds an event.
TakeEvent(g, then) ==
  /\ IF EventId = 0 THEN Return(g)
     ELSE run' = [run EXCEPT ![g].event = EventId, ![g].pc = then]
  /\ UNCHANGED <<store, asked>>

\* GetOwnedEvent, which finds no event in the trash, and the validators: an answer they
\* refuse is told its error.
Owned(g, then) ==
  /\ At(g, "owned")
  /\ Goto(g, then) \/ Return(g)
  /\ UNCHANGED <<store, asked>>

\* The whole row is written (see EventRows); if that fails, an answer is still awaited.
Update(g) ==
  /\ At(g, "update")
  /\ Goto(g, "back") \/ Return(g)
  /\ UNCHANGED <<store, asked>>

BackToMenu(g) ==
  /\ At(g, "back")
  /\ SetState("choosing")
  /\ Return(g)
  /\ UNCHANGED asked

ChooseEvent(g) ==
  /\ At(g, "choose")
  /\ UpdateData({"event_id"}, run[g].request.event)
  /\ Return(g)
  /\ UNCHANGED asked

-----------------------------------------------------------------------------
(* The menu *)

\* Mutant: the state is left as it was.
MenuKeepsState(g) ==
  Asks(g, "menu") /\ Goto(g, "choose") /\ UNCHANGED <<store, asked>>

\* cbEventEditMenu takes the event before it knows whether it exists.
cbEventEditMenu(g) ==
  /\ Asks(g, "menu")
  /\ SetState("choosing")
  /\ Goto(g, "choose")
  /\ UNCHANGED asked

cbMoreDetails(g) == Asks(g, "more") /\ TakeEvent(g, "back")

\* "Done" leaves the editor, "skip" the field.
cbFieldSkipOrDone(g) ==
  \/ /\ Asks(g, "skip")
     /\ CASE GetState = "choosing" -> Goto(g, "drop")
          [] GetState = "entering" -> Goto(g, "event")
          [] OTHER -> Return(g)
     /\ UNCHANGED <<store, asked>>
  \/ At(g, "event") /\ Do(g) = "skip" /\ TakeEvent(g, "back")

\* Also /cancel, and finalizeEvent, which then names the event it made.
Drop(g) ==
  /\ At(g, "drop") \/ Asks(g, "cancel") \/ Asks(g, "added")
  /\ Clear
  /\ IF Do(g) = "added" THEN Goto(g, "choose") ELSE Return(g)
  /\ UNCHANGED asked

(* cbFieldPick *)

cbFieldPick(g) ==
  \/ Asks(g, "field") /\ TakeEvent(g, "owned")
  \/ At(g, "owned") /\ Do(g) = "field" /\ Owned(g, "remember")

RememberField(g) ==
  /\ At(g, "remember")
  /\ UpdateData({"editing_field"}, run[g].field)
  /\ Goto(g, "prompt")
  /\ UNCHANGED asked

Prompt(g) ==
  /\ At(g, "prompt")
  /\ SetState("entering")
  /\ asked' = IF run[g].clean THEN [event |-> run[g].event, field |-> run[g].field] ELSE None
  /\ Return(g)

-----------------------------------------------------------------------------
(* The answers; in another state they are left to other handlers. *)

InEntering(g, do, then) ==
  /\ Asks(g, do)
  /\ IF GetState = "entering" THEN Goto(g, then) ELSE Return(g)
  /\ UNCHANGED <<store, asked>>

applyFieldFromCallback(g) == InEntering(g, "pick", "event")
cbFieldClear(g)           == InEntering(g, "clear", "event")

applyField(g) ==
  \/ At(g, "event") /\ Do(g) \in {"pick", "clear"} /\ TakeEvent(g, "owned")
  \/ At(g, "owned") /\ Do(g) \in {"pick", "clear"} /\ Owned(g, "update")

\* A message is for the field in the store, if that takes such a message.
ForField(g, do, fields) ==
  \/ InEntering(g, do, "which")
  \/ /\ At(g, "which") /\ Do(g) = do
     /\ IF EditingField \in fields
        THEN run' = [run EXCEPT ![g].field = EditingField, ![g].pc = "event"]
        ELSE Return(g)
     /\ UNCHANGED <<store, asked>>
  \/ At(g, "event") /\ Do(g) = do /\ TakeEvent(g, "owned")
  \/ At(g, "owned") /\ Do(g) = do /\ Owned(g, "update")

msgFieldValue(g) == ForField(g, "text", Texts)
msgFieldPhoto(g) == ForField(g, "photo", {Photo})

\* The record has grown old, or the process starts again.
Forget ==
  /\ Clear
  /\ run' = [g \in Updates |-> Rest]
  /\ UNCHANGED asked

Step(g) ==
  \/ \E request \in Requests : Begin(g, request)
  \/ cbEventEditMenu(g) \/ ChooseEvent(g) \/ cbMoreDetails(g) \/ cbFieldSkipOrDone(g)
  \/ Drop(g) \/ cbFieldPick(g) \/ RememberField(g) \/ Prompt(g)
  \/ applyFieldFromCallback(g) \/ cbFieldClear(g) \/ applyField(g)
  \/ msgFieldValue(g) \/ msgFieldPhoto(g) \/ Update(g) \/ BackToMenu(g)

Next == Forget \/ \E g \in Updates : Step(g)

Spec == Init /\ [][Next]_vars

-----------------------------------------------------------------------------
\* The store holds an event and a field; an update that writes has both.
TypeOK ==
  /\ store.state \in States \cup {NoState}
  /\ EventId \in Events \cup {0} /\ EditingField \in Fields \cup {0}
  /\ asked \in [event : Events, field : Fields] \cup {None}
  /\ \A g \in Busy : /\ run[g].request \in Requests
                     /\ At(g, "update") => run[g].event \in Events /\ run[g].field \in Fields

\* A text or photo is written to the event and the field of the last prompt shown,
\* if neither its update nor that of the prompt overlapped another: what was opened,
\* cancelled, deleted or created in between never gets the answer (msgFieldValue
\* and msgFieldPhoto read both from the store, one after the other).
AnswerLandsWhereAsked ==
  \A g \in Busy :
    At(g, "update") /\ Do(g) \in {"text", "photo"} /\ run[g].clean /\ asked # None
      => run[g].event = asked.event /\ run[g].field = asked.field
=============================================================================
