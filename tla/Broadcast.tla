----------------------------- MODULE Broadcast -----------------------------
(***************************************************************************)
(* An admin's message to everyone (handlers/admin.go): its text is typed,  *)
(* shown as a preview with a button, and sent to the users of the moment   *)
(* one by one, 20 a second, by the update of that button.  The FSM record  *)
(* is the one that all of the admin's other conversations use, too.        *)
(***************************************************************************)
EXTENDS Integers, FiniteSets, FsmStore

CONSTANTS
  Updates,  \* goroutines of the admin's updates
  Users,
  MaxTexts  \* bound on texts, which are numbered from 1

States == {"broadcast_text", "broadcast_confirm", "other"}

\* Assumed where the module is instantiated.
BroadcastAssumption ==
  DataKeys = {"bc_text"} /\ NoState \notin States /\ MaxTexts \in Nat

VARIABLES
  run,      \* what each goroutine is at
  targets,  \* users who are not blocked and have not blocked the bot
  buttons,  \* previews that still have their button
  texts,    \* texts typed so far
  shown,    \* history: the last text previewed
  begun,    \* history: texts whose sending has begun
  murky     \* history: updates overlapped, or one failed, since the last text came in

vars == <<store, run, targets, buttons, texts, shown, begun, murky>>

Rest == [pc |-> "idle"]
Busy == {g \in Updates : run[g] # Rest}

Init ==
  /\ store = Empty /\ run = [g \in Updates |-> Rest] /\ targets = Users
  /\ buttons = {} /\ texts = 0 /\ shown = 0 /\ begun = {} /\ murky = FALSE

At(g, pc) == run[g].pc = pc
Return(g) == run' = [run EXCEPT ![g] = Rest]

-----------------------------------------------------------------------------
(* Updates of one step *)

\* cbAdminBcCallback and cmdBroadcast.
Ask ==
  /\ SetState("broadcast_text")
  /\ UNCHANGED <<run, targets, buttons, texts, shown, begun, murky>>

\* cbAdminHome, /cancel and whatever else ends a conversation, and the start of any other.
Leave ==
  /\ Clear \/ SetState("other")
  /\ UNCHANGED <<run, targets, buttons, texts, shown, begun, murky>>

\* A user is blocked or unblocked, or blocks the bot.
Block(u) ==
  /\ targets' = IF u \in targets THEN targets \ {u} ELSE targets \cup {u}
  /\ UNCHANGED <<store, run, buttons, texts, shown, begun, murky>>

-----------------------------------------------------------------------------
(* msgBcText *)

Text(g) ==
  /\ run[g] = Rest /\ GetState = "broadcast_text" /\ texts < MaxTexts
  /\ texts' = texts + 1
  /\ run' = [run EXCEPT ![g] = [pc |-> "keep", text |-> texts + 1]]
  /\ murky' = (Busy # {})
  /\ UNCHANGED <<store, targets, buttons, shown, begun>>

Keep(g) ==
  /\ At(g, "keep")
  /\ UpdateData({"bc_text"}, run[g].text)
  /\ run' = [run EXCEPT ![g].pc = "preview"]
  /\ UNCHANGED <<targets, buttons, texts, shown, begun, murky>>

\* A preview that Telegram refuses (the text is sent as HTML) ends the update.
Preview(g) ==
  /\ At(g, "preview")
  /\ \/ /\ buttons' = buttons \cup {run[g].text} /\ shown' = run[g].text
        /\ run' = [run EXCEPT ![g].pc = "confirm"]
     \/ Return(g) /\ UNCHANGED <<buttons, shown>>
  /\ UNCHANGED <<store, targets, texts, begun, murky>>

Confirm(g) ==
  /\ At(g, "confirm")
  /\ SetState("broadcast_confirm")
  /\ Return(g)
  /\ UNCHANGED <<targets, buttons, texts, shown, begun, murky>>

-----------------------------------------------------------------------------
(* cbAdminBcOk *)

\* Mutant: the state is not looked at.
AsksAnyway(g) == GetData("bc_text") # 0

Confirming(g) == GetState = "broadcast_confirm" /\ GetData("bc_text") # 0

\* The button of any preview; the text is the one in the store.
Ok(g, button) ==
  /\ run[g] = Rest /\ button \in buttons /\ Confirming(g)
  /\ run' = [run EXCEPT ![g] = [pc |-> "edit", text |-> GetData("bc_text"), button |-> button]]
  /\ murky' = (murky \/ Busy # {})
  /\ UNCHANGED <<store, targets, buttons, texts, shown, begun>>

\* "Sending", which takes the button away, unless the message is too old to edit; an
\* error ends the update.
Edit(g) ==
  /\ At(g, "edit")
  /\ \/ /\ buttons' \in {buttons, buttons \ {run[g].button}}
        /\ run' = [run EXCEPT ![g].pc = "targets"]
     \/ Return(g) /\ UNCHANGED buttons
  /\ UNCHANGED <<store, targets, texts, shown, begun, murky>>

\* GetBroadcastTargets, once for the whole broadcast.
Targets(g) ==
  /\ At(g, "targets")
  /\ run' = [run EXCEPT ![g] = [pc |-> "send", text |-> run[g].text, left |-> targets]]
  /\ begun' = begun \cup {run[g].text}
  /\ UNCHANGED <<store, targets, buttons, texts, shown, murky>>

\* Sent or not, the user is passed.
Send(g, u) ==
  /\ At(g, "send") /\ u \in run[g].left
  /\ run' = [run EXCEPT ![g].left = @ \ {u}]
  /\ UNCHANGED <<store, targets, buttons, texts, shown, begun, murky>>

\* The record is cleared last, whatever conversation it now belongs to.
Done(g) ==
  /\ At(g, "send") /\ run[g].left = {}
  /\ Clear
  /\ Return(g)
  /\ UNCHANGED <<targets, buttons, texts, shown, begun, murky>>

\* The database, or the edit that shows the result, fails.
Fail(g) ==
  /\ At(g, "targets") \/ (At(g, "send") /\ run[g].left = {})
  /\ Return(g)
  /\ murky' = TRUE
  /\ UNCHANGED <<store, targets, buttons, texts, shown, begun>>

\* The process starts again, or the record has grown old.
Forget ==
  /\ Clear
  /\ run' = [g \in Updates |-> Rest]
  /\ UNCHANGED <<targets, buttons, texts, shown, begun, murky>>

Step(g) ==
  \/ Text(g) \/ Keep(g) \/ Preview(g) \/ Confirm(g) \/ (\E b \in buttons : Ok(g, b))
  \/ Edit(g) \/ Targets(g) \/ (\E u \in Users : Send(g, u)) \/ Done(g) \/ Fail(g)

Next == Ask \/ Leave \/ Forget \/ (\E u \in Users : Block(u)) \/ \E g \in Updates : Step(g)

Spec == Init /\ [][Next]_vars

-----------------------------------------------------------------------------
TypeOK ==
  /\ store.state \in States \cup {NoState} /\ GetData("bc_text") \in 0 .. texts
  /\ targets \subseteq Users /\ buttons \cup begun \subseteq 1 .. texts /\ shown \in 0 .. texts
  /\ \A g \in Busy : run[g].text \in 1 .. texts

\* Whichever preview's button is pressed, what goes to everyone is the last text that
\* was previewed, and it goes once: unless updates overlapped (the button pressed again
\* while the first press waits for Telegram or sends, which takes longer than the
\* debouncer's 400 ms) or one failed since the last text came in.
AnnouncedAsPreviewed ==
  \A g \in Updates : At(g, "targets") /\ ~murky => run[g].text = shown /\ run[g].text \notin begun
=============================================================================
