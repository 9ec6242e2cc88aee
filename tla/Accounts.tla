------------------------------ MODULE Accounts ------------------------------
(***************************************************************************)
(* One user's row and the conversations that write it: the onboarding of   *)
(* handlers/start.go, the settings screens of handlers/settings.go, the    *)
(* wipe of the account, and an admin who blocks the user.  An update first *)
(* loads the row (userHandler) and works on that copy; UpdateSettings      *)
(* writes every setting of the copy back, whichever one it is about.       *)
(***************************************************************************)
EXTENDS FsmStore

CONSTANTS
  Updates,   \* goroutines of the user's updates
  Settings,  \* those that are told apart
  None

\* The screens of the onboarding, each named for the setting it asks for, the states
\* in which a text is awaited, and what can be set.
Onboarding == {"lang", "tz", "time"}
Typed == [custom_tz |-> "tz", custom_time |-> "time"]
States == Onboarding \cup DOMAIN Typed \cup {"wipe_confirm"}
Names == Onboarding \cup {"format", "list", "toggle"}

Rows == [set : [Settings -> 0 .. 2], onboarded : BOOLEAN, blocked : BOOLEAN]

\* Assumed where the module is instantiated.
AccountsAssumption ==
  NoState \notin States /\ Settings \subseteq Names /\ None \notin Rows

VARIABLES
  row,    \* of the users table, or None
  run,    \* what each goroutine is at, and its copy of the row
  raced   \* history: two updates overlapped in this conversation

vars == <<store, row, run, raced>>

\* What the user can send: a command, a button, or a text.  1 is a value, or a text
\* that answers what it is asked; None is "other" or any other text.
Requests ==
  [do : {"start", "cancel", "settings", "typeTz", "typeTime", "wipe", "answer"} \cup Names, value : {1}]
    \cup [do : {"tz", "time", "answer"}, value : {None}]

Rest == [pc |-> "idle"]
Busy == {g \in Updates : run[g] # Rest}

Fresh == [set |-> [s \in Settings |-> 0], onboarded |-> FALSE, blocked |-> FALSE]

Init == store = Empty /\ row = None /\ run = [g \in Updates |-> Rest] /\ raced = FALSE

Return(g) == run' = [run EXCEPT ![g] = Rest]
At(g, pc) == run[g].pc = pc

-----------------------------------------------------------------------------
(* userHandler *)

\* Mutant: the row is inserted again, with its defaults.
Replaced == IF row = None THEN Fresh ELSE [Fresh EXCEPT !.onboarded = row.onboarded]

\* GetOrCreateUser: a transaction, of which only names and last_seen_at change an
\* existing row.
Loaded == IF row = None THEN Fresh ELSE row

Begin(g, request) ==
  /\ run[g] = Rest
  /\ row' = Loaded
  /\ IF Loaded.blocked
     THEN UNCHANGED <<run, raced>>
     ELSE /\ run' = [h \in Updates |->
                IF h = g THEN [pc |-> "route", request |-> request, copy |-> Loaded, then |-> "end",
                                      over |-> Busy # {}]
                ELSE IF run[h] = Rest THEN Rest ELSE [run[h] EXCEPT !.over = TRUE]]
          /\ raced' = (Busy # {} \/ (raced /\ store # Empty))
  /\ UNCHANGED store

-----------------------------------------------------------------------------
(* The handlers.  The state decides which of them answers a request. *)

Asks(g, do) == At(g, "route") /\ run[g].request.do = do
Goto(g, pc) == run' = [run EXCEPT ![g].pc = pc]
Value(g) == run[g].request.value

WriteThen(g, copy, then) ==
  run' = [run EXCEPT ![g] = [@ EXCEPT !.pc = "write", !.copy = copy, !.then = then]]

\* The user's copy, changed in one setting; those not told apart are left out.
SetThen(g, s, value, then) ==
  WriteThen(g, IF s \in Settings THEN [run[g].copy EXCEPT !.set[s] = value] ELSE run[g].copy, then)

cmdStart(g) ==
  /\ Asks(g, "start")
  /\ IF run[g].copy.onboarded THEN UNCHANGED store ELSE SetState("lang")
  /\ Return(g)
  /\ UNCHANGED <<row, raced>>

\* The onboarding's own buttons: a value is written, "other" keeps the default.
OnboardingPick(g, screen) ==
  /\ Asks(g, screen) /\ GetState = screen
  /\ IF Value(g) = None THEN Goto(g, "next") ELSE SetThen(g, screen, Value(g), "next")
  /\ UNCHANGED <<store, row, raced>>

NextScreen(g, screen, next) ==
  /\ At(g, "next") /\ run[g].request.do = screen
  /\ IF next = "complete" THEN Goto(g, next) /\ UNCHANGED store ELSE SetState(next) /\ Return(g)
  /\ UNCHANGED <<row, raced>>

cbOnboardingLanguage(g)   == OnboardingPick(g, "lang") \/ NextScreen(g, "lang", "tz")
cbOnboardingTimezone(g)   == OnboardingPick(g, "tz") \/ NextScreen(g, "tz", "time")
cbOnboardingNotifyTime(g) == OnboardingPick(g, "time") \/ NextScreen(g, "time", "complete")

\* In any other state the button leaves the conversation.
cbOnboardingCancel(g) ==
  /\ Asks(g, "cancel")
  /\ IF GetState \in Onboarding THEN Goto(g, "complete") /\ UNCHANGED store ELSE Clear /\ Return(g)
  /\ UNCHANGED <<row, raced>>

\* finishOnboarding: CompleteOnboarding, then Clear.
Complete(g) ==
  /\ At(g, "complete")
  /\ WriteThen(g, [run[g].copy EXCEPT !.onboarded = TRUE], "clear")
  /\ UNCHANGED <<store, row, raced>>

\* Mutant: the conversation is left as it is.
FinishNothing(g) == At(g, "clear") /\ Return(g) /\ UNCHANGED <<store, row, raced>>

Finish(g) == At(g, "clear") /\ Clear /\ Return(g) /\ UNCHANGED <<row, raced>>

\* A button of the settings, or of the list: the onboarding's handlers come first.
Set(g, s, value) ==
  /\ Asks(g, s) /\ GetState # s
  /\ SetThen(g, s, value, "end")
  /\ UNCHANGED <<store, row, raced>>

\* "other" is taken for a timezone when the onboarding's state is gone.
cbLangSet(g) == Set(g, "lang", Value(g))
cbTzSet(g)   == Set(g, "tz", IF Value(g) = None THEN 2 ELSE Value(g))
cbDfSet(g)   == Set(g, "format", Value(g))
cbListSet(g) == Set(g, "list", Value(g))
toggleSetting(g) == Set(g, "toggle", 1 - run[g].copy.set["toggle"])

cbSettingsTimeSet(g) ==
  /\ Asks(g, "time") /\ GetState # "time"
  /\ IF Value(g) = None THEN Return(g) ELSE SetThen(g, "time", Value(g), "end")
  /\ UNCHANGED <<store, row, raced>>

cbMenuSettings(g) == Asks(g, "settings") /\ Clear /\ Return(g) /\ UNCHANGED <<row, raced>>

\* These ask for a text.
AskText(g, do, state) ==
  Asks(g, do) /\ SetState(state) /\ Return(g) /\ UNCHANGED <<row, raced>>

cbTzOther(g)     == AskText(g, "typeTz", "custom_tz")
cbTimeOther(g)   == AskText(g, "typeTime", "custom_time")
cbWipeWarning(g) == AskText(g, "wipe", "wipe_confirm")

\* A text that does not answer changes nothing.
AnswerSetting(g, state) ==
  /\ Asks(g, "answer") /\ GetState = state
  /\ IF Value(g) = None THEN Return(g) ELSE SetThen(g, Typed[state], Value(g), "clear")
  /\ UNCHANGED <<store, row, raced>>

msgTzCustom(g)           == AnswerSetting(g, "custom_tz")
msgSettingsTimeCustom(g) == AnswerSetting(g, "custom_time")

msgWipeConfirm(g) ==
  /\ Asks(g, "answer") /\ GetState \notin DOMAIN Typed
  /\ IF GetState = "wipe_confirm" /\ Value(g) # None THEN Goto(g, "delete") ELSE Return(g)
  /\ UNCHANGED <<store, row, raced>>

-----------------------------------------------------------------------------
(* The database *)

\* Mutant: the copy's is_blocked is written, too.
WithBlocked(copy) == copy

\* UpdateSettings: every setting and onboarded, but no flag an admin owns.
Written(copy) == [copy EXCEPT !.blocked = row.blocked]

Update(g) ==
  /\ At(g, "write")
  /\ row' = IF row = None THEN None ELSE Written(run[g].copy)
  /\ IF run[g].then = "end" THEN Return(g) ELSE Goto(g, run[g].then)
  /\ UNCHANGED <<store, raced>>

Wipe(g) ==
  /\ At(g, "delete")
  /\ row' = None
  /\ Goto(g, "clear")
  /\ UNCHANGED <<store, raced>>

\* A failed statement ends the update.
Fail(g) ==
  /\ At(g, "write") \/ At(g, "delete")
  /\ Return(g)
  /\ UNCHANGED <<store, row, raced>>

\* ToggleBlockUser, of an existing user.
ToggleBlock ==
  /\ row # None
  /\ row' = [row EXCEPT !.blocked = ~@]
  /\ UNCHANGED <<store, run, raced>>

\* The store's record has grown old.
Evict == Busy = {} /\ Clear /\ UNCHANGED <<row, run, raced>>

Restart ==
  /\ Clear
  /\ run' = [g \in Updates |-> Rest]
  /\ UNCHANGED <<row, raced>>

Step(g) ==
  \/ \E request \in Requests : Begin(g, request)
  \/ cmdStart(g) \/ cbOnboardingLanguage(g) \/ cbOnboardingTimezone(g)
  \/ cbOnboardingNotifyTime(g) \/ cbOnboardingCancel(g) \/ Complete(g) \/ Finish(g)
  \/ cbLangSet(g) \/ cbTzSet(g) \/ cbDfSet(g) \/ cbListSet(g) \/ toggleSetting(g)
  \/ cbSettingsTimeSet(g) \/ cbMenuSettings(g) \/ cbTzOther(g) \/ cbTimeOther(g)
  \/ cbWipeWarning(g) \/ msgTzCustom(g) \/ msgSettingsTimeCustom(g) \/ msgWipeConfirm(g)
  \/ Update(g) \/ Wipe(g) \/ Fail(g)

Next == ToggleBlock \/ Evict \/ Restart \/ \E g \in Updates : Step(g)

Spec == Init /\ [][Next]_vars

-----------------------------------------------------------------------------
\* The row, the store and the goroutines are well formed; no update of a user who
\* was blocked when it came in is at work.
TypeOK ==
  /\ store.state \in States \cup {NoState}
  /\ row \in Rows \cup {None}
  /\ raced \in BOOLEAN
  /\ \A g \in Busy : /\ run[g].request \in Requests
                     /\ run[g].copy \in Rows /\ ~run[g].copy.blocked
                     /\ run[g].pc \in {"route", "write", "next", "complete", "clear", "delete"}

\* A setting changes, and onboarding begins anew, only through an update that was
\* about it, unless it overlapped with another one: UpdateSettings writes them
\* all back as the update found them, so that only overlapping updates undo each
\* other's changes.
SettingsStick ==
  [][row # None /\ row' # None =>
       /\ \A s \in Settings : row'.set[s] # row.set[s] =>
            \E g \in Busy : At(g, "write") /\ run'[g] # run[g]
                            /\ (run[g].over \/ s \in {run[g].request.do} \cup {Typed[t] : t \in {GetState} \cap DOMAIN Typed})
       /\ row.onboarded /\ ~row'.onboarded =>
            \E g \in Busy : At(g, "write") /\ run'[g] # run[g] /\ run[g].over]_vars

\* A block holds until an admin lifts it, whatever the user's updates under way
\* write; only an account that was being wiped escapes it, with its data.
BlockHolds ==
  [][row # None /\ row.blocked /\ (row' = None \/ ~row'.blocked) =>
       \/ run' = run
       \/ row' = None /\ \E g \in Busy : At(g, "delete") /\ run'[g].pc # "delete"]_vars

\* Between updates, and without overlap, the onboarding is on only for a user who
\* has not finished it: their handlers come before those of the settings and would take the
\* settings' buttons, which look the same, for answers.
NoStrayOnboarding ==
  Busy = {} /\ GetState \in Onboarding => raced \/ (row # None /\ ~row.onboarded)
=============================================================================
