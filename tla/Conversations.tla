--------------------------- MODULE Conversations ---------------------------
(***************************************************************************)
(* The conversations, the rows they write and the error reporter, in one   *)
(* specification: a behaviour is a behaviour of one of the modules, chosen *)
(* at its start, while the variables of the others stand still.            *)
(***************************************************************************)
EXTENDS Integers, Sequences, FiniteSets

CONSTANTS
  Updates, NoState, None,
  Settings,                                             \* of an account
  Events, Pickers, Texts, Photo,                        \* events and the fields of the editor
  Retention, LastDay,                                   \* of the rows
  Keys, Refused, Files, Initial, MaxEvents, RaceUntil,  \* of an import
  Users, MaxTexts,                                      \* of a broadcast
  FewEvents,                                            \* those greetings and rules are about
  Tones, TemplateLimit, MaxTemplates,                   \* of the greetings
  Global, RuleIds, RuleLimit,                           \* of the rules
  Signatures, Window, LastMoment                        \* of the error reports

VARIABLES
  scene,
  accStore, accRow, accRun, accRaced,
  editStore, editRun, asked,
  day, rows, rowsRun,
  impStore, impEvents, impRun,
  bcStore, bcRun, targets, buttons, texts, shown, begun, murky,
  tplStore, templates, result, tplRun,
  rules, lastId, live, known, rulesRun,
  clock, nextReport, errRun, told

Acc == INSTANCE Accounts
  WITH store <- accStore, row <- accRow, run <- accRun, raced <- accRaced, DataKeys <- {}

Edit == INSTANCE EditFlow
  WITH store <- editStore, run <- editRun, DataKeys <- {"event_id", "editing_field"}

Ev == INSTANCE EventRows WITH now <- day, run <- rowsRun

Imp == INSTANCE Imports
  WITH store <- impStore, events <- impEvents, run <- impRun, DataKeys <- {"import_payload"}

Bc == INSTANCE Broadcast
  WITH store <- bcStore, run <- bcRun, DataKeys <- {"bc_text"}

Tpl == INSTANCE Templates
  WITH store <- tplStore, run <- tplRun, DataKeys <- {"new_event_id", "new_tone"},
       Events <- FewEvents, Limit <- TemplateLimit

Rul == INSTANCE Rules
  WITH run <- rulesRun, Events <- FewEvents, Ids <- RuleIds, Limit <- RuleLimit

Err == INSTANCE ErrorReporter WITH now <- clock, run <- errRun

\* What the modules assume of their constants.
ASSUME ConversationsAssumption ==
  /\ Acc!AccountsAssumption /\ Edit!EditFlowAssumption /\ Ev!EventRowsAssumption
  /\ Imp!ImportsAssumption /\ Bc!BroadcastAssumption /\ Tpl!TemplatesAssumption
  /\ Rul!RulesAssumption /\ Err!ErrorReporterAssumption

accVars  == <<accStore, accRow, accRun, accRaced>>
editVars == <<editStore, editRun, asked>>
rowsVars == <<day, rows, rowsRun>>
impVars  == <<impStore, impEvents, impRun>>
bcVars   == <<bcStore, bcRun, targets, buttons, texts, shown, begun, murky>>
tplVars  == <<tplStore, templates, result, tplRun>>
rulVars  == <<rules, lastId, live, known, rulesRun>>
errVars  == <<clock, nextReport, errRun, told>>

vars == <<scene, accVars, editVars, rowsVars, impVars, bcVars, tplVars, rulVars, errVars>>

Scenes == {"account", "edit", "rows", "import", "broadcast", "templates", "rules", "errors"}

\* Only the rows' own scene needs all of their initial states.
Init ==
  /\ scene \in Scenes
  /\ Acc!Init /\ Edit!Init /\ Ev!Init /\ Imp!Init /\ Bc!Init /\ Tpl!Init /\ Rul!Init /\ Err!Init
  /\ scene # "rows" => rows = [e \in Events |-> Ev!Born("gregorian", FALSE)]

Still(s, v) == IF scene = s THEN TRUE ELSE UNCHANGED v

OthersStandStill ==
  /\ UNCHANGED scene
  /\ Still("account", accVars) /\ Still("edit", editVars) /\ Still("rows", rowsVars)
  /\ Still("import", impVars) /\ Still("broadcast", bcVars) /\ Still("templates", tplVars)
  /\ Still("rules", rulVars) /\ Still("errors", errVars)

AccountStep   == scene = "account" /\ Acc!Next /\ OthersStandStill
EditStep      == scene = "edit" /\ Edit!Next /\ OthersStandStill
RowsStep      == scene = "rows" /\ Ev!Next /\ OthersStandStill
ImportStep    == scene = "import" /\ Imp!Next /\ OthersStandStill
BroadcastStep == scene = "broadcast" /\ Bc!Next /\ OthersStandStill
TemplatesStep == scene = "templates" /\ Tpl!Next /\ OthersStandStill
RulesStep     == scene = "rules" /\ Rul!Next /\ OthersStandStill
ErrorsStep    == scene = "errors" /\ Err!Next /\ OthersStandStill

Next ==
  \/ AccountStep \/ EditStep \/ RowsStep \/ ImportStep
  \/ BroadcastStep \/ TemplatesStep \/ RulesStep \/ ErrorsStep

Spec == Init /\ [][Next]_vars

\* The imports alone.
ImportSpec == Init /\ scene = "import" /\ [][ImportStep]_vars

-----------------------------------------------------------------------------
\* The variables of the module at work are of their types.
TypeOK ==
  CASE scene = "account"   -> Acc!TypeOK
    [] scene = "edit"      -> Edit!TypeOK
    [] scene = "rows"      -> Ev!TypeOK
    [] scene = "import"    -> Imp!TypeOK
    [] scene = "broadcast" -> Bc!TypeOK
    [] scene = "templates" -> Tpl!TypeOK
    [] scene = "rules"     -> Rul!TypeOK
    [] scene = "errors"    -> Err!TypeOK

\* The properties of the modules, under their own names: see there.
SettingsStick        == Acc!SettingsStick
BlockHolds           == Acc!BlockHolds
NoStrayOnboarding    == scene = "account" => Acc!NoStrayOnboarding
AnswerLandsWhereAsked == scene = "edit" => Edit!AnswerLandsWhereAsked
DatesCoherent        == scene = "rows" => Ev!DatesCoherent
TrashKept            == Ev!TrashKept
ImportIsExact        == scene = "import" => Imp!ImportIsExact
BadRowsDoNotAbort    == scene = "import" => Imp!BadRowsDoNotAbort
AnnouncedAsPreviewed == scene = "broadcast" => Bc!AnnouncedAsPreviewed
LimitOvershoot ==
  (scene = "templates" => Tpl!LimitOvershoot) /\ (scene = "rules" => Rul!LimitOvershoot)
ReportsApart         == Err!ReportsApart
=============================================================================
