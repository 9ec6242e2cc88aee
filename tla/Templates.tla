----------------------------- MODULE Templates -----------------------------
(***************************************************************************)
(* Personal greetings (handlers/templates.go, template_service.go): two    *)
(* buttons leave an event and a tone in the user's FSM record, the text    *)
(* that follows becomes a template; templates are switched off, never      *)
(* deleted, and only those that are on count.                              *)
(***************************************************************************)
EXTENDS Sequences, FiniteSets, FsmStore

CONSTANTS
  Updates,      \* goroutines of the user's updates
  Events,       \* ids, positive; those of the user's own live events
  Tones,        \* numbers from 1; 1 is "warm"
  Limit,        \* userTemplateLimit
  MaxTemplates  \* bound on rows

\* Assumed where the module is instantiated.
TemplatesAssumption ==
  /\ DataKeys = {"new_event_id", "new_tone"} /\ NoState # "body"
  /\ Events \subseteq Nat \ {0} /\ 1 \in Tones /\ Tones \subseteq Nat \ {0}
  /\ Limit \in Nat /\ MaxTemplates \in Nat
  /\ IsFiniteSet(Updates) /\ Updates # {}

VARIABLES
  templates, \* the user's rows of greeting_templates, in the order of their ids
  result,    \* the template last shown by a pick, 0 if none
  run        \* what each goroutine is at

vars == <<store, templates, result, run>>

Rest == [pc |-> "idle"]
Busy == {g \in Updates : run[g] # Rest}

Init ==
  store = Empty /\ templates = <<>> /\ result = 0 /\ run = [g \in Updates |-> Rest]

Active == {i \in DOMAIN templates : templates[i].active}

At(g, pc) == run[g].pc = pc
Goto(g, pc) == run' = [run EXCEPT ![g].pc = pc]
Return(g) == run' = [run EXCEPT ![g] = Rest]

-----------------------------------------------------------------------------
(* Showing one *)

\* PickTemplate's candidates: those of the tone, without the one just shown if that
\* leaves any.  The built-in ones are left out.
Candidates(tone, exclude) ==
  LET all == {i \in Active : templates[i].tone = tone}
  IN  IF all \ {exclude} # {} THEN all \ {exclude} ELSE all

\* cbGreetingPick: the button "another one" names the one it excludes.
Pick(tone) ==
  /\ \E exclude \in {0, result} :
       result' \in IF Candidates(tone, exclude) = {} THEN {result} ELSE Candidates(tone, exclude)
  /\ UNCHANGED <<store, templates, run>>

\* cbUsePersonalTemplate asks for ownership only: a template that was switched off is
\* still used from a list shown before.
Use(i) == result' = i /\ UNCHANGED <<store, templates, run>>

-----------------------------------------------------------------------------
(* Making one *)

New(e) ==
  /\ UpdateData({"new_event_id"}, e)
  /\ UNCHANGED <<templates, result, run>>

\* cbTemplateNewTone sets the state before the tone.
NewTone(g, tone) ==
  /\ run[g] = Rest
  /\ SetState("body")
  /\ run' = [run EXCEPT ![g] = [pc |-> "tone", tone |-> tone]]
  /\ UNCHANGED <<templates, result>>

Tone(g) ==
  /\ At(g, "tone")
  /\ UpdateData({"new_tone"}, run[g].tone)
  /\ Return(g)
  /\ UNCHANGED <<templates, result>>

\* msgTemplateBody; an empty text is answered and changes nothing.
Body(g) ==
  /\ run[g] = Rest /\ GetState = "body"
  /\ run' = [run EXCEPT ![g] = [pc |-> "count",
                                tone |-> IF GetData("new_tone") = 0 THEN 1 ELSE GetData("new_tone")]]
  /\ UNCHANGED <<store, templates, result>>

LimitReached == Cardinality(Active) >= Limit

\* CreateUserTemplate counts, then inserts.
Count(g) ==
  /\ At(g, "count")
  /\ Goto(g, IF LimitReached THEN "clear" ELSE "insert")
  /\ UNCHANGED <<store, templates, result>>

\* The row is read back; if that fails, the conversation goes on although it is there.
Insert(g) ==
  /\ At(g, "insert") /\ Len(templates) < MaxTemplates
  /\ templates' = Append(templates, [tone |-> run[g].tone, active |-> TRUE])
  /\ Goto(g, "clear") \/ Return(g)
  /\ UNCHANGED <<store, result>>

\* A statement fails: the conversation goes on.
Fail(g) ==
  /\ At(g, "count") \/ At(g, "insert")
  /\ Return(g)
  /\ UNCHANGED <<store, templates, result>>

\* Saved or refused, the conversation ends.
Finish(g) ==
  /\ At(g, "clear")
  /\ Clear
  /\ Return(g)
  /\ UNCHANGED <<templates, result>>

\* DeleteUserTemplate, of an owned template in whatever state: one column is written.
Delete(i) ==
  /\ templates' = [templates EXCEPT ![i].active = FALSE]
  /\ UNCHANGED <<store, result, run>>

\* /cancel, or another conversation that clears the record.
Cancel == Clear /\ UNCHANGED <<templates, result, run>>

Restart ==
  /\ Clear
  /\ run' = [g \in Updates |-> Rest]
  /\ UNCHANGED <<templates, result>>

Step(g) ==
  \/ (\E tone \in Tones : NewTone(g, tone))
  \/ Tone(g) \/ Body(g) \/ Count(g) \/ Insert(g) \/ Fail(g) \/ Finish(g)

Next ==
  \/ \E g \in Updates : Step(g)
  \/ \E tone \in Tones : Pick(tone)
  \/ \E i \in DOMAIN templates : Use(i) \/ Delete(i)
  \/ \E e \in Events : New(e)
  \/ Cancel \/ Restart

Spec == Init /\ [][Next]_vars

-----------------------------------------------------------------------------
TypeOK ==
  /\ store.state \in {"body", NoState}
  /\ GetData("new_event_id") \in Events \cup {0} /\ GetData("new_tone") \in Tones \cup {0}
  /\ templates \in Seq([tone : Tones, active : BOOLEAN]) /\ Len(templates) <= MaxTemplates
  /\ result \in 0 .. Len(templates)
  /\ \A g \in Busy : run[g].pc \in {"tone", "count", "insert", "clear"} /\ run[g].tone \in Tones

\* The limit on templates is passed only by updates that counted together: by fewer
\* than the goroutines there are.
LimitOvershoot ==
  Cardinality(Active) + Cardinality({g \in Updates : At(g, "insert")})
    <= Limit + Cardinality(Updates)
      /\ Cardinality(Active) < Limit + Cardinality(Updates)
=============================================================================
