-------------------------- MODULE MCConversations --------------------------
(***************************************************************************)
(* Instances of Conversations.  Updates are interchangeable.               *)
(***************************************************************************)
EXTENDS Conversations, TLC

CONSTANTS
  category, notes,  \* fields of the editor
  ann, ben, odd     \* the people of an import file

Toggled == {"toggle", "lang"}
Picked == {category}
Typed == {notes}
People == {ann, ben, odd}
Unfit == {odd}
Known == {ann}

\* Files for the constant of that name: a person twice and a row dictToEvent
\* refuses, and one the table refuses after, or before, a good one.
OddLast  == <<<<ann, None, ann>>, <<ben, odd>>>>
OddFirst == <<<<ann, None, ann>>, <<odd, ben>>>>

Symmetry == Permutations(Updates)
=============================================================================
