------------------------------ MODULE FsmStore ------------------------------
(***************************************************************************)
(* One user's record in the in-memory store of internal/bot/fsm.  Every    *)
(* operation takes the store's lock and is one step.  A record that is     *)
(* missing and one without state and data read alike (GetState and GetData *)
(* never create one), so both are the empty record here.                   *)
(***************************************************************************)
EXTENDS Integers

CONSTANTS
  DataKeys,  \* names of the values a flow accumulates
  NoState

VARIABLE store

Empty == [state |-> NoState, data |-> [k \in DataKeys |-> 0]]

GetState == store.state

\* A value that was never written reads as its zero value.
GetData(k) == store.data[k]

SetState(s) == store' = [store EXCEPT !.state = s]

\* Mutant: values already there win.
UpdateMissing(K, v) ==
  store' = [store EXCEPT !.data =
              [k \in DataKeys |-> IF k \in K /\ @[k] = 0 THEN v ELSE @[k]]]

\* Keys that are not named keep their values.
UpdateData(K, v) ==
  store' = [store EXCEPT !.data = [k \in DataKeys |-> IF k \in K THEN v ELSE @[k]]]

Clear == store' = Empty
=============================================================================
