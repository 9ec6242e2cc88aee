--------------------------- MODULE ReminderLedger ---------------------------
(***************************************************************************)
(* What notifications_log promises about one reminder (a key: one event,   *)
(* one rule, one occurrence), whatever the engine does around it: a row is *)
(* created once, settled once, and a message goes out only while the row   *)
(* is unsettled and no earlier message of it is unaccounted for.           *)
(***************************************************************************)
EXTENDS Naturals

CONSTANT Keys

VARIABLES
  status,     \* of the row; "none" before, "gone" after the account is deleted
  delivered,  \* messages the user received
  lost        \* how many of them the row was never told about

vars == <<status, delivered, lost>>

Outcomes == {"sent", "failed", "skipped"}

TypeOK ==
  /\ status \in [Keys -> {"none", "pending", "gone"} \cup Outcomes]
  /\ delivered \in [Keys -> Nat] /\ lost \in [Keys -> Nat]

Init ==
  /\ status = [k \in Keys |-> "none"]
  /\ delivered = [k \in Keys |-> 0] /\ lost = [k \in Keys |-> 0]

Queue(k) ==
  /\ status[k] = "none"
  /\ status' = [status EXCEPT ![k] = "pending"]
  /\ UNCHANGED <<delivered, lost>>

\* The account of a running send may be deleted under it.
MaySend(k) == status[k] \in {"pending", "gone"} /\ delivered[k] <= lost[k]

Send(k) ==
  /\ MaySend(k)
  /\ delivered' = [delivered EXCEPT ![k] = @ + 1]
  /\ UNCHANGED <<status, lost>>

Settle(k) ==
  /\ status[k] = "pending"
  /\ \E outcome \in Outcomes : status' = [status EXCEPT ![k] = outcome]
  /\ UNCHANGED <<delivered, lost>>

\* The outcome of the last send is lost, with the send itself or after it.
Lose(k) ==
  /\ \/ UNCHANGED delivered
     \/ MaySend(k) /\ delivered' = [delivered EXCEPT ![k] = @ + 1]
  /\ lost' = [lost EXCEPT ![k] = delivered'[k]]
  /\ UNCHANGED status

\* The rows of a deleted account go with it.
Forget(K) ==
  /\ status' = [k \in Keys |-> IF k \in K THEN "gone" ELSE status[k]]
  /\ UNCHANGED <<delivered, lost>>

Next == \/ \E k \in Keys : Queue(k) \/ Send(k) \/ Settle(k) \/ Lose(k)
        \/ \E K \in SUBSET Keys : Forget(K)

Spec == Init /\ [][Next]_vars
=============================================================================
