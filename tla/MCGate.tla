------------------------------- MODULE MCGate -------------------------------
(***************************************************************************)
(* An instance of Throttle: a unit of time is half a minute, in which a    *)
(* new account earns one token and the others one and a half.              *)
(***************************************************************************)
EXTENDS Throttle, TLC

Rates == [b \in Buckets |-> IF b \in {"newMessage", "newCallback"} THEN 2 ELSE 3]

ASSUME L!LimiterAssumption

Symmetry == Permutations(Updates)
=============================================================================
