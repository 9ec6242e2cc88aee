------------------------------ MODULE Limiter ------------------------------
(***************************************************************************)
(* What rate limiting promises its users: a store of tokens that fills     *)
(* steadily and is never lost or handed out twice, and a silence that only *)
(* one who has used up a store is put under.  Nothing is ever swept here.  *)
(* A token is Minute units, of which Rate accrue in each unit of time.     *)
(***************************************************************************)
EXTENDS Integers

CONSTANTS
  Users, Buckets,
  Rate,     \* of a bucket: tokens in a Minute, and its size
  Minute, Silence

\* Assumed where the module is instantiated.
LimiterAssumption ==
  /\ Minute \in Nat \ {0} /\ Silence \in Nat
  /\ Rate \in [Buckets -> Nat \ {0}]

VARIABLES
  level,  \* what a user has in a bucket
  quiet   \* how long a user is still silenced

Full(b) == Rate[b] * Minute

Least(m, n) == IF m <= n THEN m ELSE n

Init ==
  /\ level = [k \in Users \X Buckets |-> Full(k[2])]
  /\ quiet = [u \in Users |-> 0]

Take(u, b) ==
  /\ level[<<u, b>>] >= Minute
  /\ level' = [level EXCEPT ![<<u, b>>] = @ - Minute]
  /\ UNCHANGED quiet

\* The silence began when the bucket was found empty, Silence - rest ago.
Quiet(u, b) ==
  \E rest \in 0 .. Silence :
    /\ level[<<u, b>>] < Minute + Rate[b] * (Silence - rest)
    /\ quiet' = [quiet EXCEPT ![u] = rest]
    /\ UNCHANGED level

Pass ==
  /\ level' = [k \in Users \X Buckets |-> Least(Full(k[2]), level[k] + Rate[k[2]])]
  /\ quiet' = [u \in Users |-> IF quiet[u] > 0 THEN quiet[u] - 1 ELSE 0]

Next == Pass \/ \E u \in Users, b \in Buckets : Take(u, b) \/ Quiet(u, b)

Spec == Init /\ [][Next]_<<level, quiet>>
=============================================================================
