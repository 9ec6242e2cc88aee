------------------------------ MODULE Throttle ------------------------------
(***************************************************************************)
(* The throttle and debounce middlewares (router/middleware.go) over the   *)
(* buckets and the debouncer of middleware/ratelimit.go.  Every update     *)
(* runs in a goroutine; what is one step here is done under one lock, and  *)
(* time passes between the steps.                                          *)
(***************************************************************************)
EXTENDS Integers, Sequences

CONSTANTS
  Users, Updates,
  Kinds,      \* of updates: "message", "callback"
  Rate,       \* of each of the four buckets
  Minute, Silence, Grace,
  Idle,       \* idleEvictInterval
  Debounce,   \* CallbackDebounceMS
  Horizon,    \* bound on time
  None

Buckets == {"message", "callback", "newMessage", "newCallback"}

ASSUME ThrottleAssumption ==
  /\ Kinds \subseteq {"message", "callback"}
  /\ Rate \in [Buckets -> Nat \ {0}]
  /\ Minute \in Nat \ {0} /\ Silence \in Nat /\ Debounce \in Nat
  /\ Grace \in Nat /\ Horizon \in Nat
  /\ Idle \in Nat /\ Idle >= Minute
  /\ \A b \in Buckets : Silence * Rate[b] >= Minute
  /\ None \notin Nat /\ None \notin [tokens : Nat, last : Nat]

VARIABLES
  now,
  created,   \* when each user's account was created
  buckets,   \* of a user and a bucket: [tokens, last], or None
  until,     \* silencedUntil: None for a user without an entry
  lastCall,  \* the debouncer
  run,       \* the goroutine of each update: [pc, user, bucket, at]
  passed,    \* history: how often each bucket let a user pass in the last 1 .. Minute moments
  taps       \* history: each user's last two taps that reached a handler

vars == <<now, created, buckets, until, lastCall, run, passed, taps>>

Rest == [pc |-> "idle"]
Full(b) == Rate[b] * Minute
Least(m, n) == IF m <= n THEN m ELSE n

Init ==
  /\ now = Grace
  /\ created \in [Users -> {0, Grace}]
  /\ buckets = [k \in Users \X Buckets |-> None]
  /\ until = [u \in Users |-> None]
  /\ lastCall = [u \in Users |-> None]
  /\ run = [g \in Updates |-> Rest]
  /\ passed = [k \in Users \X Buckets |-> [w \in 1 .. Minute |-> 0]]
  /\ taps = [u \in Users |-> <<>>]

Bucket(u, kind) ==
  IF now - created[u] < Grace
  THEN IF kind = "message" THEN "newMessage" ELSE "newCallback"
  ELSE kind

\* An update comes in: the bucket is chosen and the clock read.
Arrive(g) ==
  /\ run[g] = Rest
  /\ \E u \in Users, kind \in Kinds :
       run' = [run EXCEPT ![g] = [pc |-> "check", user |-> u, bucket |-> Bucket(u, kind), at |-> now]]
  /\ UNCHANGED <<now, created, buckets, until, lastCall, passed, taps>>

\* Every throttleSweepEveryN updates the ended silences are dropped first.
Swept(at) ==
  {until, [u \in Users |-> IF until[u] # None /\ at > until[u] THEN None ELSE until[u]]}

Check(g) ==
  LET u == run[g].user
  IN  /\ run[g].pc = "check"
      /\ \E kept \in Swept(run[g].at) :
           IF kept[u] # None /\ run[g].at < kept[u]
           THEN /\ until' = kept
                /\ run' = [run EXCEPT ![g] = Rest]
           ELSE /\ until' = [kept EXCEPT ![u] = None]
                /\ run' = [run EXCEPT ![g].pc = "ask"]
      /\ UNCHANGED <<now, created, buckets, lastCall, passed, taps>>

\* Mutant: idle buckets are dropped before they can have filled up.
IdleTooShort(k) == buckets[k] # None /\ buckets[k].last < now

EvictedIdle(k) == buckets[k] # None /\ buckets[k].last < now - Idle

\* Mutant: an hour in which nothing is sent is saved up.
NotCapped(k) == buckets[k].tokens + (now - buckets[k].last) * Rate[k[2]]

\* Mutant: the bucket fills at half its rate.
HalfRate(k) == Least(Full(k[2]), buckets[k].tokens + ((now - buckets[k].last) * Rate[k[2]]) \div 2)

\* The rate is the user's for good: an account wiped and made anew is new again.
Refilled(k) == Least(Full(k[2]), buckets[k].tokens + (now - buckets[k].last) * Rate[k[2]])

\* TokenBucket.Allow, which every sweepEveryNCalls calls evicts idle buckets of
\* every user first; a missing bucket is a full one.
Ask(g) ==
  LET k == <<run[g].user, run[g].bucket>>
  IN  /\ run[g].pc = "ask"
      /\ \E swept \in BOOLEAN :
           LET kept   == [j \in DOMAIN buckets |-> IF swept /\ j[2] = k[2] /\ EvictedIdle(j) THEN None ELSE buckets[j]]
               tokens == IF kept[k] = None THEN Full(k[2]) ELSE Refilled(k)
               allowed == tokens >= Minute
           IN  /\ buckets' = [kept EXCEPT ![k] =
                     [tokens |-> IF allowed THEN tokens - Minute ELSE tokens, last |-> now]]
               /\ IF allowed
                  THEN /\ passed' = [passed EXCEPT ![k] = [w \in 1 .. Minute |-> @[w] + 1]]
                       /\ run' = [run EXCEPT ![g] = IF k[2] \in {"callback", "newCallback"} THEN [@ EXCEPT !.pc = "tap"] ELSE Rest]
                  ELSE /\ run' = [run EXCEPT ![g].pc = "refuse"]
                       /\ UNCHANGED passed
      /\ UNCHANGED <<now, created, until, lastCall, taps>>

SilencedUntil(g) == run[g].at + Silence

Refuse(g) ==
  /\ run[g].pc = "refuse"
  /\ until' = [until EXCEPT ![run[g].user] = SilencedUntil(g)]
  /\ run' = [run EXCEPT ![g] = Rest]
  /\ UNCHANGED <<now, created, buckets, lastCall, passed, taps>>

\* Mutant: the sweep of the debouncer drops whoever tapped before.
ForgetTaps(u) == lastCall[u] # None

StaleTap(u) == lastCall[u] # None /\ lastCall[u] < now - Idle

\* Debouncer.Allow, with a sweep of its own.  A tap it refuses leaves no trace.
Tap(g) ==
  LET u == run[g].user
  IN  /\ run[g].pc = "tap"
      /\ \E swept \in BOOLEAN :
           LET kept == [w \in Users |-> IF swept /\ StaleTap(w) THEN None ELSE lastCall[w]]
           IN  IF kept[u] # None /\ now - kept[u] < Debounce
               THEN lastCall' = kept /\ UNCHANGED taps
               ELSE /\ lastCall' = [kept EXCEPT ![u] = now]
                    /\ taps' = [taps EXCEPT ![u] = IF @ = <<>> THEN <<now>> ELSE <<@[Len(@)], now>>]
      /\ run' = [run EXCEPT ![g] = Rest]
      /\ UNCHANGED <<now, created, buckets, until, passed>>

Pass ==
  /\ now < Horizon
  /\ now' = now + 1
  /\ passed' = [k \in DOMAIN passed |-> [w \in 1 .. Minute |-> IF w = 1 THEN 0 ELSE passed[k][w - 1]]]
  /\ UNCHANGED <<created, buckets, until, lastCall, run, taps>>

Next == Pass \/ \E g \in Updates : Arrive(g) \/ Check(g) \/ Ask(g) \/ Refuse(g) \/ Tap(g)

Spec == Init /\ [][Next]_vars

-----------------------------------------------------------------------------
\* What a bucket holds now, swept away or not, and how long a user is silenced yet.
Level(k) == IF buckets[k] = None THEN Full(k[2]) ELSE Refilled(k)
Quiet(u) == IF until[u] # None /\ until[u] > now THEN until[u] - now ELSE 0

\* Sweeping the maps is invisible: the buckets and silences implement those of
\* the abstract limiter, which forgets nothing, whatever is evicted while other
\* updates are between their check and their answer.
L == INSTANCE Limiter WITH
       level <- [k \in Users \X Buckets |-> Level(k)],
       quiet <- [u \in Users |-> Quiet(u)]

ImplementsLimiter == L!Spec

\* In no Minute does a bucket let a user pass more than twice its rate (a full
\* bucket and what flows in meanwhile), however many updates of a silenced user
\* had got past the check before.
WindowBound == \A k \in Users \X Buckets : passed[k][Minute] <= 2 * Rate[k[2]]

\* A user who has waited out a silence is heard: an update is refused only if the
\* same bucket was asked less than a silence ago.  With too low a configured rate
\* the thirty seconds would not earn a token.
HeardAfterSilence ==
  [][\A g \in Updates : run[g].pc = "ask" /\ run'[g].pc = "refuse" =>
       LET k == <<run[g].user, run[g].bucket>>
       IN  buckets[k] # None /\ now - buckets[k].last < Silence]_vars

\* Two taps of one user that reach a handler are an interval apart, whatever the
\* taps of other users sweep out of the debouncer.
TapsApart == \A u \in Users : Len(taps[u]) = 2 => taps[u][2] - taps[u][1] >= Debounce

-----------------------------------------------------------------------------
(* What makes them inductive *)

Working == [pc : {"check", "ask", "refuse", "tap"}, user : Users, bucket : Buckets, at : 0 .. now]

\* The maps' types: nothing in them is later than now, and no bucket overflows.
TypeOK ==
  /\ now \in Nat /\ created \in [Users -> Nat]
  /\ buckets \in [Users \X Buckets -> [tokens : Nat, last : 0 .. now] \cup {None}]
  /\ \A k \in Users \X Buckets : buckets[k] # None => buckets[k].tokens <= Full(k[2])
  /\ until \in [Users -> {since + Silence : since \in 0 .. now} \cup {None}]
  /\ lastCall \in [Users -> 0 .. now \cup {None}]
  /\ run \in [Updates -> Working \cup {Rest}]
  /\ passed \in [Users \X Buckets -> [1 .. Minute -> Nat]]

\* What a bucket has let pass in the last w moments, and what it holds, is no more
\* than it can hold and what has flowed in meanwhile.
Accounted ==
  \A k \in Users \X Buckets, w \in 1 .. Minute :
    passed[k][w] * Minute + Level(k) <= Full(k[2]) + (w - 1) * Rate[k[2]]

\* No more has flowed into the bucket than could since it was found empty.
Drained(u, b, since) == Level(<<u, b>>) < Minute + Rate[b] * (now - since)

\* Whoever is about to be silenced, or is, has used up a bucket.
SilencedForCause ==
  \A u \in Users, since \in 0 .. now :
    /\ \A g \in Updates, b \in Buckets :
         run[g] = [pc |-> "refuse", user |-> u, bucket |-> b, at |-> since] => Drained(u, b, since)
    /\ until[u] = since + Silence /\ until[u] > now => \E b \in Buckets : Drained(u, b, since)

\* The debouncer knows a user's last tap, unless it is longer ago than it remembers.
TapsRemembered ==
  /\ taps \in [Users -> Seq(Nat)]
  /\ \A u \in Users : taps[u] # <<>> =>
       LET last == taps[u][Len(taps[u])]
       IN  last <= now /\ (lastCall[u] = last \/ (lastCall[u] = None /\ last < now - Idle))
=============================================================================
