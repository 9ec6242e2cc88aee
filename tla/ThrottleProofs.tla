--------------------------- MODULE ThrottleProofs ---------------------------
(***************************************************************************)
(* Proofs about Throttle, for any users, goroutines, rates and windows:    *)
(* the maps with their sweeps implement the limiter that forgets nothing,  *)
(* a bucket's window is bounded, only a used-up bucket silences, and taps  *)
(* are apart.                                                              *)
(***************************************************************************)
EXTENDS Throttle, TLAPS

Keys == Users \X Buckets

-----------------------------------------------------------------------------
(* Arithmetic of the buckets *)

\* The parameters' types, and what a full bucket is worth.
LEMMA Parameters ==
  /\ Minute \in Nat /\ Minute > 0 /\ Silence \in Nat /\ Debounce \in Nat /\ Idle \in Nat /\ Grace \in Nat
  /\ Idle >= Minute /\ None \notin Nat
  /\ \A b \in Buckets : /\ Rate[b] \in Nat /\ Rate[b] > 0 /\ Silence * Rate[b] >= Minute
                        /\ Full(b) \in Nat /\ Full(b) >= Minute /\ Full(b) = Rate[b] * Minute
<1>1. /\ Minute \in Nat /\ Minute > 0 /\ Silence \in Nat /\ Debounce \in Nat /\ Idle \in Nat /\ Grace \in Nat
      /\ Idle >= Minute /\ None \notin Nat
  BY ThrottleAssumption
<1>2. ASSUME NEW b \in Buckets
      PROVE  /\ Rate[b] \in Nat /\ Rate[b] > 0 /\ Silence * Rate[b] >= Minute
             /\ Full(b) \in Nat /\ Full(b) >= Minute /\ Full(b) = Rate[b] * Minute
  <2>1. Rate[b] \in Nat /\ Rate[b] > 0 /\ Silence * Rate[b] >= Minute
    BY ThrottleAssumption
  <2>2. Rate[b] * Minute \in Nat /\ Rate[b] * Minute >= Minute
    BY <1>1, <2>1
  <2> QED BY <2>1, <2>2 DEF Full
<1> QED BY <1>1, <1>2

\* Times of a rate are natural, and the more time the more.
LEMMA Flow ==
  ASSUME NEW b \in Buckets, NEW m \in Nat, NEW n \in Nat, m <= n
  PROVE  m * Rate[b] \in Nat /\ n * Rate[b] \in Nat /\ m * Rate[b] <= n * Rate[b]
<1>1. Rate[b] \in Nat
  BY Parameters
<1> QED BY <1>1

\* One moment more is one rate more.
LEMMA Growth ==
  ASSUME NEW m \in Nat, NEW r \in Nat
  PROVE  \E f \in Nat : f = m * r /\ (m + 1) * r = f + r
<1>1. m * r \in Nat /\ (m + 1) * r = m * r + r
  OBVIOUS
<1> QED BY <1>1, Zenon

\* The bucket of a key, as it is kept and as it has filled up by now.
LEMMA LevelType ==
  ASSUME TypeOK, NEW k \in Keys
  PROVE  /\ Level(k) \in 0 .. Full(k[2])
         /\ buckets[k] # None =>
              /\ buckets[k].tokens \in 0 .. Full(k[2]) /\ buckets[k].last \in 0 .. now
              /\ Refilled(k) \in Nat /\ Refilled(k) >= buckets[k].tokens
              /\ Refilled(k) = Least(Full(k[2]), buckets[k].tokens + (now - buckets[k].last) * Rate[k[2]])
<1>1. k[2] \in Buckets
  BY DEF Keys
<1>2. CASE buckets[k] = None
  BY <1>1, <1>2, Parameters DEF Level
<1>3. CASE buckets[k] # None
  <2>1. buckets[k].tokens \in 0 .. Full(k[2]) /\ buckets[k].last \in 0 .. now /\ now \in Nat
    <3>1. buckets[k] \in [tokens : Nat, last : 0 .. now] /\ buckets[k].tokens <= Full(k[2])
      BY <1>3 DEF TypeOK, Keys
    <3> QED BY <1>1, <3>1, Parameters DEF TypeOK
  <2>2. (now - buckets[k].last) * Rate[k[2]] \in Nat
    BY <1>1, <2>1, Flow
  <2>3. Refilled(k) = Least(Full(k[2]), buckets[k].tokens + (now - buckets[k].last) * Rate[k[2]])
    BY DEF Refilled
  <2>4. Refilled(k) \in 0 .. Full(k[2]) /\ Refilled(k) >= buckets[k].tokens
    BY <1>1, <2>1, <2>2, <2>3, Parameters DEF Least
  <2> QED BY <1>3, <2>1, <2>3, <2>4 DEF Level
<1> QED BY <1>2, <1>3

\* So what a bucket would grant is a natural number.
LEMMA LevelNat ==
  ASSUME TypeOK, NEW k \in Keys
  PROVE  Level(k) \in Nat
<1>1. k[2] \in Buckets
  BY DEF Keys
<1>2. Full(k[2]) \in Nat
  BY <1>1, Parameters
<1> QED BY <1>2, LevelType

\* An idle bucket is full: to drop it is to change nothing.
LEMMA IdleIsFull ==
  ASSUME TypeOK, NEW k \in Keys, EvictedIdle(k)
  PROVE  Level(k) = Full(k[2])
<1>1. buckets[k] # None /\ buckets[k].last < now - Idle /\ k[2] \in Buckets
  BY DEF EvictedIdle, Keys
<1>2. /\ buckets[k].tokens \in Nat /\ buckets[k].last \in Nat /\ now \in Nat
      /\ Refilled(k) = Least(Full(k[2]), buckets[k].tokens + (now - buckets[k].last) * Rate[k[2]])
  BY <1>1, LevelType DEF TypeOK
<1>3. now - buckets[k].last \in Nat /\ now - buckets[k].last >= Minute
  BY <1>1, <1>2, Parameters
<1>4. (now - buckets[k].last) * Rate[k[2]] \in Nat /\ (now - buckets[k].last) * Rate[k[2]] >= Minute * Rate[k[2]]
  BY <1>1, <1>3, Parameters, Flow
<1>5. Minute * Rate[k[2]] = Full(k[2]) /\ Full(k[2]) \in Nat
  BY <1>1, Parameters
<1> QED BY <1>1, <1>2, <1>4, <1>5 DEF Least, Level

\* A bucket that is not asked keeps its level; one moment later each has filled by
\* its rate.
LEMMA LevelLater ==
  ASSUME TypeOK, UNCHANGED buckets, now' = now + 1, NEW k \in Keys
  PROVE  Level(k)' = Least(Full(k[2]), Level(k) + Rate[k[2]])
<1>1. k[2] \in Buckets /\ Rate[k[2]] \in Nat /\ Full(k[2]) \in Nat
  BY Parameters DEF Keys
<1>2. CASE buckets[k] = None
  BY <1>1, <1>2 DEF Level, Least
<1>3. CASE buckets[k] # None
  <2>1. /\ buckets[k].tokens \in Nat /\ buckets[k].last \in 0 .. now /\ now \in Nat
        /\ Refilled(k) = Least(Full(k[2]), buckets[k].tokens + (now - buckets[k].last) * Rate[k[2]])
    BY <1>3, LevelType DEF TypeOK
  <2>2. Level(k)' = Least(Full(k[2]), buckets[k].tokens + ((now - buckets[k].last) + 1) * Rate[k[2]])
    <3>1. now' - buckets[k].last = (now - buckets[k].last) + 1
      BY <2>1
    <3> QED BY <1>3, <3>1 DEF Level, Refilled
  <2>3. PICK d \in Nat : d = now - buckets[k].last
    BY <2>1
  <2>4. PICK r \in Nat : r = Rate[k[2]]
    BY <1>1
  <2>5. PICK f \in Nat : f = d * r /\ (d + 1) * r = f + r
    BY Growth
  <2>6. Level(k) = Least(Full(k[2]), buckets[k].tokens + f)
    BY <1>3, <2>1, <2>3, <2>4, <2>5 DEF Level
  <2>7. Level(k)' = Least(Full(k[2]), buckets[k].tokens + (f + r))
    BY <2>2, <2>3, <2>4, <2>5
  <2>8. Least(Full(k[2]), buckets[k].tokens + (f + r)) = Least(Full(k[2]), Least(Full(k[2]), buckets[k].tokens + f) + r)
    <3>1. Full(k[2]) \in Nat /\ buckets[k].tokens \in Nat /\ f \in Nat /\ r \in Nat
      BY <1>1, <2>1
    <3> QED BY ONLY <3>1 DEF Least
  <2> QED BY <2>4, <2>6, <2>7, <2>8
<1> QED BY <1>2, <1>3


-----------------------------------------------------------------------------
(* The goroutines *)

\* A goroutine past its first step knows its user, its bucket and when it came in.
LEMMA WorkingParts ==
  ASSUME TypeOK, NEW g \in Updates, run[g] # Rest
  PROVE  /\ run[g] \in Working /\ run[g].user \in Users /\ run[g].bucket \in Buckets
         /\ run[g].at \in 0 .. now /\ now \in Nat
         /\ <<run[g].user, run[g].bucket>> \in Keys
BY DEF TypeOK, Working, Keys

\* What a goroutine turns to next is work, or rest.
LEMMA NextWork ==
  ASSUME TypeOK, NEW g \in Updates, NEW r \in Working \cup {Rest},
         run' = [run EXCEPT ![g] = r], now' = now
  PROVE  /\ run' \in [Updates -> Working \cup {Rest}]' /\ run'[g] = r
         /\ \A h \in Updates \ {g} : run'[h] = run[h]
BY DEF TypeOK, Working

\* A goroutine that turns to its next task keeps everything else.
LEMMA TurnsTo ==
  ASSUME TypeOK, NEW g \in Updates, NEW pc \in {"check", "ask", "refuse", "tap"}, run[g] # Rest
  PROVE  /\ [run[g] EXCEPT !.pc = pc] \in Working
         /\ [run[g] EXCEPT !.pc = pc].pc = pc
         /\ [run[g] EXCEPT !.pc = pc].user = run[g].user
         /\ [run[g] EXCEPT !.pc = pc].bucket = run[g].bucket
         /\ [run[g] EXCEPT !.pc = pc].at = run[g].at
<1>1. run[g] \in Working BY DEF TypeOK
<1> QED BY <1>1 DEF Working

\* Who is at one of the steps is not at rest.
LEMMA AtWork ==
  ASSUME NEW g \in Updates, run[g].pc \in {"check", "ask", "refuse", "tap"}
  PROVE  run[g] # Rest
BY DEF Rest

\* Where neither the clock nor the buckets move, no level does.
LEMMA SameLevels ==
  ASSUME UNCHANGED <<now, buckets>>
  PROVE  \A k \in Keys : Level(k)' = Level(k)
BY DEF Level, Refilled

-----------------------------------------------------------------------------
(* Types *)

\* The maps start empty.
LEMMA InitTypes == Init => TypeOK
<1> SUFFICES ASSUME Init PROVE TypeOK OBVIOUS
<1>1. now \in Nat /\ created \in [Users -> Nat]
  BY Parameters DEF Init
<1>2. /\ buckets \in [Users \X Buckets -> [tokens : Nat, last : 0 .. now] \cup {None}]
      /\ \A k \in Users \X Buckets : buckets[k] # None => buckets[k].tokens <= Full(k[2])
  BY DEF Init
<1>3. /\ until \in [Users -> {since + Silence : since \in 0 .. now} \cup {None}] /\ lastCall \in [Users -> 0 .. now \cup {None}]
      /\ run \in [Updates -> Working \cup {Rest}]
  BY DEF Init
<1>4. passed \in [Users \X Buckets -> [1 .. Minute -> Nat]]
  <2>1. [w \in 1 .. Minute |-> 0] \in [1 .. Minute -> Nat] OBVIOUS
  <2> QED BY <2>1 DEF Init
<1> QED BY <1>1, <1>2, <1>3, <1>4 DEF TypeOK

\* What Ask does to the bucket it asks: one token less of what it holds, or nothing
\* when it holds none; and to the others, swept or not: nothing.
AskLeaves(g, k) ==
  /\ run[g] # Rest /\ k \in Keys /\ now' = now
  /\ buckets' \in [Keys -> [tokens : Nat, last : 0 .. now] \cup {None}]
  /\ \A j \in Keys : buckets'[j] # None => buckets'[j].tokens <= Full(j[2])
  /\ \A j \in Keys \ {k} : Level(j)' = Level(j)
  /\ \/ /\ Level(k) >= Minute /\ Level(k)' = Level(k) - Minute
        /\ passed' = [passed EXCEPT ![k] = [w \in 1 .. Minute |-> @[w] + 1]]
        /\ run' = [run EXCEPT ![g] = [run[g] EXCEPT !.pc = "tap"]] \/ run' = [run EXCEPT ![g] = Rest]
     \/ /\ Level(k) < Minute /\ Level(k)' = Level(k) /\ UNCHANGED passed
        /\ run' = [run EXCEPT ![g] = [run[g] EXCEPT !.pc = "refuse"]]

\* Ask does no more, whatever it sweeps first.
LEMMA AskEffect ==
  ASSUME TypeOK, NEW g \in Updates, Ask(g), NEW k, k = <<run[g].user, run[g].bucket>>
  PROVE  AskLeaves(g, k)
<1>1. run[g] # Rest /\ k \in Keys /\ now' = now /\ now \in Nat
  BY AtWork, WorkingParts DEF Ask
<1>2. PICK swept \in BOOLEAN :
        LET kept    == [j \in DOMAIN buckets |-> IF swept /\ j[2] = k[2] /\ EvictedIdle(j) THEN None ELSE buckets[j]]
            tokens  == IF kept[k] = None THEN Full(k[2]) ELSE Refilled(k)
            allowed == tokens >= Minute
        IN  /\ buckets' = [kept EXCEPT ![k] = [tokens |-> IF allowed THEN tokens - Minute ELSE tokens, last |-> now]]
            /\ IF allowed
               THEN /\ passed' = [passed EXCEPT ![k] = [w \in 1 .. Minute |-> @[w] + 1]]
                    /\ run' = [run EXCEPT ![g] = IF k[2] \in {"callback", "newCallback"} THEN [@ EXCEPT !.pc = "tap"] ELSE Rest]
               ELSE /\ run' = [run EXCEPT ![g].pc = "refuse"]
                    /\ UNCHANGED passed
  BY ZenonT(60) DEF Ask
<1> DEFINE kept    == [j \in DOMAIN buckets |-> IF swept /\ j[2] = k[2] /\ EvictedIdle(j) THEN None ELSE buckets[j]]
           tokens  == IF kept[k] = None THEN Full(k[2]) ELSE Refilled(k)
           rest    == IF tokens >= Minute THEN tokens - Minute ELSE tokens
<1>3. /\ kept \in [Keys -> [tokens : Nat, last : 0 .. now] \cup {None}]
      /\ \A j \in Keys : kept[j] = buckets[j] \/ (kept[j] = None /\ EvictedIdle(j))
  BY DEF TypeOK, Keys
<1>4. tokens = Level(k)
  <2>1. CASE kept[k] = buckets[k]
    BY <2>1 DEF Level
  <2>2. CASE kept[k] = None /\ EvictedIdle(k)
    BY <1>1, <2>2, IdleIsFull
  <2> QED BY <1>1, <1>3, <2>1, <2>2
<1>5. k[2] \in Buckets /\ Level(k) \in Nat /\ Level(k) <= Full(k[2]) /\ Full(k[2]) \in Nat
  BY <1>1, LevelType, Parameters DEF Keys
<1>6. rest \in Nat /\ rest <= Full(k[2])
  BY <1>4, <1>5, Parameters
<1>7. buckets' = [kept EXCEPT ![k] = [tokens |-> rest, last |-> now]]
  BY <1>2
<1> HIDE DEF kept, tokens, rest
<1>8. /\ buckets'[k] = [tokens |-> rest, last |-> now]
      /\ \A j \in Keys \ {k} : buckets'[j] = kept[j]
      /\ buckets' \in [Keys -> [tokens : Nat, last : 0 .. now] \cup {None}]
  BY <1>1, <1>3, <1>6, <1>7
<1>9. ASSUME NEW j \in Keys, buckets'[j] # None PROVE buckets'[j].tokens <= Full(j[2])
  <2>1. CASE j = k
    BY <1>6, <1>8, <2>1
  <2>2. CASE j # k
    BY <1>3, <1>8, <1>9, <2>2 DEF TypeOK, Keys
  <2> QED BY <2>1, <2>2
<1>10. ASSUME NEW j \in Keys \ {k} PROVE Level(j)' = Level(j)
  <2>1. CASE kept[j] = buckets[j]
    BY <1>1, <1>8, <2>1 DEF Level, Refilled
  <2>2. CASE kept[j] = None /\ EvictedIdle(j)
    BY <1>8, <2>2, IdleIsFull DEF Level
  <2> QED BY <1>3, <2>1, <2>2
<1>11. Level(k)' = rest
  <2>1. Level(k)' = Least(Full(k[2]), rest + (now - now) * Rate[k[2]])
    <3>1. buckets'[k] # None /\ buckets'[k].tokens = rest /\ buckets'[k].last = now
      BY <1>1, <1>6, <1>8, ThrottleAssumption
    <3> QED BY <1>1, <3>1 DEF Level, Refilled
  <2>2. (now - now) * Rate[k[2]] = 0
    BY <1>1, <1>5, Parameters
  <2> QED BY <1>5, <1>6, <2>1, <2>2 DEF Least
<1>12. CASE tokens >= Minute
  <2>1. rest = Level(k) - Minute
    BY <1>4, <1>12 DEF rest
  <2>2. /\ passed' = [passed EXCEPT ![k] = [w \in 1 .. Minute |-> @[w] + 1]]
        /\ run' = [run EXCEPT ![g] = [run[g] EXCEPT !.pc = "tap"]] \/ run' = [run EXCEPT ![g] = Rest]
    BY <1>2, <1>12 DEF kept, tokens
  <2> QED BY <1>1, <1>4, <1>8, <1>9, <1>10, <1>11, <1>12, <2>1, <2>2 DEF AskLeaves
<1>13. CASE ~(tokens >= Minute)
  <2>1. rest = Level(k) /\ Level(k) < Minute
    BY <1>4, <1>5, <1>13, Parameters DEF rest
  <2>2. UNCHANGED passed /\ run' = [run EXCEPT ![g] = [run[g] EXCEPT !.pc = "refuse"]]
    BY <1>2, <1>13 DEF kept, tokens
  <2> QED BY <1>1, <1>8, <1>9, <1>10, <1>11, <2>1, <2>2 DEF AskLeaves
<1> QED BY <1>12, <1>13


\* The ends of silences are kept as the clock goes on.
LEMMA Ends ==
  ASSUME NEW n \in Nat, NEW m \in Nat, n <= m
  PROVE  {since + Silence : since \in 0 .. n} \subseteq {since + Silence : since \in 0 .. m}
BY Parameters

\* A step of a goroutine that touches neither buckets nor history, and forgets taps or
\* learns of one now, and silences or stops silencing, keeps the types.
LEMMA TypeFrame ==
  ASSUME TypeOK, UNCHANGED <<now, created, buckets, passed>>,
         until' \in [Users -> {since + Silence : since \in 0 .. now} \cup {None}],
         lastCall' \in [Users -> 0 .. now \cup {None}],
         NEW g \in Updates, NEW r \in Working \cup {Rest}, run' = [run EXCEPT ![g] = r]
  PROVE  TypeOK'
<1>1. run' \in [Updates -> Working \cup {Rest}]'
  BY NextWork
<1> QED BY <1>1 DEF TypeOK, Full

\* An update comes in.
LEMMA ArriveTypes ==
  ASSUME TypeOK, NEW g \in Updates, Arrive(g)
  PROVE  TypeOK' /\ \E r \in Working : run' = [run EXCEPT ![g] = r] /\ r.pc = "check"
<1>1. PICK u \in Users, kind \in Kinds :
        run' = [run EXCEPT ![g] = [pc |-> "check", user |-> u, bucket |-> Bucket(u, kind), at |-> now]]
  BY DEF Arrive
<1>2. Bucket(u, kind) \in Buckets
  BY ThrottleAssumption DEF Bucket, Buckets
<1> DEFINE r == [pc |-> "check", user |-> u, bucket |-> Bucket(u, kind), at |-> now]
<1>3. r \in Working /\ r.pc = "check"
  BY <1>2 DEF TypeOK, Working
<1>4. UNCHANGED <<now, created, buckets, passed, until, lastCall>>
  BY DEF Arrive
<1>5. TypeOK'
  <2> HIDE DEF r
  <2> QED BY <1>1, <1>3, <1>4, TypeFrame DEF r, TypeOK
<1> QED BY <1>1, <1>3, <1>5

\* What Check does: ended silences go, and the goroutine rests or asks.
LEMMA CheckEffect ==
  ASSUME TypeOK, NEW g \in Updates, Check(g)
  PROVE  /\ TypeOK' /\ run[g] # Rest
         /\ \A u \in Users : until'[u] = until[u] \/ (until'[u] = None /\ until[u] <= now)
         /\ run' = [run EXCEPT ![g] = [run[g] EXCEPT !.pc = "ask"]] \/ run' = [run EXCEPT ![g] = Rest]
<1>1. /\ run[g] # Rest /\ run[g].user \in Users /\ run[g].at \in 0 .. now /\ now \in Nat
      /\ UNCHANGED <<now, created, buckets, passed, lastCall>>
  BY AtWork, WorkingParts DEF Check
<1>2. PICK kept \in Swept(run[g].at) :
        \/ until' = kept /\ run' = [run EXCEPT ![g] = Rest]
        \/ /\ ~(kept[run[g].user] # None /\ run[g].at < kept[run[g].user])
           /\ until' = [kept EXCEPT ![run[g].user] = None] /\ run' = [run EXCEPT ![g].pc = "ask"]
  BY DEF Check
<1>3. \A u \in Users : until[u] \in Nat \cup {None}
  BY <1>1, Parameters DEF TypeOK
<1>4. /\ DOMAIN kept = Users
      /\ \A u \in Users : kept[u] = until[u] \/ (kept[u] = None /\ until[u] <= now)
  BY <1>1, <1>3 DEF Swept, TypeOK
<1>5. /\ until' \in [Users -> {since + Silence : since \in 0 .. now} \cup {None}]
      /\ \A u \in Users : until'[u] = until[u] \/ (until'[u] = None /\ until[u] <= now)
  <2>1. CASE until' = kept
    <3>1. kept \in [Users -> {since + Silence : since \in 0 .. now} \cup {None}]
      BY <1>4 DEF Swept, TypeOK
    <3> QED BY <1>4, <2>1, <3>1
  <2>2. CASE /\ ~(kept[run[g].user] # None /\ run[g].at < kept[run[g].user])
             /\ until' = [kept EXCEPT ![run[g].user] = None]
    <3>1. kept \in [Users -> {since + Silence : since \in 0 .. now} \cup {None}]
      BY <1>4 DEF Swept, TypeOK
    <3>2. until' \in [Users -> {since + Silence : since \in 0 .. now} \cup {None}]
      BY <2>2, <3>1
    <3>3. ASSUME NEW u \in Users PROVE until'[u] = until[u] \/ (until'[u] = None /\ until[u] <= now)
      <4>1. CASE u # run[g].user
        BY <1>4, <2>2, <4>1
      <4>2. CASE u = run[g].user
        BY <1>1, <1>3, <1>4, <2>2, <4>2
      <4> QED BY <4>1, <4>2
    <3> QED BY <3>2, <3>3
  <2> QED BY <1>2, <2>1, <2>2
<1>6. run' = [run EXCEPT ![g] = [run[g] EXCEPT !.pc = "ask"]] \/ run' = [run EXCEPT ![g] = Rest]
  BY <1>2
<1>7. TypeOK'
  <2>1. [run[g] EXCEPT !.pc = "ask"] \in Working
    BY <1>1, TurnsTo
  <2>2. lastCall' \in [Users -> 0 .. now \cup {None}]
    BY <1>1 DEF TypeOK
  <2>3. CASE run' = [run EXCEPT ![g] = [run[g] EXCEPT !.pc = "ask"]]
    BY <1>1, <1>5, <2>1, <2>2, <2>3, TypeFrame
  <2>4. CASE run' = [run EXCEPT ![g] = Rest]
    BY <1>1, <1>5, <2>2, <2>4, TypeFrame
  <2> QED BY <1>6, <2>3, <2>4
<1> QED BY <1>1, <1>5, <1>6, <1>7


\* What Refuse does: the silence is counted from when the update came in.
LEMMA RefuseEffect ==
  ASSUME TypeOK, NEW g \in Updates, Refuse(g)
  PROVE  /\ TypeOK' /\ run[g] # Rest /\ run[g].pc = "refuse"
         /\ until' = [until EXCEPT ![run[g].user] = run[g].at + Silence]
         /\ run' = [run EXCEPT ![g] = Rest] /\ UNCHANGED <<now, buckets>>
<1>1. /\ run[g] # Rest /\ run[g].user \in Users /\ run[g].at \in 0 .. now
      /\ UNCHANGED <<now, created, buckets, passed, lastCall>>
  BY AtWork, WorkingParts DEF Refuse
<1>2. /\ until' = [until EXCEPT ![run[g].user] = run[g].at + Silence]
      /\ run' = [run EXCEPT ![g] = Rest] /\ run[g].pc = "refuse"
  BY DEF Refuse, SilencedUntil
<1>3. until' \in [Users -> {since + Silence : since \in 0 .. now} \cup {None}]
  BY <1>1, <1>2 DEF TypeOK
<1>4. TypeOK'
  BY <1>1, <1>2, <1>3, TypeFrame DEF TypeOK
<1> QED BY <1>1, <1>2, <1>4

\* What Tap does: it forgets who tapped long ago, and then knows this tap or refuses
\* it for one too recent.
LEMMA TapEffect ==
  ASSUME TypeOK, NEW g \in Updates, Tap(g)
  PROVE  /\ TypeOK' /\ run[g] # Rest /\ run' = [run EXCEPT ![g] = Rest]
         /\ UNCHANGED <<now, created, buckets, until, passed>>
         /\ \E u \in Users, kept \in [Users -> 0 .. now \cup {None}] :
              /\ \A w \in Users : kept[w] = lastCall[w] \/ (kept[w] = None /\ lastCall[w] < now - Idle)
              /\ \/ lastCall' = kept /\ UNCHANGED taps
                 \/ /\ kept[u] = None \/ now - kept[u] >= Debounce
                    /\ lastCall' = [kept EXCEPT ![u] = now]
                    /\ taps' = [taps EXCEPT ![u] = IF @ = <<>> THEN <<now>> ELSE <<@[Len(@)], now>>]
<1>1. /\ run[g] # Rest /\ run[g].user \in Users /\ now \in Nat
      /\ UNCHANGED <<now, created, buckets, until, passed>> /\ run' = [run EXCEPT ![g] = Rest]
  BY AtWork, WorkingParts DEF Tap
<1>2. PICK swept \in BOOLEAN :
        LET kept == [w \in Users |-> IF swept /\ StaleTap(w) THEN None ELSE lastCall[w]]
            u    == run[g].user
        IN  IF kept[u] # None /\ now - kept[u] < Debounce
            THEN lastCall' = kept /\ UNCHANGED taps
            ELSE /\ lastCall' = [kept EXCEPT ![u] = now]
                 /\ taps' = [taps EXCEPT ![u] = IF @ = <<>> THEN <<now>> ELSE <<@[Len(@)], now>>]
  BY DEF Tap
<1> DEFINE kept == [w \in Users |-> IF swept /\ StaleTap(w) THEN None ELSE lastCall[w]]
<1>3. /\ kept \in [Users -> 0 .. now \cup {None}]
      /\ \A w \in Users : kept[w] = lastCall[w] \/ (kept[w] = None /\ lastCall[w] < now - Idle)
  BY DEF TypeOK, StaleTap
<1>4. \/ lastCall' = kept /\ UNCHANGED taps
      \/ /\ kept[run[g].user] = None \/ ~(now - kept[run[g].user] < Debounce)
         /\ lastCall' = [kept EXCEPT ![run[g].user] = now]
         /\ taps' = [taps EXCEPT ![run[g].user] = IF @ = <<>> THEN <<now>> ELSE <<@[Len(@)], now>>]
  BY <1>2
<1> HIDE DEF kept
<1>5. kept[run[g].user] = None \/ now - kept[run[g].user] >= Debounce \/ now - kept[run[g].user] < Debounce
  BY <1>1, <1>3, Parameters
<1>6. lastCall' \in [Users -> 0 .. now \cup {None}]
  BY <1>1, <1>3, <1>4
<1>7. TypeOK'
  BY <1>1, <1>6, TypeFrame DEF TypeOK
<1> QED BY <1>1, <1>3, <1>4, <1>5, <1>7

\* Ask keeps the types.
LEMMA AskTypes ==
  ASSUME TypeOK, NEW g \in Updates, Ask(g)
  PROVE  TypeOK'
<1>1. PICK k : AskLeaves(g, k)
  BY AskEffect
<1>2. /\ run[g] # Rest /\ k \in Keys /\ now' = now
      /\ buckets' \in [Keys -> [tokens : Nat, last : 0 .. now] \cup {None}]
      /\ \A j \in Keys : buckets'[j] # None => buckets'[j].tokens <= Full(j[2])
      /\ \/ /\ passed' = [passed EXCEPT ![k] = [w \in 1 .. Minute |-> @[w] + 1]]
            /\ run' = [run EXCEPT ![g] = [run[g] EXCEPT !.pc = "tap"]] \/ run' = [run EXCEPT ![g] = Rest]
         \/ /\ UNCHANGED passed
            /\ run' = [run EXCEPT ![g] = [run[g] EXCEPT !.pc = "refuse"]]
  BY <1>1 DEF AskLeaves
<1>3. /\ [run[g] EXCEPT !.pc = "tap"] \in Working /\ [run[g] EXCEPT !.pc = "refuse"] \in Working
  BY <1>2, TurnsTo
<1>4. run' \in [Updates -> Working \cup {Rest}]'
  BY <1>2, <1>3, NextWork
<1>5. passed' \in [Users \X Buckets -> [1 .. Minute -> Nat]]
  <2>1. passed \in [Keys -> [1 .. Minute -> Nat]]
    BY DEF TypeOK, Keys
  <2>2. \A f \in [1 .. Minute -> Nat] : [w \in 1 .. Minute |-> f[w] + 1] \in [1 .. Minute -> Nat]
    OBVIOUS
  <2>3. passed[k] \in [1 .. Minute -> Nat]
    BY <1>2, <2>1
  <2> QED BY <1>2, <2>1, <2>2, <2>3 DEF Keys
<1>6. UNCHANGED <<created, until, lastCall>>
  BY DEF Ask
<1> QED BY <1>2, <1>4, <1>5, <1>6 DEF TypeOK, Keys, Full

\* Time passing keeps the types.
LEMMA PassTypes == ASSUME TypeOK, Pass PROVE TypeOK'
<1>1. /\ now' = now + 1 /\ now \in Nat /\ UNCHANGED <<created, buckets, until, lastCall, run>>
  BY DEF Pass, TypeOK
<1>2. 0 .. now \subseteq 0 .. now'
  BY <1>1
<1>3. \A k \in Keys : buckets[k] \in [tokens : Nat, last : 0 .. now'] \cup {None}
  BY <1>2 DEF TypeOK, Keys
<1>4. buckets' \in [Users \X Buckets -> [tokens : Nat, last : 0 .. now] \cup {None}]'
  BY <1>1, <1>3 DEF TypeOK, Keys
<1>5. until' \in [Users -> {since + Silence : since \in 0 .. now'} \cup {None}]
  <2>1. {since + Silence : since \in 0 .. now} \subseteq {since + Silence : since \in 0 .. now'}
    BY <1>1, Ends
  <2> QED BY <1>1, <2>1 DEF TypeOK
<1>6. lastCall' \in [Users -> 0 .. now' \cup {None}]
  BY <1>1, <1>2 DEF TypeOK
<1>7. run' \in [Updates -> Working \cup {Rest}]'
  BY <1>1, <1>2 DEF TypeOK, Working
<1>8. passed' \in [Users \X Buckets -> [1 .. Minute -> Nat]]
  <2>1. ASSUME NEW k \in Users \X Buckets
        PROVE  [w \in 1 .. Minute |-> IF w = 1 THEN 0 ELSE passed[k][w - 1]] \in [1 .. Minute -> Nat]
    <3>1. passed[k] \in [1 .. Minute -> Nat]
      BY DEF TypeOK
    <3>2. \A w \in 1 .. Minute : w # 1 => w - 1 \in 1 .. Minute
      BY Parameters
    <3> QED BY <3>1, <3>2
  <2>2. passed' = [k \in Users \X Buckets |-> [w \in 1 .. Minute |-> IF w = 1 THEN 0 ELSE passed[k][w - 1]]]
    BY DEF Pass, TypeOK
  <2> QED BY <2>1, <2>2
<1> QED BY <1>1, <1>4, <1>5, <1>6, <1>7, <1>8 DEF TypeOK, Full

\* Every step keeps the types.
LEMMA NextTypes == ASSUME TypeOK, [Next]_vars PROVE TypeOK'
<1>1. CASE UNCHANGED vars
  <2>1. UNCHANGED <<now, created, buckets, until, lastCall, run, passed>>
    BY <1>1 DEF vars
  <2> QED BY <2>1 DEF TypeOK, Working, Full
<1>2. ASSUME NEW g \in Updates, Arrive(g) \/ Check(g) \/ Ask(g) \/ Refuse(g) \/ Tap(g) PROVE TypeOK'
  BY <1>2, ArriveTypes, CheckEffect, AskTypes, RefuseEffect, TapEffect
<1> QED BY <1>1, <1>2, PassTypes DEF Next


-----------------------------------------------------------------------------
(* The window *)

\* A pass costs what it counts for.
LEMMA AskAccounted ==
  ASSUME TypeOK, Accounted, NEW g \in Updates, NEW k \in Keys, AskLeaves(g, k)
  PROVE  Accounted'
<1> SUFFICES ASSUME NEW j \in Keys, NEW w \in 1 .. Minute
             PROVE  passed'[j][w] * Minute + Level(j)' <= Full(j[2]) + (w - 1) * Rate[j[2]]
  BY DEF Accounted, Keys, Full
<1>1. passed[j][w] * Minute + Level(j) <= Full(j[2]) + (w - 1) * Rate[j[2]]
  BY DEF Accounted, Keys
<1>2. /\ passed \in [Keys -> [1 .. Minute -> Nat]] /\ passed[j] \in [1 .. Minute -> Nat] /\ passed[j][w] \in Nat
      /\ Level(j) \in Nat /\ Minute \in Nat
  <2>1. passed \in [Keys -> [1 .. Minute -> Nat]]
    BY DEF TypeOK, Keys
  <2>2. Level(j) \in Nat /\ Minute \in Nat
    BY LevelType, Parameters DEF Keys
  <2> QED BY <2>1, <2>2
<1>3. CASE passed'[j][w] = passed[j][w] /\ Level(j)' = Level(j)
  BY <1>1, <1>3
<1>4. CASE passed'[j][w] = passed[j][w] + 1 /\ Level(j)' = Level(j) - Minute
  <2>1. (passed[j][w] + 1) * Minute = passed[j][w] * Minute + Minute /\ passed[j][w] * Minute \in Nat
    BY <1>2
  <2>2. (passed[j][w] + 1) * Minute + (Level(j) - Minute) = passed[j][w] * Minute + Level(j)
    BY <1>2, <2>1
  <2> QED BY <1>1, <1>4, <2>2
<1>5. CASE j # k
  <2>1. passed'[j] = passed[j]
    BY <1>2, <1>5 DEF AskLeaves
  <2> QED BY <1>3, <1>5, <2>1 DEF AskLeaves
<1>6. CASE j = k
  <2>1. CASE /\ Level(k)' = Level(k) - Minute
             /\ passed' = [passed EXCEPT ![k] = [v \in 1 .. Minute |-> @[v] + 1]]
    <3>1. passed'[k] = [v \in 1 .. Minute |-> passed[k][v] + 1]
      BY <1>2, <2>1
    <3> QED BY <1>4, <1>6, <2>1, <3>1
  <2>2. CASE Level(k)' = Level(k) /\ UNCHANGED passed
    BY <1>3, <1>6, <2>2
  <2> QED BY <2>1, <2>2 DEF AskLeaves
<1> QED BY <1>5, <1>6

\* As time passes, the window moves on by what has flowed in.
LEMMA PassAccounted ==
  ASSUME TypeOK, Accounted, Pass
  PROVE  Accounted'
<1> SUFFICES ASSUME NEW j \in Keys, NEW w \in 1 .. Minute
             PROVE  passed'[j][w] * Minute + Level(j)' <= Full(j[2]) + (w - 1) * Rate[j[2]]
  BY DEF Accounted, Keys, Full
<1>1. Level(j)' = Least(Full(j[2]), Level(j) + Rate[j[2]])
  BY LevelLater DEF Pass
<1>2. /\ Level(j) \in Nat /\ Minute \in Nat /\ w \in Nat /\ w > 0
      /\ Full(j[2]) \in Nat /\ Rate[j[2]] \in Nat
  BY LevelType, Parameters DEF Keys
<1>3. passed'[j] = [v \in 1 .. Minute |-> IF v = 1 THEN 0 ELSE passed[j][v - 1]]
  BY DEF Pass, TypeOK, Keys
<1>4. CASE w = 1
  <2>1. passed'[j][w] = 0 /\ (w - 1) * Rate[j[2]] = 0 /\ 0 * Minute = 0
    BY <1>2, <1>3, <1>4
  <2>2. Level(j)' \in Nat /\ Level(j)' <= Full(j[2])
    BY <1>1, <1>2 DEF Least
  <2>3. 0 + Level(j)' <= Full(j[2]) + 0
    BY <1>2, <2>2
  <2> QED BY <2>1, <2>3
<1>5. CASE w # 1
  <2>1. passed'[j][w] = passed[j][w - 1] /\ w - 1 \in 1 .. Minute
    BY <1>2, <1>3, <1>5
  <2>2. passed[j][w - 1] * Minute + Level(j) <= Full(j[2]) + ((w - 1) - 1) * Rate[j[2]]
    BY <2>1 DEF Accounted, Keys
  <2>3. PICK p \in Nat : p = passed[j][w - 1] * Minute
    <3>1. passed[j][w - 1] \in Nat
      BY <2>1 DEF TypeOK, Keys
    <3> QED BY <1>2, <3>1
  <2>4. PICK r \in Nat : r = Rate[j[2]]
    BY <1>2
  <2>5. PICK f \in Nat : f = ((w - 1) - 1) * r /\ (((w - 1) - 1) + 1) * r = f + r
    <3>1. (w - 1) - 1 \in Nat
      BY <1>2, <2>1
    <3> QED BY <3>1, Growth
  <2>6. ((w - 1) - 1) + 1 = w - 1
    BY <1>2
  <2>7. (w - 1) * r = f + r
    BY <2>5, <2>6
  <2>8. p + Level(j) <= Full(j[2]) + f
    BY <2>2, <2>3, <2>4, <2>5
  <2>9. Level(j)' \in Nat /\ Level(j)' <= Level(j) + r
    BY <1>1, <1>2, <2>4 DEF Least
  <2>10. p + Level(j)' <= Full(j[2]) + (f + r)
    BY <1>2, <2>8, <2>9
  <2> QED BY <2>1, <2>3, <2>4, <2>7, <2>10
<1> QED BY <1>4, <1>5

\* Every step keeps the account.
LEMMA NextAccounted == ASSUME TypeOK, Accounted, [Next]_vars PROVE Accounted'
<1>1. CASE UNCHANGED <<now, buckets, passed>>
  <2>1. \A k \in Keys : Level(k)' = Level(k)
    BY <1>1, SameLevels
  <2> QED BY <1>1, <2>1 DEF Accounted, Keys, Full
<1>2. ASSUME NEW g \in Updates, Ask(g) PROVE Accounted'
  <2>1. PICK k : AskLeaves(g, k)
    BY <1>2, AskEffect
  <2>2. k \in Keys
    BY <2>1 DEF AskLeaves
  <2> QED BY <2>1, <2>2, AskAccounted
<1>3. CASE Pass
  BY <1>3, PassAccounted
<1>4. UNCHANGED vars => UNCHANGED <<now, buckets, passed>>
  BY DEF vars
<1>5. ASSUME NEW g \in Updates, Arrive(g) \/ Check(g) \/ Refuse(g) \/ Tap(g)
      PROVE  UNCHANGED <<now, buckets, passed>>
  BY <1>5 DEF Arrive, Check, Refuse, Tap
<1> QED BY <1>1, <1>2, <1>3, <1>4, <1>5 DEF Next

\* The account bounds the window.
LEMMA AccountBounds == ASSUME TypeOK, Accounted PROVE WindowBound
<1> SUFFICES ASSUME NEW k \in Keys PROVE passed[k][Minute] <= 2 * Rate[k[2]]
  BY DEF WindowBound, Keys
<1>1. PICK r \in Nat : r = Rate[k[2]]
  BY Parameters DEF Keys
<1>2. PICK n \in Nat : n = passed[k][Minute]
  BY Parameters DEF TypeOK, Keys
<1>3. /\ n * Minute + Level(k) <= Full(k[2]) + (Minute - 1) * r
      /\ Level(k) \in Nat /\ Full(k[2]) = r * Minute /\ Minute \in Nat /\ Minute > 0
  BY <1>1, <1>2, LevelType, Parameters DEF Accounted, Keys
<1>4. (Minute - 1) * r <= r * Minute /\ (Minute - 1) * r \in Int
  BY <1>3
<1>5. n * Minute <= (2 * r) * Minute
  BY <1>3, <1>4
<1>6. n > 2 * r => n * Minute > (2 * r) * Minute
  BY <1>3
<1>7. n <= 2 * r
  BY <1>3, <1>5, <1>6
<1> QED BY <1>1, <1>2, <1>7


-----------------------------------------------------------------------------
(* The silences *)

\* A bucket found empty has not filled by more than its rate since.
LEMMA DrainedStays ==
  ASSUME TypeOK, NEW u \in Users, NEW b \in Buckets, NEW since \in 0 .. now, Drained(u, b, since),
         \/ now' = now /\ Level(<<u, b>>)' <= Level(<<u, b>>)
         \/ now' = now + 1 /\ Level(<<u, b>>)' <= Level(<<u, b>>) + Rate[b],
         Level(<<u, b>>)' \in Nat
  PROVE  Drained(u, b, since)'
<1>0. now \in Nat /\ Minute \in Nat /\ <<u, b>> \in Keys
  BY Parameters DEF TypeOK, Keys
<1>a. Level(<<u, b>>) \in Nat
  BY <1>0, LevelNat
<1>b. Level(<<u, b>>) < Minute + Rate[b] * (now - since)
  BY DEF Drained
<1>1. /\ now \in Nat /\ Minute \in Nat /\ <<u, b>> \in Keys /\ Level(<<u, b>>) \in Nat
      /\ Level(<<u, b>>) < Minute + Rate[b] * (now - since)
  BY <1>0, <1>a, <1>b
<1>2. PICK d \in Nat : d = now - since
  BY <1>1
<1>3. PICK r \in Nat : r = Rate[b]
  BY Parameters
<1>4. PICK f \in Nat : f = r * d /\ r * (d + 1) = f + r
  BY Growth
<1>5. Level(<<u, b>>) < Minute + f
  BY <1>1, <1>2, <1>3, <1>4
<1>6. CASE now' = now /\ Level(<<u, b>>)' <= Level(<<u, b>>)
  <2>1. Level(<<u, b>>)' < Minute + f
    BY <1>1, <1>5, <1>6
  <2> QED BY <1>2, <1>3, <1>4, <1>6, <2>1 DEF Drained
<1>7. CASE now' = now + 1 /\ Level(<<u, b>>)' <= Level(<<u, b>>) + Rate[b]
  <2>1. Level(<<u, b>>)' < Minute + (f + r)
    BY <1>1, <1>3, <1>5, <1>7
  <2>2. now' - since = d + 1
    BY <1>1, <1>2, <1>7
  <2> QED BY <1>3, <1>4, <2>1, <2>2 DEF Drained
<1> QED BY <1>6, <1>7

\* No step fills a bucket by more than time does.
LEMMA LevelsStep ==
  ASSUME TypeOK, [Next]_vars, NEW k \in Keys
  PROVE  /\ Level(k)' \in Nat
         /\ \/ now' = now /\ Level(k)' <= Level(k)
            \/ now' = now + 1 /\ Level(k)' <= Level(k) + Rate[k[2]]
<1>1. Level(k) \in Nat /\ Full(k[2]) \in Nat /\ Rate[k[2]] \in Nat /\ Minute \in Nat
  BY LevelType, Parameters DEF Keys
<1>2. CASE UNCHANGED <<now, buckets>>
  <2>1. Level(k)' = Level(k)
    BY <1>2, SameLevels
  <2> QED BY <1>1, <1>2, <2>1
<1>3. ASSUME NEW g \in Updates, Ask(g) PROVE Level(k)' \in Nat /\ now' = now /\ Level(k)' <= Level(k)
  <2>1. PICK j : AskLeaves(g, j)
    BY <1>3, AskEffect
  <2>2. /\ now' = now
        /\ Level(k)' = Level(k) \/ (Level(k) >= Minute /\ Level(k)' = Level(k) - Minute)
    BY <2>1 DEF AskLeaves
  <2> QED BY <1>1, <2>2
<1>4. CASE Pass
  <2>1. Level(k)' = Least(Full(k[2]), Level(k) + Rate[k[2]]) /\ now' = now + 1
    BY <1>4, LevelLater DEF Pass
  <2> QED BY <1>1, <2>1 DEF Least
<1>5. ASSUME NEW g \in Updates, Arrive(g) \/ Check(g) \/ Refuse(g) \/ Tap(g)
      PROVE  UNCHANGED <<now, buckets>>
  BY <1>5 DEF Arrive, Check, Refuse, Tap
<1>6. UNCHANGED vars => UNCHANGED <<now, buckets>>
  BY DEF vars
<1> QED BY <1>2, <1>3, <1>4, <1>5, <1>6 DEF Next

\* So a cause for silence stays one.
LEMMA CauseStays ==
  ASSUME TypeOK, [Next]_vars, NEW u \in Users, NEW b \in Buckets, NEW since \in 0 .. now,
         Drained(u, b, since)
  PROVE  Drained(u, b, since)'
<1>1. <<u, b>> \in Keys /\ <<u, b>>[2] = b
  BY DEF Keys
<1>2. /\ Level(<<u, b>>)' \in Nat
      /\ \/ now' = now /\ Level(<<u, b>>)' <= Level(<<u, b>>)
         \/ now' = now + 1 /\ Level(<<u, b>>)' <= Level(<<u, b>>) + Rate[b]
  BY <1>1, LevelsStep
<1> QED BY <1>2, DrainedStays

\* Who refuses after a step refused before it, or has just found the bucket empty.
LEMMA RefusesAfter ==
  ASSUME TypeOK, [Next]_vars, NEW g \in Updates, NEW u \in Users, NEW b \in Buckets, NEW since \in 0 .. now',
         run'[g] = [pc |-> "refuse", user |-> u, bucket |-> b, at |-> since]
  PROVE  /\ since \in 0 .. now
         /\ run[g] # run'[g] => now' = now /\ Level(<<u, b>>) < Minute /\ Level(<<u, b>>)' = Level(<<u, b>>)
<1>1. CASE run'[g] = run[g]
  <2>1. run[g] # Rest
    BY <1>1 DEF Rest
  <2> QED BY <1>1, <2>1, WorkingParts
<1>2. CASE run'[g] # run[g]
  <2>1. run'[g].pc = "refuse"
    OBVIOUS
  <2>2. ~ UNCHANGED run
    BY <1>2
  <2>3. ~ Pass /\ ~ UNCHANGED vars
    BY <2>2 DEF Pass, vars
  <2>4. PICK h \in Updates : Arrive(h) \/ Check(h) \/ Ask(h) \/ Refuse(h) \/ Tap(h)
    BY <2>3 DEF Next
  <2>5. ~ Arrive(h)
    <3>1. SUFFICES ASSUME Arrive(h) PROVE FALSE OBVIOUS
    <3>2. PICK r \in Working : run' = [run EXCEPT ![h] = r] /\ r.pc = "check"
      BY <3>1, ArriveTypes
    <3> QED BY <1>2, <2>1, <3>2 DEF TypeOK
  <2>6. ~ (Check(h) \/ Refuse(h) \/ Tap(h))
    <3>1. SUFFICES ASSUME Check(h) \/ Refuse(h) \/ Tap(h) PROVE FALSE OBVIOUS
    <3>2. /\ run[h] # Rest
          /\ run' = [run EXCEPT ![h] = [run[h] EXCEPT !.pc = "ask"]] \/ run' = [run EXCEPT ![h] = Rest]
      BY <3>1, CheckEffect, RefuseEffect, TapEffect
    <3>3. [run[h] EXCEPT !.pc = "ask"].pc = "ask" /\ Rest.pc = "idle"
      BY <3>2, TurnsTo DEF Rest
    <3> QED BY <1>2, <2>1, <3>2, <3>3 DEF TypeOK
  <2>7. PICK k : k = <<run[h].user, run[h].bucket>> /\ AskLeaves(h, k)
    BY <2>4, <2>5, <2>6, AskEffect
  <2>8. run[h] # Rest /\ now' = now
    BY <2>7 DEF AskLeaves
  <2>9. g = h
    BY <1>2, <2>7 DEF AskLeaves, TypeOK
  <2>10. /\ [run[g] EXCEPT !.pc = "tap"].pc = "tap" /\ Rest.pc = "idle"
         /\ [run[g] EXCEPT !.pc = "refuse"].user = run[g].user
         /\ [run[g] EXCEPT !.pc = "refuse"].bucket = run[g].bucket
    BY <2>8, <2>9, TurnsTo DEF Rest
  <2>11. run'[g] # [run[g] EXCEPT !.pc = "tap"] /\ run'[g] # Rest
    BY <2>1, <2>10
  <2>12. run' # [run EXCEPT ![g] = [run[g] EXCEPT !.pc = "tap"]] /\ run' # [run EXCEPT ![g] = Rest]
    BY <2>11 DEF TypeOK
  <2>13. /\ Level(k) < Minute /\ Level(k)' = Level(k)
         /\ run' = [run EXCEPT ![g] = [run[g] EXCEPT !.pc = "refuse"]]
    BY <2>7, <2>9, <2>12 DEF AskLeaves
  <2>14. run'[g] = [run[g] EXCEPT !.pc = "refuse"]
    BY <2>13 DEF TypeOK
  <2>15. u = run[g].user /\ b = run[g].bucket
    BY <2>10, <2>14
  <2>16. k = <<u, b>>
    BY <2>7, <2>9, <2>15
  <2> QED BY <1>2, <2>8, <2>13, <2>16
<1> QED BY <1>1, <1>2

\* A bucket found empty now is drained, whenever the update came in.
LEMMA EmptyIsDrained ==
  ASSUME TypeOK, now' = now, NEW u \in Users, NEW b \in Buckets, NEW since \in 0 .. now,
         Level(<<u, b>>) < Minute, Level(<<u, b>>)' = Level(<<u, b>>)
  PROVE  Drained(u, b, since)'
<1>1. PICK r \in Nat : r = Rate[b]
  BY Parameters
<1>2. PICK d \in Nat : d = now - since
  BY DEF TypeOK
<1>3. r * d \in Nat /\ Minute \in Nat /\ Level(<<u, b>>) \in Nat
  <2>1. <<u, b>> \in Keys BY DEF Keys
  <2> QED BY <2>1, LevelType, Parameters
<1>4. Level(<<u, b>>) < Minute + r * d
  BY <1>3
<1> QED BY <1>1, <1>2, <1>4 DEF Drained


\* What a step does to a silence: nothing, or it ends one that is over, or puts one on
\* who is refused.
LEMMA UntilAfter ==
  ASSUME TypeOK, [Next]_vars, NEW u \in Users
  PROVE  \/ until'[u] = until[u]
         \/ until'[u] = None
         \/ \E g \in Updates, b \in Buckets, at \in 0 .. now :
              /\ run[g] = [pc |-> "refuse", user |-> u, bucket |-> b, at |-> at]
              /\ until'[u] = at + Silence
<1>1. ASSUME NEW g \in Updates, Check(g)
      PROVE  until'[u] = until[u] \/ (until'[u] = None /\ until[u] <= now /\ UNCHANGED <<now, buckets>>)
  BY <1>1, CheckEffect DEF Check
<1>2. ASSUME NEW g \in Updates, Refuse(g)
      PROVE  \/ until'[u] = until[u]
             \/ \E b \in Buckets, at \in 0 .. now :
                  /\ run[g] = [pc |-> "refuse", user |-> u, bucket |-> b, at |-> at]
                  /\ until'[u] = at + Silence
  <2>1. /\ run[g] # Rest /\ run[g].pc = "refuse" /\ until' = [until EXCEPT ![run[g].user] = run[g].at + Silence]
        /\ UNCHANGED <<now, buckets>>
    BY <1>2, RefuseEffect
  <2>2. run[g] \in Working /\ run[g].at \in 0 .. now /\ run[g].bucket \in Buckets
    BY <2>1, WorkingParts
  <2>3. CASE run[g].user # u
    BY <2>1, <2>3 DEF TypeOK
  <2>4. CASE run[g].user = u
    <3>1. run[g] = [pc |-> "refuse", user |-> u, bucket |-> run[g].bucket, at |-> run[g].at]
      BY <2>1, <2>2, <2>4 DEF Working
    <3>2. until'[u] = run[g].at + Silence
      BY <2>1, <2>4 DEF TypeOK
    <3> QED BY <2>1, <2>2, <2>4, <3>1, <3>2
  <2> QED BY <2>3, <2>4
<1>3. ASSUME NEW g \in Updates, Arrive(g) \/ Ask(g) \/ Tap(g) PROVE until' = until
  BY <1>3 DEF Arrive, Ask, Tap
<1>4. Pass \/ UNCHANGED vars => until' = until
  BY DEF Pass, vars
<1> QED BY <1>1, <1>2, <1>3, <1>4 DEF Next

\* Every step keeps silences to those who have used up a bucket.
LEMMA NextSilenced ==
  ASSUME TypeOK, SilencedForCause, [Next]_vars
  PROVE  SilencedForCause'
<1>0. now \in Nat /\ (now' = now \/ now' = now + 1)
  <2>1. Pass => now' = now + 1
    BY DEF Pass
  <2>2. UNCHANGED vars \/ (\E g \in Updates : Arrive(g) \/ Check(g) \/ Ask(g) \/ Refuse(g) \/ Tap(g)) => now' = now
    BY DEF vars, Arrive, Check, Ask, Refuse, Tap
  <2> QED BY <2>1, <2>2 DEF Next, TypeOK
<1>1. ASSUME NEW u \in Users, NEW since \in 0 .. now', NEW g \in Updates, NEW b \in Buckets,
             run'[g] = [pc |-> "refuse", user |-> u, bucket |-> b, at |-> since]
      PROVE  Drained(u, b, since)'
  <2>1. since \in 0 .. now
    BY <1>1, RefusesAfter
  <2>2. CASE run[g] = run'[g]
    <3>1. Drained(u, b, since)
      BY <1>1, <2>1, <2>2 DEF SilencedForCause
    <3> QED BY <2>1, <3>1, CauseStays
  <2>3. CASE run[g] # run'[g]
    <3>1. now' = now /\ Level(<<u, b>>) < Minute /\ Level(<<u, b>>)' = Level(<<u, b>>)
      BY <1>1, <2>3, RefusesAfter
    <3> QED BY <2>1, <3>1, EmptyIsDrained
  <2> QED BY <2>2, <2>3
<1>2. ASSUME NEW u \in Users, NEW since \in 0 .. now', until'[u] = since + Silence, until'[u] > now'
      PROVE  \E b \in Buckets : Drained(u, b, since)'
  <2>1. CASE until'[u] = until[u]
    <3>1. until[u] # None
      BY <1>0, <1>2, <2>1, Parameters
    <3>2. PICK s \in 0 .. now : until[u] = s + Silence
      BY <3>1 DEF TypeOK
    <3>3. s = since /\ until[u] > now
      BY <1>0, <1>2, <2>1, <3>2, Parameters
    <3>4. PICK b \in Buckets : Drained(u, b, since)
      BY <1>2, <2>1, <3>2, <3>3 DEF SilencedForCause
    <3>5. since \in 0 .. now
      BY <3>2, <3>3
    <3>6. Drained(u, b, since)'
      BY <3>4, <3>5, CauseStays
    <3> QED BY <3>6
  <2>2. CASE until'[u] = None
    BY <1>0, <1>2, <2>2, Parameters
  <2>3. CASE \E g \in Updates, b \in Buckets, at \in 0 .. now :
               /\ run[g] = [pc |-> "refuse", user |-> u, bucket |-> b, at |-> at]
               /\ until'[u] = at + Silence
    <3>1. PICK g \in Updates, b \in Buckets, at \in 0 .. now :
               /\ run[g] = [pc |-> "refuse", user |-> u, bucket |-> b, at |-> at]
               /\ until'[u] = at + Silence
      BY <2>3
    <3>2. at = since
      BY <1>0, <1>2, <3>1, Parameters
    <3>3. Drained(u, b, since)
      BY <3>1, <3>2 DEF SilencedForCause
    <3>4. Drained(u, b, since)'
      <4>1. since \in 0 .. now
        BY <3>2
      <4> QED BY <3>3, <4>1, CauseStays
    <3> QED BY <3>4
  <2>4. \/ until'[u] = until[u] \/ until'[u] = None
        \/ \E g \in Updates, b \in Buckets, at \in 0 .. now :
             /\ run[g] = [pc |-> "refuse", user |-> u, bucket |-> b, at |-> at]
             /\ until'[u] = at + Silence
    BY UntilAfter
  <2> QED BY <2>1, <2>2, <2>3, <2>4
<1> QED BY <1>1, <1>2 DEF SilencedForCause

-----------------------------------------------------------------------------
(* The taps *)

\* Every step keeps the last taps known, and those that pass apart.
LEMMA NextTaps ==
  ASSUME Debounce <= Idle, TypeOK, TapsRemembered, TapsApart, [Next]_vars
  PROVE  TapsRemembered' /\ TapsApart'
<1>0. now \in Nat /\ Idle \in Nat /\ Debounce \in Nat /\ None \notin Nat
  BY Parameters DEF TypeOK
<1>1. CASE UNCHANGED <<taps, lastCall>> /\ (now' = now \/ now' = now + 1)
  BY <1>0, <1>1 DEF TapsRemembered, TapsApart, TypeOK
<1>2. ASSUME NEW g \in Updates, Tap(g) PROVE TapsRemembered' /\ TapsApart'
  <2>1. PICK u \in Users, kept \in [Users -> 0 .. now \cup {None}] :
          /\ now' = now
          /\ \A w \in Users : kept[w] = lastCall[w] \/ (kept[w] = None /\ lastCall[w] < now - Idle)
          /\ \/ lastCall' = kept /\ UNCHANGED taps
             \/ /\ kept[u] = None \/ now - kept[u] >= Debounce
                /\ lastCall' = [kept EXCEPT ![u] = now]
                /\ taps' = [taps EXCEPT ![u] = IF @ = <<>> THEN <<now>> ELSE <<@[Len(@)], now>>]
    BY <1>2, TapEffect
  <2>2. ASSUME NEW w \in Users, taps[w] # <<>>
        PROVE  LET last == taps[w][Len(taps[w])]
               IN  /\ last \in Nat /\ last <= now
                   /\ kept[w] = last \/ (kept[w] = None /\ last < now - Idle)
    <3>1. taps[w] \in Seq(Nat) /\ Len(taps[w]) \in 1 .. Len(taps[w])
      BY <2>2 DEF TapsRemembered
    <3>2. taps[w][Len(taps[w])] \in Nat
      BY <3>1
    <3> QED BY <1>0, <2>1, <2>2, <3>2 DEF TapsRemembered
  <2>3. CASE lastCall' = kept /\ UNCHANGED taps
    <3>1. TapsApart'
      BY <2>3 DEF TapsApart
    <3>2. TapsRemembered'
      BY <2>1, <2>2, <2>3 DEF TapsRemembered
    <3> QED BY <3>1, <3>2
  <2>4. CASE /\ kept[u] = None \/ now - kept[u] >= Debounce
             /\ lastCall' = [kept EXCEPT ![u] = now]
             /\ taps' = [taps EXCEPT ![u] = IF @ = <<>> THEN <<now>> ELSE <<@[Len(@)], now>>]
    <3>1. \A w \in Users \ {u} : taps'[w] = taps[w] /\ lastCall'[w] = kept[w]
      BY <2>1, <2>4 DEF TapsRemembered
    <3>2. taps'[u] = IF taps[u] = <<>> THEN <<now>> ELSE <<taps[u][Len(taps[u])], now>>
      BY <2>4 DEF TapsRemembered
    <3>3. lastCall'[u] = now
      BY <2>1, <2>4
    <3>4. /\ taps'[u] \in Seq(Nat) /\ taps'[u][Len(taps'[u])] = now
          /\ Len(taps'[u]) = 2 => taps'[u][2] - taps'[u][1] >= Debounce
      <4>1. CASE taps[u] = <<>>
        BY <1>0, <3>2, <4>1
      <4>2. CASE taps[u] # <<>>
        <5>1. PICK last \in Nat : /\ last = taps[u][Len(taps[u])] /\ last <= now
                                  /\ kept[u] = last \/ (kept[u] = None /\ last < now - Idle)
          BY <2>2, <4>2
        <5>2. taps'[u] = <<last, now>>
          BY <3>2, <4>2, <5>1
        <5>3. now - last >= Debounce
          BY <1>0, <2>4, <5>1
        <5> QED BY <1>0, <5>2, <5>3
      <4> QED BY <4>1, <4>2
    <3>5. TapsApart'
      BY <3>1, <3>4 DEF TapsApart
    <3>6. taps' \in [Users -> Seq(Nat)]
      BY <2>4, <3>1, <3>4 DEF TapsRemembered
    <3>7. ASSUME NEW w \in Users, taps'[w] # <<>>
          PROVE  LET last == taps'[w][Len(taps'[w])]
                 IN  last <= now /\ (lastCall'[w] = last \/ (lastCall'[w] = None /\ last < now - Idle))
      <4>1. CASE w = u
        BY <1>0, <3>3, <3>4, <4>1
      <4>2. CASE w # u
        BY <2>2, <3>1, <3>7, <4>2
      <4> QED BY <4>1, <4>2
    <3>8. TapsRemembered'
      BY <2>1, <3>6, <3>7 DEF TapsRemembered
    <3> QED BY <3>5, <3>8
  <2> QED BY <2>1, <2>3, <2>4
<1>3. ASSUME NEW g \in Updates, Arrive(g) \/ Check(g) \/ Ask(g) \/ Refuse(g)
      PROVE  UNCHANGED <<now, taps, lastCall>>
  BY <1>3 DEF Arrive, Check, Ask, Refuse
<1>4. Pass => UNCHANGED <<taps, lastCall>> /\ now' = now + 1
  BY DEF Pass
<1>5. UNCHANGED vars => UNCHANGED <<now, taps, lastCall>>
  BY DEF vars
<1> QED BY <1>1, <1>2, <1>3, <1>4, <1>5 DEF Next


-----------------------------------------------------------------------------
(* The theorems *)

\* What holds of the buckets, the silences and their histories.
GateInv == TypeOK /\ Accounted /\ SilencedForCause

\* At first every bucket is full and nobody is silenced.
LEMMA InitGate == Init => GateInv /\ TapsRemembered /\ TapsApart
<1> SUFFICES ASSUME Init PROVE GateInv /\ TapsRemembered /\ TapsApart OBVIOUS
<1>1. TypeOK
  BY InitTypes
<1>2. Accounted
  <2> SUFFICES ASSUME NEW k \in Keys, NEW w \in 1 .. Minute
               PROVE  passed[k][w] * Minute + Level(k) <= Full(k[2]) + (w - 1) * Rate[k[2]]
    BY DEF Accounted, Keys
  <2>1. passed[k][w] = 0 /\ Level(k) = Full(k[2])
    BY DEF Init, Level, Keys
  <2>2. (w - 1) * Rate[k[2]] \in Nat /\ Full(k[2]) \in Nat /\ 0 * Minute = 0
    <3>1. Rate[k[2]] \in Nat /\ w - 1 \in Nat
      BY Parameters DEF Keys
    <3> QED BY <3>1, Parameters DEF Keys
  <2> QED BY <2>1, <2>2
<1>3. SilencedForCause
  BY Parameters DEF SilencedForCause, Init, Rest
<1>4. TapsRemembered /\ TapsApart
  BY DEF TapsRemembered, TapsApart, Init
<1> QED BY <1>1, <1>2, <1>3, <1>4 DEF GateInv

\* No step takes from the account of a bucket, or silences without a cause: the
\* invariant is inductive.
THEOREM GateStaysAccounted == Spec => []GateInv
<1>1. GateInv /\ [Next]_vars => GateInv'
  BY NextTypes, NextAccounted, NextSilenced DEF GateInv
<1> QED BY <1>1, InitGate, PTL DEF Spec

\* Whatever the sweeps drop and however updates interleave, no bucket lets a user pass
\* more than twice its rate in a minute.
THEOREM WindowIsBounded == Spec => []WindowBound
<1>1. GateInv => WindowBound
  BY AccountBounds DEF GateInv
<1> QED BY <1>1, GateStaysAccounted, PTL

\* The debouncer keeps a user's taps an interval apart, if it remembers taps for at
\* least that interval.
THEOREM TapsStayApart == ASSUME Debounce <= Idle PROVE Spec => []TapsApart
<1>1. GateInv => TypeOK
  BY DEF GateInv
<1>2. TypeOK /\ TapsRemembered /\ TapsApart /\ [Next]_vars => TapsRemembered' /\ TapsApart'
  BY NextTaps
<1> QED BY <1>1, <1>2, InitGate, GateStaysAccounted, PTL DEF Spec

\* Who is refused has asked the same bucket less than a silence ago.
LEMMA RefusedSoon ==
  ASSUME TypeOK, [Next]_vars, NEW g \in Updates, run[g].pc = "ask", run'[g].pc = "refuse"
  PROVE  LET k == <<run[g].user, run[g].bucket>>
         IN  buckets[k] # None /\ now - buckets[k].last < Silence
<1> DEFINE k == <<run[g].user, run[g].bucket>>
<1>1. run[g] # Rest /\ k \in Keys /\ run[g] \in Working /\ k[2] \in Buckets
  BY AtWork, WorkingParts DEF Keys
<1>2. PICK r \in Working : run'[g] = r /\ r = [pc |-> "refuse", user |-> r.user, bucket |-> r.bucket, at |-> r.at]
  <2>1. run'[g] \in [pc : {"check", "ask", "refuse", "tap"}, user : Users, bucket : Buckets, at : 0 .. now'] \cup {Rest}
    BY NextTypes DEF TypeOK, Working
  <2>2. run'[g] # run[g] /\ run'[g] # Rest
    BY DEF Rest
  <2>3. now' = now
    <3>1. ~ Pass /\ ~ UNCHANGED vars
      BY <2>2 DEF Pass, vars
    <3> QED BY <3>1 DEF Next, Arrive, Check, Ask, Refuse, Tap
  <2> QED BY <2>1, <2>2, <2>3 DEF Working
<1>3. Level(<<r.user, r.bucket>>) < Minute /\ run'[g] # run[g]
  <2>1. r.user \in Users /\ r.bucket \in Buckets /\ r.at \in 0 .. now
    BY DEF Working
  <2>2. run'[g] # run[g]
    OBVIOUS
  <2>3. r.at \in 0 .. now'
    <3>1. now' = now \/ now' = now + 1
      BY DEF Next, Pass, vars, Arrive, Check, Ask, Refuse, Tap
    <3> QED BY <2>1, <3>1 DEF TypeOK
  <2> QED BY <1>2, <2>1, <2>2, <2>3, RefusesAfter
<1>4. r.user = run[g].user /\ r.bucket = run[g].bucket
  <2>1. ~ Pass /\ ~ UNCHANGED vars
    BY DEF Pass, vars
  <2>2. PICK h \in Updates : Arrive(h) \/ Check(h) \/ Ask(h) \/ Refuse(h) \/ Tap(h)
    BY <2>1 DEF Next
  <2>3. g = h
    <3>1. \E s : run' = [run EXCEPT ![h] = s]
      <4>1. Arrive(h) => \E s : run' = [run EXCEPT ![h] = s]
        BY ArriveTypes
      <4>2. Check(h) \/ Refuse(h) \/ Tap(h) => \E s : run' = [run EXCEPT ![h] = s]
        BY CheckEffect, RefuseEffect, TapEffect
      <4>3. Ask(h) => \E s : run' = [run EXCEPT ![h] = s]
        <5>1. SUFFICES ASSUME Ask(h) PROVE \E s : run' = [run EXCEPT ![h] = s] OBVIOUS
        <5>2. PICK j : AskLeaves(h, j)
          BY <5>1, AskEffect
        <5> QED BY <5>2 DEF AskLeaves
      <4> QED BY <2>2, <4>1, <4>2, <4>3
    <3> QED BY <3>1 DEF TypeOK
  <2>4. Ask(g)
    <3>1. ~(Arrive(g) \/ Check(g) \/ Refuse(g) \/ Tap(g))
      BY DEF Arrive, Check, Refuse, Tap, Rest
    <3> QED BY <2>2, <2>3, <3>1
  <2>5. PICK j : AskLeaves(g, j)
    BY <2>4, AskEffect
  <2>6. run'[g] \in {[run[g] EXCEPT !.pc = "tap"], Rest, [run[g] EXCEPT !.pc = "refuse"]}
    BY <2>5 DEF AskLeaves, TypeOK
  <2>7. Rest.pc = "idle"
    BY DEF Rest
  <2> QED BY <1>1, <1>2, <2>6, <2>7, TurnsTo
<1>5. Level(k) < Minute
  BY <1>3, <1>4
<1> HIDE DEF k
<1>6. buckets[k] # None
  BY <1>1, <1>5, Parameters DEF Level
<1>7. PICK d \in Nat : d = now - buckets[k].last
  BY <1>1, <1>6, LevelType DEF TypeOK
<1>8. PICK r2 \in Nat : r2 = Rate[k[2]]
  BY <1>1, Parameters
<1>9. d * r2 < Minute
  <2>1. Level(k) = Least(Full(k[2]), buckets[k].tokens + d * r2) /\ buckets[k].tokens \in Nat
    BY <1>1, <1>6, <1>7, <1>8, LevelType DEF Level
  <2>2. d * r2 \in Nat /\ Full(k[2]) \in Nat /\ Full(k[2]) >= Minute /\ Minute \in Nat
    BY <1>1, Parameters
  <2> QED BY <1>5, <2>1, <2>2 DEF Least
<1>10. Silence * r2 >= Minute /\ Silence \in Nat /\ Minute \in Nat
  BY <1>1, <1>8, Parameters
<1>11. d >= Silence => d * r2 >= Silence * r2
  BY <1>10
<1>12. d < Silence
  BY <1>9, <1>10, <1>11
<1> QED BY <1>6, <1>7, <1>12 DEF k

\* A user who has waited out a silence is heard.
THEOREM SilenceEnds == Spec => HeardAfterSilence
<1>1. GateInv => TypeOK
  BY DEF GateInv
<1>2. TypeOK /\ [Next]_vars =>
        [\A g \in Updates : run[g].pc = "ask" /\ run'[g].pc = "refuse" =>
           LET k == <<run[g].user, run[g].bucket>>
           IN  buckets[k] # None /\ now - buckets[k].last < Silence]_vars
  BY RefusedSoon
<1> QED BY <1>1, <1>2, GateStaysAccounted, PTL DEF Spec, HeardAfterSilence


-----------------------------------------------------------------------------
(* The limiter that forgets nothing *)

\* What the limiter sees.
Levels == [k \in Users \X Buckets |-> Level(k)]
Quiets == [u \in Users |-> Quiet(u)]

\* How long a silence has yet to run.
LEMMA QuietType ==
  ASSUME TypeOK, NEW u \in Users
  PROVE  /\ Quiet(u) \in Nat
         /\ Quiet(u) > 0 => /\ Quiet(u) = until[u] - now /\ until[u] > now
                            /\ \E s \in 0 .. now : until[u] = s + Silence
<1>1. until[u] \in Nat \cup {None} /\ now \in Nat /\ None \notin Nat
  BY Parameters DEF TypeOK
<1>2. CASE until[u] # None /\ until[u] > now
  <2>1. \E s \in 0 .. now : until[u] = s + Silence
    BY <1>2 DEF TypeOK
  <2>2. Quiet(u) = until[u] - now
    BY <1>2 DEF Quiet
  <2> QED BY <1>1, <1>2, <2>1, <2>2
<1>3. CASE ~(until[u] # None /\ until[u] > now)
  BY <1>3 DEF Quiet
<1> QED BY <1>2, <1>3

\* Where the limiter sees no difference, the step is none of its own.
LEMMA SeesNothing ==
  ASSUME \A k \in Keys : Level(k)' = Level(k), \A u \in Users : Quiet(u)' = Quiet(u)
  PROVE  UNCHANGED <<Levels, Quiets>>
BY DEF Levels, Quiets, Keys

\* The maps start as the limiter does.
LEMMA InitLimits == Init => L!Init
<1> SUFFICES ASSUME Init PROVE L!Init OBVIOUS
<1>1. \A k \in Users \X Buckets : Level(k) = L!Full(k[2])
  BY DEF Init, Level, Full, L!Full
<1>2. \A u \in Users : Quiet(u) = 0
  BY DEF Init, Quiet
<1> QED BY <1>1, <1>2 DEF L!Init

\* Asking takes a token of the limiter's, or is nothing to it.
LEMMA AskLimits ==
  ASSUME TypeOK, NEW g \in Updates, Ask(g)
  PROVE  [L!Next]_<<Levels, Quiets>>
<1>1. PICK k : AskLeaves(g, k)
  BY AskEffect
<1>2. k \in Keys /\ \A j \in Keys \ {k} : Level(j)' = Level(j)
  BY <1>1 DEF AskLeaves
<1>3. \A u \in Users : Quiet(u)' = Quiet(u)
  BY DEF Ask, Quiet
<1>4. CASE Level(k)' = Level(k)
  <2>1. \A j \in Keys : Level(j)' = Level(j)
    BY <1>2, <1>4
  <2> QED BY <1>3, <2>1, SeesNothing
<1>5. CASE Level(k) >= Minute /\ Level(k)' = Level(k) - Minute
  <2>1. PICK u \in Users, b \in Buckets : k = <<u, b>>
    BY <1>2 DEF Keys
  <2>2. Levels[<<u, b>>] >= Minute
    BY <1>5, <2>1 DEF Levels
  <2>3. Levels' = [Levels EXCEPT ![<<u, b>>] = @ - Minute]
    BY <1>2, <1>5, <2>1 DEF Levels, Keys
  <2>4. Quiets' = Quiets
    BY <1>3 DEF Quiets
  <2>5. L!Take(u, b)
    BY <2>2, <2>3, <2>4 DEF L!Take, Levels, Quiets
  <2> QED BY <2>5 DEF L!Next
<1> QED BY <1>1, <1>4, <1>5 DEF AskLeaves


\* Neither coming in, nor tapping, nor ending a silence that is over is seen by the
\* limiter.
LEMMA UnseenSteps ==
  ASSUME TypeOK, NEW g \in Updates, Arrive(g) \/ Check(g) \/ Tap(g)
  PROVE  UNCHANGED <<Levels, Quiets>>
<1>1. UNCHANGED <<now, buckets>>
  BY DEF Arrive, Check, Tap
<1>2. \A u \in Users : until'[u] = until[u] \/ (until'[u] = None /\ until[u] <= now)
  <2>1. Arrive(g) \/ Tap(g) => UNCHANGED until
    BY DEF Arrive, Tap
  <2> QED BY <2>1, CheckEffect
<1>3. ASSUME NEW u \in Users PROVE Quiet(u)' = Quiet(u)
  <2>1. until[u] \in Nat \cup {None} /\ now \in Nat /\ None \notin Nat
    BY Parameters DEF TypeOK
  <2>2. CASE until'[u] = until[u]
    BY <1>1, <2>2 DEF Quiet
  <2>3. CASE until'[u] = None /\ until[u] <= now
    <3>1. Quiet(u)' = 0
      BY <2>3 DEF Quiet
    <3>2. ~(until[u] # None /\ until[u] > now)
      BY <2>1, <2>3
    <3> QED BY <3>1, <3>2 DEF Quiet
  <2> QED BY <1>2, <2>2, <2>3
<1> QED BY <1>1, <1>3, SameLevels, SeesNothing

\* To silence who has used up a bucket, from when the update came in, is the limiter's
\* silence; so is to cut one short by an older refusal.
LEMMA RefuseLimits ==
  ASSUME TypeOK, SilencedForCause, [Next]_vars, NEW g \in Updates, Refuse(g)
  PROVE  [L!Next]_<<Levels, Quiets>>
<1>1. /\ run[g] # Rest /\ run[g].pc = "refuse" /\ UNCHANGED <<now, buckets>>
      /\ until' = [until EXCEPT ![run[g].user] = run[g].at + Silence]
  BY RefuseEffect
<1>2. PICK u \in Users, b \in Buckets, at \in 0 .. now :
        run[g] = [pc |-> "refuse", user |-> u, bucket |-> b, at |-> at]
  <2>1. run[g] \in Working
    BY <1>1, WorkingParts
  <2> QED BY <1>1, <2>1 DEF Working
<1>3. until' = [until EXCEPT ![u] = at + Silence] /\ until'[u] = at + Silence
  BY <1>1, <1>2 DEF TypeOK
<1>4. now \in Nat /\ Silence \in Nat /\ Minute \in Nat /\ None \notin Nat /\ Rate[b] \in Nat
  BY Parameters DEF TypeOK
<1>5. \A w \in Users \ {u} : Quiet(w)' = Quiet(w)
  BY <1>1, <1>3 DEF Quiet, TypeOK
<1>6. Levels' = Levels
  BY <1>1, SameLevels DEF Levels, Keys
<1>7. Quiets' = [Quiets EXCEPT ![u] = Quiet(u)']
  BY <1>5 DEF Quiets
<1>8. CASE at + Silence > now
  <2>1. Quiet(u)' = (at + Silence) - now
    <3>1. PICK e \in Nat : e = at + Silence /\ until'[u] = e
      BY <1>3, <1>4
    <3>2. now' = now /\ e # None /\ e > now
      BY <1>1, <1>4, <1>8, <3>1
    <3>3. Quiet(u)' = e - now
      BY <3>1, <3>2 DEF Quiet
    <3> QED BY <3>1, <3>3
  <2>2. (at + Silence) - now \in 0 .. Silence /\ Silence - ((at + Silence) - now) = now - at
    BY <1>4, <1>8
  <2>3. Levels[<<u, b>>] < Minute + Rate[b] * (now - at)
    BY <1>2 DEF SilencedForCause, Drained, Levels
  <2>4. Levels[<<u, b>>] < Minute + Rate[b] * (Silence - Quiet(u)')
    BY <2>1, <2>2, <2>3
  <2>5. PICK rest \in 0 .. Silence : rest = Quiet(u)'
    BY <2>1, <2>2
  <2>6. L!Quiet(u, b)
    BY <1>6, <1>7, <2>4, <2>5 DEF L!Quiet, Levels, Quiets
  <2> QED BY <2>6 DEF L!Next
<1>9. CASE ~(at + Silence > now)
  <2>1. Quiet(u)' = 0
    BY <1>1, <1>3, <1>9 DEF Quiet
  <2>2. CASE Quiet(u) = 0
    <3>1. Quiets' = Quiets
      BY <1>5, <2>1, <2>2 DEF Quiets
    <3> QED BY <1>6, <3>1
  <2>3. CASE Quiet(u) > 0
    <3>1. PICK s \in 0 .. now : until[u] = s + Silence /\ until[u] > now
      BY <2>3, QuietType
    <3>2. PICK c \in Buckets : Drained(u, c, s)
      BY <3>1 DEF SilencedForCause
    <3>3. now - s <= Silence /\ now - s \in Nat /\ Rate[c] \in Nat
      BY <1>4, <3>1, Parameters
    <3>4. Rate[c] * (now - s) <= Rate[c] * Silence /\ Rate[c] * (now - s) \in Nat /\ Rate[c] * Silence \in Nat
      BY <1>4, <3>3
    <3>5. Level(<<u, c>>) \in Nat
      BY LevelType DEF Keys
    <3>6. Level(<<u, c>>) < Minute + Rate[c] * Silence
      BY <1>4, <3>2, <3>4, <3>5 DEF Drained
    <3>7. Levels[<<u, c>>] < Minute + Rate[c] * (Silence - 0)
      BY <1>4, <3>6 DEF Levels
    <3>8. 0 \in 0 .. Silence /\ Quiets' = [Quiets EXCEPT ![u] = 0]
      BY <1>4, <1>7, <2>1
    <3>9. L!Quiet(u, c)
      BY <1>6, <3>7, <3>8 DEF L!Quiet, Levels, Quiets
    <3> QED BY <3>9 DEF L!Next
  <2> QED BY <2>2, <2>3, QuietType
<1> QED BY <1>8, <1>9

\* Time passes for the limiter too.
LEMMA PassLimits == ASSUME TypeOK, Pass PROVE L!Pass
<1>1. now' = now + 1 /\ now \in Nat /\ UNCHANGED <<buckets, until>>
  BY DEF Pass, TypeOK
<1>2. \A k \in Keys : Level(k)' = Least(Full(k[2]), Level(k) + Rate[k[2]])
  BY <1>1, LevelLater
<1>3. ASSUME NEW u \in Users PROVE Quiet(u)' = IF Quiet(u) > 0 THEN Quiet(u) - 1 ELSE 0
  <2>1. until[u] \in Nat \cup {None} /\ None \notin Nat
    BY Parameters DEF TypeOK
  <2> QED BY <1>1, <2>1 DEF Quiet
<1>4. Levels' = [k \in Users \X Buckets |-> Least(Full(k[2]), Levels[k] + Rate[k[2]])]
  BY <1>2 DEF Levels, Keys
<1>5. Quiets' = [u \in Users |-> IF Quiets[u] > 0 THEN Quiets[u] - 1 ELSE 0]
  BY <1>3 DEF Quiets
<1>6. \A m, n : L!Least(m, n) = Least(m, n)
  BY DEF L!Least, Least
<1>7. \A b : L!Full(b) = Full(b)
  BY DEF L!Full, Full
<1> QED BY <1>4, <1>5, <1>6, <1>7 DEF L!Pass, Levels, Quiets

\* The maps, the sweeps and the goroutines between their checks and their answers
\* implement the limiter that forgets nothing, for any rates and windows.
THEOREM SweepsAreInvisible == Spec => ImplementsLimiter
<1>1. GateInv /\ [Next]_vars => [L!Next]_<<Levels, Quiets>>
  <2> SUFFICES ASSUME GateInv, [Next]_vars PROVE [L!Next]_<<Levels, Quiets>> OBVIOUS
  <2>1. TypeOK /\ SilencedForCause
    BY DEF GateInv
  <2>2. CASE Pass
    BY <2>1, <2>2, PassLimits DEF L!Next
  <2>3. ASSUME NEW g \in Updates, Arrive(g) \/ Check(g) \/ Ask(g) \/ Refuse(g) \/ Tap(g)
        PROVE  [L!Next]_<<Levels, Quiets>>
    BY <2>1, <2>3, UnseenSteps, AskLimits, RefuseLimits
  <2>4. CASE UNCHANGED vars
    <3>1. UNCHANGED <<now, buckets, until>>
      BY <2>4 DEF vars
    <3>2. \A u \in Users : Quiet(u)' = Quiet(u)
      BY <3>1 DEF Quiet
    <3> QED BY <3>1, <3>2, SameLevels, SeesNothing
  <2> QED BY <2>2, <2>3, <2>4 DEF Next
<1>2. GateInv /\ [Next]_vars =>
        [L!Next]_<<[k \in Users \X Buckets |-> Level(k)], [u \in Users |-> Quiet(u)]>>
  BY <1>1 DEF Levels, Quiets
<1> QED BY <1>2, InitLimits, GateStaysAccounted, PTL DEF Spec, ImplementsLimiter, L!Spec
=============================================================================
