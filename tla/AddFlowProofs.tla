--------------------------- MODULE AddFlowProofs ---------------------------
(***************************************************************************)
(* Proofs about AddFlow, for any number of overlapping updates and         *)
(* conversations.  The first invariant is the state's form together with   *)
(* StepsFit; the count of the inserts under way gives the limit, and       *)
(* OneAtATime, what a conversation without overlap has in hand, gives what *)
(* is saved.                                                               *)
(***************************************************************************)
EXTENDS AddFlow, FiniteSetTheorems, TLAPS

\* The form of the store when n events are saved and f is the conversation.
StoreFit(s, n, f) ==
  /\ s \in [state : States \cup {NoState}, data : [DataKeys -> Int]]
  /\ \A k \in DataKeys \ {"event"} : s.data[k] \in Token
  /\ s.data["event"] \in 0 .. n
  /\ s.state \notin {NoState, "search"} => f > 0

Task == [kind : Kinds, pc : Pcs, flow : 0 .. MaxFlows, id : Int, row : Row]

\* The form of what a goroutine is at.
TaskFit(r, n, f) ==
  /\ r \in {Idle} \cup Task
  /\ IF r.pc \in {"clear", "note"} THEN r.id \in 0 .. n
     ELSE r.id \in (IF r.pc = "offer" THEN Token ELSE {0})
  /\ r # Idle =>
       /\ IF r.kind = "query" THEN r.pc = "clear" /\ r.id = 0 ELSE r.flow \in 1 .. f
       /\ r.pc = "store" => r.kind \in Storing
       /\ r.pc = "move" => r.kind \in DOMAIN To

Saved == [row : Row, flow : 1 .. MaxFlows, raced : BOOLEAN]

\* The first invariant, part by part.
FormInv ==
  /\ StoreFit(store, Len(events), flow)
  /\ run \in [Updates -> {Idle} \cup Task] /\ \A g \in Updates : TaskFit(run[g], Len(events), flow)
  /\ events \in Seq(Saved)
  /\ flow \in 0 .. MaxFlows /\ over \in BOOLEAN /\ raced \in BOOLEAN

\* The parts are the type invariant and StepsFit.
LEMMA FormIs == FormInv => TypeOK /\ StepsFit
<1> SUFFICES ASSUME FormInv PROVE TypeOK /\ StepsFit
  OBVIOUS
<1>1. TypeOK
  BY DEF TypeOK, FormInv, StoreFit, TaskFit, Task, Saved
<1>2. StepsFit
  BY DEF StepsFit, FormInv, StoreFit, TaskFit, Busy
<1> QED BY <1>1, <1>2

-----------------------------------------------------------------------------
(* The operations of the store *)

\* A state is set.
LEMMA SetFit ==
  ASSUME NEW n \in Nat, NEW f \in Nat, StoreFit(store, n, f), NEW s \in States,
         s # "search" => f > 0, SetState(s)
  PROVE  StoreFit(store', n, f) /\ store'.state = s /\ store'.data = store.data
BY AddFlowAssumption DEF StoreFit, SetState

\* Values are added.
LEMMA UpdateFit ==
  ASSUME NEW n \in Nat, NEW f \in Nat, StoreFit(store, n, f),
         NEW K \in SUBSET DataKeys, NEW v \in Int, UpdateData(K, v),
         "event" \in K => K = {"event"} /\ v \in 0 .. n,
         "event" \notin K => v \in Token
  PROVE  /\ StoreFit(store', n, f) /\ store'.state = store.state
         /\ \A k \in DataKeys : store'.data[k] = IF k \in K THEN v ELSE store.data[k]
<1>1. store' = [store EXCEPT !.data = [k \in DataKeys |-> IF k \in K THEN v ELSE store.data[k]]]
  BY DEF UpdateData
<1>2. [k \in DataKeys |-> IF k \in K THEN v ELSE store.data[k]] \in [DataKeys -> Int]
  BY DEF StoreFit
<1>3. /\ store' \in [state : States \cup {NoState}, data : [DataKeys -> Int]]
      /\ store'.state = store.state
      /\ store'.data = [k \in DataKeys |-> IF k \in K THEN v ELSE store.data[k]]
  BY <1>1, <1>2 DEF StoreFit
<1>4. \A k \in DataKeys : store'.data[k] = IF k \in K THEN v ELSE store.data[k]
  BY <1>3
<1>5. \A k \in DataKeys \ {"event"} : store'.data[k] \in Token
  BY <1>4 DEF StoreFit
<1>6. store'.data["event"] \in 0 .. n
  BY <1>4, AddFlowAssumption DEF StoreFit
<1> QED BY <1>3, <1>4, <1>5, <1>6 DEF StoreFit

\* One value the user gave is stored.
LEMMA UpdateOne ==
  ASSUME NEW n \in Nat, NEW f \in Nat, StoreFit(store, n, f),
         NEW key \in DataKeys \ {"event"}, NEW v \in Token, UpdateData({key}, v)
  PROVE  /\ StoreFit(store', n, f) /\ store'.state = store.state
         /\ \A k \in DataKeys : store'.data[k] = IF k = key THEN v ELSE store.data[k]
<1>1. {key} \in SUBSET DataKeys /\ "event" \notin {key} /\ v \in Int
  BY AddFlowAssumption DEF Token
<1>2. /\ StoreFit(store', n, f) /\ store'.state = store.state
      /\ \A k \in DataKeys : store'.data[k] = IF k \in {key} THEN v ELSE store.data[k]
  BY <1>1, UpdateFit
<1> QED BY <1>2

\* The id of the saved event is stored.
LEMMA UpdateId ==
  ASSUME NEW n \in Nat, NEW f \in Nat, StoreFit(store, n, f),
         NEW v \in 0 .. n, UpdateData({"event"}, v)
  PROVE  /\ StoreFit(store', n, f) /\ store'.state = store.state
         /\ \A k \in DataKeys \ {"event"} : store'.data[k] = store.data[k]
<1>1. {"event"} \in SUBSET DataKeys /\ "event" \in {"event"} /\ v \in Int
  BY AddFlowAssumption
<1>2. /\ StoreFit(store', n, f) /\ store'.state = store.state
      /\ \A k \in DataKeys : store'.data[k] = IF k \in {"event"} THEN v ELSE store.data[k]
  BY <1>1, UpdateFit
<1> QED BY <1>2

\* All is forgotten.
LEMMA ClearFit ==
  ASSUME NEW n \in Nat, NEW f \in Nat, store' = Empty
  PROVE  StoreFit(store', n, f) /\ store'.state = NoState
<1>1. /\ store' \in [state : {NoState}, data : [DataKeys -> {0}]]
      /\ \A k \in DataKeys : store'.data[k] = 0
  BY DEF Empty
<1> QED BY <1>1, AddFlowAssumption DEF StoreFit, Token

-----------------------------------------------------------------------------
(* Steps of one goroutine *)

\* It goes on, and the store and the events are as they should be after it.
LEMMA Onward ==
  ASSUME FormInv, NEW g \in Updates, NEW r, run' = [run EXCEPT ![g] = r],
         TaskFit(r, Len(events'), flow), UNCHANGED <<events, flow, raced>>, over' \in BOOLEAN,
         StoreFit(store', Len(events), flow)
  PROVE  FormInv'
<1>1. r \in {Idle} \cup Task
  BY DEF TaskFit
<1>2. run' \in [Updates -> {Idle} \cup Task] /\ \A h \in Updates : run'[h] = IF h = g THEN r ELSE run[h]
  BY <1>1 DEF FormInv
<1>3. \A h \in Updates : TaskFit(run'[h], Len(events'), flow)
  BY <1>2 DEF FormInv
<1> QED BY <1>2, <1>3 DEF FormInv

\* What is known of a goroutine that is not idle.
LEMMA AtStep ==
  ASSUME FormInv, NEW g \in Updates, run[g].pc # "idle"
  PROVE  /\ run[g] \in Task /\ run[g] # Idle /\ TaskFit(run[g], Len(events), flow)
         /\ Len(events) \in Nat /\ flow \in Nat /\ MaxFlows \in Nat
         /\ StoreFit(store, Len(events), flow)
BY AddFlowAssumption DEF FormInv, TaskFit, Task, Idle

\* The next step and an id do not disturb the rest of a task.
TaskAt(t, pc, id) == [t EXCEPT !.pc = pc, !.id = id]

LEMMA TaskWith ==
  ASSUME NEW t \in Task, NEW pc \in Pcs, NEW id \in Int
  PROVE  /\ TaskAt(t, pc, id) \in Task /\ TaskAt(t, pc, id).pc = pc /\ TaskAt(t, pc, id).id = id
         /\ TaskAt(t, pc, id).kind = t.kind /\ TaskAt(t, pc, id).flow = t.flow
         /\ TaskAt(t, pc, id).row = t.row
BY DEF Task, TaskAt

\* An idle goroutine is well formed.
LEMMA IdleFit == ASSUME NEW n \in Nat, NEW f PROVE TaskFit(Idle, n, f)
BY DEF TaskFit, Idle

\* The states asked for and led to are states, and storing steps are not searches.
LEMMA Tables ==
  /\ \A k \in Kinds : From[k] \in States
  /\ \A k \in DOMAIN To : k \in Kinds /\ k # "query" /\ To[k] \in States \ {"search"}
  /\ Storing \subseteq Kinds /\ "query" \notin Storing /\ "year" \in Storing
  /\ Storing \ {"year"} \subseteq DOMAIN To
  /\ Storing \subseteq DataKeys /\ "event" \notin Storing
  /\ From["query"] = "search" /\ \A k \in Kinds \ {"query"} : From[k] # "search"
  /\ \A k \in Kinds : /\ First(k) \in Pcs \ {"note", "offer", "insert", "count"}
                      /\ First(k) = "store" => k \in Storing
                      /\ First(k) = "move" => k \in DOMAIN To
                      /\ First(k) = "clear" => k = "query"
                      /\ k = "query" => First(k) = "clear"
BY AddFlowAssumption DEF Kinds, From, To, States, Storing, First, Final, Pcs

-----------------------------------------------------------------------------
(* The form of the state, action by action *)

\* Nothing has happened.
LEMMA InitForm == Init => FormInv
<1> SUFFICES ASSUME Init PROVE FormInv
  OBVIOUS
<1>1. StoreFit(store, 0, 0)
  BY AddFlowAssumption DEF Init, Empty, StoreFit, Token
<1>2. run \in [Updates -> {Idle} \cup Task] /\ \A g \in Updates : TaskFit(run[g], 0, 0)
  BY IdleFit DEF Init
<1>3. events \in Seq(Saved) /\ Len(events) = 0
  BY DEF Init
<1>4. flow = 0 /\ 0 \in 0 .. MaxFlows
  BY AddFlowAssumption DEF Init
<1>5. over \in BOOLEAN /\ raced \in BOOLEAN
  BY DEF Init
<1> QED BY <1>1, <1>2, <1>3, <1>4, <1>5 DEF FormInv

\* The row an answer starts from, and that tokens stay tokens.
LEMMA GivenRow ==
  ASSUME FormInv, NEW kind \in Kinds
  PROVE  Given(kind) \in Row
BY AddFlowAssumption DEF FormInv, Given, Row, Token

\* Answers.
LEMMA AnswerForm ==
  ASSUME FormInv, NEW g \in Updates, NEW kind \in Kinds, Answer(g, kind)
  PROVE  FormInv'
<1> DEFINE r == [kind |-> kind, pc |-> First(kind), flow |-> flow, id |-> 0, row |-> Given(kind)]
<1>1. r \in Task
  BY Tables, GivenRow DEF Task, FormInv
<1>2. kind # "query" => flow > 0
  BY Tables, AddFlowAssumption DEF Answer, FormInv, StoreFit, GetState
<1>3. TaskFit(r, Len(events), flow)
  BY <1>1, <1>2, Tables DEF TaskFit, FormInv
<1>4. run' = [run EXCEPT ![g] = r] /\ UNCHANGED <<store, events, flow, over>> /\ raced' \in BOOLEAN
  BY DEF Answer, FormInv
<1> HIDE DEF r
<1>5. run' \in [Updates -> {Idle} \cup Task] /\ \A h \in Updates : TaskFit(run'[h], Len(events), flow)
  BY <1>1, <1>3, <1>4 DEF FormInv
<1> QED BY <1>4, <1>5 DEF FormInv

\* Steps at the store that end with the goroutine's return.
LEMMA ReturnForm ==
  ASSUME FormInv, NEW g \in Updates, Return(g), UNCHANGED <<events, flow, raced>>,
         over' \in BOOLEAN, StoreFit(store', Len(events), flow)
  PROVE  FormInv'
BY IdleFit, Onward DEF Return, FormInv

\* Storing what was given.
LEMMA StoreForm ==
  ASSUME FormInv, NEW g \in Updates, AskAdar(g) \/ Store(g) \/ Move(g)
  PROVE  FormInv'
<1>1. run[g] \in Task /\ run[g] # Idle /\ TaskFit(run[g], Len(events), flow) /\ run[g].pc # "idle"
      /\ Len(events) \in Nat /\ flow \in Nat /\ StoreFit(store, Len(events), flow)
  BY AtStep DEF AskAdar, Store, Move, At
<1>2. run[g].flow \in Token /\ run[g].flow \in Int
  BY <1>1, AddFlowAssumption DEF Task, Token
<1>3. CASE AskAdar(g)
  <2>1. StoreFit(store', Len(events), flow)
    BY <1>1, <1>2, <1>3, UpdateOne, AddFlowAssumption DEF AskAdar
  <2> QED BY <1>3, <2>1, ReturnForm DEF AskAdar, FormInv
<1>4. CASE Store(g)
  <2>1. run[g].kind \in Storing
    BY <1>1, <1>4 DEF TaskFit, Store, At
  <2>2. StoreFit(store', Len(events), flow)
    BY <1>1, <1>2, <1>4, <2>1, UpdateOne, Tables DEF Store
  <2> DEFINE r == [run[g] EXCEPT !.pc = IF run[g].kind = "year" THEN "civil" ELSE "move"]
  <2>3. r \in Task /\ r.kind = run[g].kind /\ r.id = run[g].id /\ r.flow = run[g].flow
        /\ r.pc = IF run[g].kind = "year" THEN "civil" ELSE "move"
    BY <1>1 DEF Task, Pcs
  <2>4. TaskFit(r, Len(events), flow)
    BY <1>1, <1>4, <2>1, <2>3, Tables DEF TaskFit, Store, At
  <2>5. run' = [run EXCEPT ![g] = r]
    BY <1>4 DEF Store, Goto, FormInv
  <2> HIDE DEF r
  <2> QED BY <1>4, <2>2, <2>4, <2>5, Onward DEF Store, FormInv
<1>5. CASE Move(g)
  <2>1. run[g].kind \in DOMAIN To /\ flow > 0
    BY <1>1, <1>5, Tables DEF TaskFit, Move, At
  <2>2. StoreFit(store', Len(events), flow)
    BY <1>1, <1>5, <2>1, SetFit, Tables DEF Move
  <2> QED BY <1>5, <2>2, ReturnForm DEF Move, FormInv
<1> QED BY <1>3, <1>4, <1>5

\* The civil date of a Hebrew birthday, and what is asked next.
LEMMA CivilForm ==
  ASSUME FormInv, NEW g \in Updates, Civil(g) \/ Offer(g) \/ Prompt(g)
  PROVE  FormInv'
<1>1. run[g] \in Task /\ run[g] # Idle /\ TaskFit(run[g], Len(events), flow) /\ run[g].pc # "idle"
      /\ Len(events) \in Nat /\ flow \in Nat /\ StoreFit(store, Len(events), flow)
  BY AtStep DEF Civil, Offer, Prompt, At
<1>2. run[g].kind # "query" /\ flow > 0
  <2>1. run[g].pc # "clear"
    BY DEF Civil, Offer, Prompt, At
  <2> QED BY <1>1, <2>1 DEF TaskFit
<1>3. CASE Civil(g)
  <2> DEFINE id == IF {GetData("month"), GetData("day")} = {run[g].flow} THEN run[g].flow ELSE -1
             offer == [run[g] EXCEPT !.pc = "offer", !.id = id]
             prompt == [run[g] EXCEPT !.pc = "prompt"]
  <2>1. id \in Token /\ id \in Int
    <3>1. run[g].flow \in Token /\ -1 \in Token /\ Token \subseteq Int
      BY <1>1, AddFlowAssumption DEF Task, Token
    <3> QED BY <3>1
  <2> HIDE DEF id
  <2>2. TaskFit(offer, Len(events), flow) /\ TaskFit(prompt, Len(events), flow)
    <3>1. /\ offer \in Task /\ offer.pc = "offer" /\ offer.id = id /\ offer.kind = run[g].kind
          /\ offer.flow = run[g].flow
      BY <1>1, <2>1 DEF Task, Pcs
    <3>2. /\ prompt \in Task /\ prompt.pc = "prompt" /\ prompt.id = run[g].id
          /\ prompt.kind = run[g].kind /\ prompt.flow = run[g].flow
      BY <1>1 DEF Task, Pcs
    <3>3. run[g].id = 0
      BY <1>1, <1>3 DEF TaskFit, Civil, At
    <3> HIDE DEF offer, prompt
    <3> QED BY <1>1, <1>2, <2>1, <3>1, <3>2, <3>3 DEF TaskFit
  <2>3. run' = [run EXCEPT ![g] = offer] \/ run' = [run EXCEPT ![g] = prompt]
    BY <1>3 DEF Civil, Goto, FormInv, id
  <2> HIDE DEF offer, prompt
  <2> QED BY <1>1, <1>3, <2>2, <2>3, Onward DEF Civil, FormInv
<1>4. CASE Offer(g)
  <2> DEFINE r == TaskAt(run[g], "confirm", 0)
  <2>1. StoreFit(store', Len(events), flow)
    <3>1. run[g].id \in Token
      BY <1>1, <1>4 DEF TaskFit, Offer, At
    <3> QED BY <1>1, <1>4, <3>1, UpdateOne, AddFlowAssumption DEF Offer
  <2>2. TaskFit(r, Len(events), flow)
    <3>0. "confirm" \in Pcs /\ run[g] \in Task /\ 0 \in Int
      BY <1>1 DEF Pcs
    <3>1. /\ r \in Task /\ r.pc = "confirm" /\ r.id = 0 /\ r.kind = run[g].kind
          /\ r.flow = run[g].flow
      BY <3>0, TaskWith
    <3>2. r # Idle /\ r.kind # "query" /\ r.flow \in 1 .. flow /\ 0 \in 0 .. Len(events)
      BY <1>1, <1>2, <3>1 DEF TaskFit, Task, Idle, Pcs
    <3> HIDE DEF r
    <3> QED BY <3>1, <3>2 DEF TaskFit
  <2>3. run' = [run EXCEPT ![g] = r]
    BY <1>4 DEF Offer, FormInv, TaskAt
  <2> HIDE DEF r
  <2> QED BY <1>4, <2>1, <2>2, <2>3, Onward DEF Offer, FormInv
<1>5. CASE Prompt(g)
  <2>1. (IF At(g, "confirm") THEN "auto" ELSE "sec_prompt") \in States \ {"search"}
    BY DEF States
  <2>2. StoreFit(store', Len(events), flow)
    BY <1>1, <1>2, <1>5, <2>1, SetFit DEF Prompt
  <2> QED BY <1>5, <2>2, ReturnForm DEF Prompt, FormInv
<1> QED BY <1>3, <1>4, <1>5

\* A step that only goes on, without an id, with some row.
LEMMA GoesOn ==
  ASSUME FormInv, NEW g \in Updates, NEW pc, NEW row \in Row,
         run[g].pc \notin {"idle", "offer", "clear", "note"}, run[g].kind # "query",
         pc \in Pcs \ {"store", "move", "offer", "note"},
         run' = [run EXCEPT ![g] = [run[g] EXCEPT !.row = row, !.pc = pc]],
         UNCHANGED <<store, events, flow, over, raced>>
  PROVE  FormInv'
<1>1. run[g] \in Task /\ run[g] # Idle /\ TaskFit(run[g], Len(events), flow)
      /\ Len(events) \in Nat /\ flow \in Nat /\ StoreFit(store, Len(events), flow)
  BY AtStep
<1> DEFINE r == [run[g] EXCEPT !.row = row, !.pc = pc]
<1>2. /\ r \in Task /\ r.pc = pc /\ r.id = run[g].id /\ r.kind = run[g].kind
      /\ r.flow = run[g].flow
  BY <1>1 DEF Task, Pcs
<1>3. run[g].id = 0 /\ 0 \in 0 .. Len(events)
  BY <1>1 DEF TaskFit
<1>4. run' = [run EXCEPT ![g] = r]
  OBVIOUS
<1> HIDE DEF r
<1>5. TaskFit(r, Len(events), flow)
  BY <1>1, <1>2, <1>3 DEF TaskFit
<1> QED BY <1>1, <1>4, <1>5, Onward DEF FormInv

\* Reading the fields of the event, and counting the events there are.
LEMMA ReadForm ==
  ASSUME FormInv, NEW g \in Updates, Second(g) \/ Fields(g) \/ Person(g) \/ Count(g)
  PROVE  FormInv'
<1>1. run[g] \in Task /\ run[g] # Idle /\ TaskFit(run[g], Len(events), flow)
      /\ run[g].pc \in {"second", "fields", "person", "count"}
      /\ Len(events) \in Nat /\ flow \in Nat /\ StoreFit(store, Len(events), flow)
  BY AtStep DEF Second, Fields, Person, Count, At
<1>2. run[g].kind # "query" /\ run[g].row \in Row /\ run[g].id = 0
  BY <1>1 DEF TaskFit, Task
<1>3. \A k \in {"name", "month", "day", "year", "auto"} : GetData(k) \in Token
  BY <1>1, AddFlowAssumption DEF StoreFit, GetData
<1>4. CASE Second(g)
  <2> DEFINE row == [run[g].row EXCEPT !.sec = GetData("auto")]
  <2>1. row \in Row
    BY <1>2, <1>3 DEF Row
  <2>2. run' = [run EXCEPT ![g] = [run[g] EXCEPT !.row = row, !.pc = "fields"]]
    BY <1>4 DEF Second, FormInv
  <2> HIDE DEF row
  <2> QED BY <1>1, <1>2, <1>4, <2>1, <2>2, GoesOn DEF Second, Pcs
<1>5. CASE Fields(g)
  <2> DEFINE row == [run[g].row EXCEPT !.month = GetData("month"), !.day = GetData("day"),
                                       !.year = GetData("year")]
  <2>1. row \in Row
    BY <1>2, <1>3 DEF Row
  <2>2. run' = [run EXCEPT ![g] = [run[g] EXCEPT !.row = row, !.pc = "person"]]
    BY <1>5 DEF Fields, FormInv
  <2> HIDE DEF row
  <2> QED BY <1>1, <1>2, <1>5, <2>1, <2>2, GoesOn DEF Fields, Pcs
<1>6. CASE Person(g)
  <2> DEFINE row == [run[g].row EXCEPT !.name = GetData("name")]
  <2>1. row \in Row
    BY <1>2, <1>3 DEF Row
  <2>2. run' = [run EXCEPT ![g] = [run[g] EXCEPT !.row = row, !.pc = "count"]]
    BY <1>6 DEF Person, FormInv
  <2> HIDE DEF row
  <2> QED BY <1>1, <1>2, <1>6, <2>1, <2>2, GoesOn DEF Person, Pcs
<1>7. CASE Count(g)
  <2> DEFINE pc == IF LimitReached THEN "clear" ELSE "insert"
  <2>1. pc \in {"clear", "insert"}
    OBVIOUS
  <2>2. run' = [run EXCEPT ![g] = [run[g] EXCEPT !.row = run[g].row, !.pc = pc]]
    BY <1>1, <1>7 DEF Count, Goto, FormInv, Task
  <2> HIDE DEF pc
  <2> QED BY <1>1, <1>2, <1>7, <2>1, <2>2, GoesOn DEF Count, Pcs
<1> QED BY <1>4, <1>5, <1>6, <1>7

\* The event is saved: an id more.
LEMMA InsertForm ==
  ASSUME FormInv, NEW g \in Updates, Insert(g)
  PROVE  FormInv' /\ Len(events') = Len(events) + 1
<1>1. run[g] \in Task /\ run[g] # Idle /\ TaskFit(run[g], Len(events), flow)
      /\ run[g].pc = "insert" /\ Len(events) \in Nat /\ flow \in Nat
      /\ flow \in 0 .. MaxFlows /\ raced \in BOOLEAN /\ events \in Seq(Saved)
      /\ StoreFit(store, Len(events), flow)
  BY AtStep DEF Insert, At, FormInv
<1>2. run[g].flow \in 1 .. flow /\ run[g].row \in Row /\ run[g].kind # "query"
  BY <1>1 DEF TaskFit, Task
<1> DEFINE e == [row |-> run[g].row, flow |-> run[g].flow, raced |-> raced]
<1>3. e \in Saved
  BY <1>1, <1>2, AddFlowAssumption DEF Saved
<1>4. events' = Append(events, e)
  BY DEF Insert
<1> HIDE DEF e
<1>5. events' \in Seq(Saved) /\ Len(events') = Len(events) + 1
  BY <1>1, <1>3, <1>4
<1>6. StoreFit(store', Len(events'), flow)
  BY <1>1, <1>5 DEF Insert, StoreFit
<1> DEFINE r == TaskAt(run[g], "clear", Len(events) + 1)
<1>7. run' = [run EXCEPT ![g] = r] \/ run' = [run EXCEPT ![g] = Idle]
  BY DEF Insert, Return, FormInv, TaskAt
<1>8. /\ r \in Task /\ r.pc = "clear" /\ r.id = Len(events) + 1 /\ r.kind = run[g].kind
      /\ r.flow = run[g].flow
  <2>1. "clear" \in Pcs /\ run[g] \in Task /\ Len(events) + 1 \in Int
    BY <1>1 DEF Pcs
  <2> QED BY <2>1, TaskWith
<1>9. TaskFit(r, Len(events'), flow) /\ TaskFit(Idle, Len(events'), flow)
  BY <1>1, <1>2, <1>5, <1>8, IdleFit DEF TaskFit
<1> HIDE DEF r
<1>10. \A h \in Updates : TaskFit(run[h], Len(events'), flow)
  BY <1>1, <1>5 DEF TaskFit, FormInv
<1>11. run' \in [Updates -> {Idle} \cup Task] /\ \A h \in Updates : TaskFit(run'[h], Len(events'), flow)
  BY <1>7, <1>8, <1>9, <1>10 DEF FormInv
<1>12. UNCHANGED <<flow, over, raced>>
  BY DEF Insert
<1> QED BY <1>1, <1>5, <1>6, <1>11, <1>12 DEF FormInv

\* The end of a conversation.
LEMMA EndForm ==
  ASSUME FormInv, NEW g \in Updates, Refused(g) \/ Finish(g) \/ Note(g)
  PROVE  FormInv'
<1>1. run[g] \in Task /\ run[g] # Idle /\ TaskFit(run[g], Len(events), flow) /\ run[g].pc # "idle"
      /\ Len(events) \in Nat /\ flow \in Nat /\ StoreFit(store, Len(events), flow)
  BY AtStep DEF Refused, Finish, Note, At
<1>2. CASE Refused(g)
  BY <1>1, <1>2, ReturnForm DEF Refused, FormInv
<1>3. CASE Finish(g)
  <2>1. StoreFit(store', Len(events), flow) /\ over' \in BOOLEAN
    BY <1>1, <1>3, ClearFit DEF Finish, Clear
  <2>2. CASE run[g].id = 0
    BY <1>3, <2>1, <2>2, ReturnForm DEF Finish
  <2>3. CASE run[g].id # 0
    <3> DEFINE r == [run[g] EXCEPT !.pc = "note"]
    <3>1. r \in Task /\ r.pc = "note" /\ r.id = run[g].id /\ r.kind = run[g].kind /\ r.flow = run[g].flow
      BY <1>1 DEF Task, Pcs
    <3>2. run[g].id \in 0 .. Len(events)
      BY <1>1, <1>3 DEF TaskFit, Finish, At
    <3>3. TaskFit(r, Len(events), flow)
      <4>1. run[g].kind # "query" /\ run[g].flow \in 1 .. flow
        BY <1>1, <2>3 DEF TaskFit
      <4> QED BY <1>1, <3>1, <3>2, <4>1 DEF TaskFit
    <3>4. run' = [run EXCEPT ![g] = r]
      BY <1>3, <2>3 DEF Finish, Goto, FormInv
    <3> HIDE DEF r
    <3> QED BY <1>3, <2>1, <3>3, <3>4, Onward DEF Finish
  <2> QED BY <2>2, <2>3
<1>4. CASE Note(g)
  <2>1. StoreFit(store', Len(events), flow)
    <3>1. run[g].id \in 0 .. Len(events) /\ run[g].id \in Int /\ {"event"} \in SUBSET DataKeys
      BY <1>1, <1>4, AddFlowAssumption DEF TaskFit, Note, At
    <3> QED BY <1>1, <1>4, <3>1, UpdateId DEF Note
  <2> QED BY <1>4, <2>1, ReturnForm DEF Note, FormInv
<1> QED BY <1>2, <1>3, <1>4

\* Updates that do not look at the state, and what makes the store forget.
LEMMA OutsideForm ==
  ASSUME FormInv, MenuAdd \/ MenuSearch \/ Cancel \/ Evict \/ Restart
  PROVE  FormInv'
<1>1. Len(events) \in Nat /\ flow \in 0 .. MaxFlows /\ flow \in Nat /\ MaxFlows \in Nat
      /\ StoreFit(store, Len(events), flow)
  BY AddFlowAssumption DEF FormInv
<1>2. CASE MenuAdd
  <2>1. flow' = flow + 1 /\ flow' \in 0 .. MaxFlows /\ flow' \in Nat
        /\ UNCHANGED <<run, events>>
    BY <1>1, <1>2 DEF MenuAdd
  <2>5. over' \in BOOLEAN /\ raced' \in BOOLEAN
    BY <1>2 DEF MenuAdd
  <2>2. StoreFit(store, Len(events), flow')
    BY <1>1, <2>1 DEF StoreFit
  <2>3. StoreFit(store', Len(events), flow')
    <3>1. "name" \in States /\ flow' > 0
      BY <1>1, <2>1 DEF States
    <3> QED BY <1>1, <1>2, <2>1, <2>2, <3>1, SetFit DEF MenuAdd
  <2>4. \A g \in Updates : TaskFit(run[g], Len(events), flow')
    BY <1>1, <2>1 DEF TaskFit, FormInv
  <2> QED BY <2>1, <2>3, <2>4, <2>5 DEF FormInv
<1>3. CASE MenuSearch
  <2>1. StoreFit(store', Len(events), flow)
    <3>1. "search" \in States
      BY DEF States
    <3> QED BY <1>1, <1>3, <3>1, SetFit DEF MenuSearch
  <2>2. UNCHANGED <<run, events, flow>> /\ over' \in BOOLEAN /\ raced' \in BOOLEAN
    BY <1>3 DEF MenuSearch
  <2> QED BY <2>1, <2>2 DEF FormInv
<1>4. CASE Cancel \/ Evict
  <2>1. StoreFit(store', Len(events), flow)
    BY <1>1, <1>4, ClearFit DEF Cancel, Evict, Clear
  <2>2. UNCHANGED <<run, events, flow>> /\ over' \in BOOLEAN
    BY <1>4 DEF Cancel, Evict
  <2>3. raced' \in BOOLEAN
    BY <1>4 DEF Cancel, Evict, FormInv
  <2> QED BY <2>1, <2>2, <2>3 DEF FormInv
<1>5. CASE Restart
  <2>1. StoreFit(store', Len(events), flow)
    BY <1>1, <1>5, ClearFit DEF Restart, Clear
  <2>2. UNCHANGED <<events, flow, raced>> /\ over' \in BOOLEAN
        /\ run' = [g \in Updates |-> Idle]
    BY <1>5 DEF Restart
  <2>3. run' \in [Updates -> {Idle} \cup Task] /\ \A g \in Updates : TaskFit(run'[g], Len(events), flow)
    BY <1>1, <2>2, IdleFit
  <2> QED BY <2>1, <2>2, <2>3 DEF FormInv
<1> QED BY <1>2, <1>3, <1>4, <1>5

\* Whoever acts, the state keeps its form.
LEMMA NextForm == ASSUME FormInv, [Next]_vars PROVE FormInv'
<1>1. CASE UNCHANGED vars
  BY <1>1 DEF vars, FormInv
<1>2. CASE MenuAdd \/ MenuSearch \/ Cancel \/ Evict \/ Restart
  BY <1>2, OutsideForm
<1>3. ASSUME NEW g \in Updates, Step(g) PROVE FormInv'
  BY <1>3, AnswerForm, StoreForm, CivilForm, ReadForm, InsertForm, EndForm DEF Step
<1> QED BY <1>1, <1>2, <1>3 DEF Next

\* The state is well formed: whatever two updates of the user leave in the store, the
\* event named there exists, and so does the one a handler is about to write there.
THEOREM AddFlowTyped == Spec => []TypeOK
<1>1. FormInv => TypeOK
  BY FormIs
<1> QED BY <1>1, InitForm, NextForm, PTL DEF Spec

-----------------------------------------------------------------------------
(* The limit *)

\* Of the updates under way, those about to insert.
LEMMA InsertersFinite ==
  /\ IsFiniteSet(Inserting) /\ Cardinality(Inserting) \in Nat
  /\ Cardinality(Inserting) <= Cardinality(Updates) /\ Cardinality(Updates) \in Nat
  /\ Cardinality(Updates) > 0
<1>1. IsFiniteSet(Updates) /\ Updates # {} /\ Inserting \subseteq Updates
  BY AddFlowAssumption DEF Inserting
<1> QED BY <1>1, FS_Subset, FS_CardinalityType, FS_EmptySet

\* Fewer of them, and no event more.
LEMMA NoMoreInserters ==
  ASSUME FormInv, FormInv', InsertsCounted, Inserting' \subseteq Inserting, Len(events') = Len(events)
  PROVE  InsertsCounted'
<1> DEFINE A == Inserting
           B == Inserting'
<1>1. IsFiniteSet(A) /\ B \subseteq A
  BY InsertersFinite
<1>2. Cardinality(B) <= Cardinality(A) /\ Cardinality(B) \in Nat
  <2> HIDE DEF A, B
  <2> QED BY <1>1, FS_Subset, FS_CardinalityType
<1>3. Len(events) \in Nat /\ Cap \in Nat
  BY AddFlowAssumption DEF FormInv
<1> QED BY <1>2, <1>3, InsertersFinite DEF InsertsCounted

\* A goroutine that is not about to insert after its step: the others are as they were.
LEMMA NotInserting ==
  ASSUME FormInv, NEW g \in Updates, NEW r, run' = [run EXCEPT ![g] = r], r.pc # "insert"
  PROVE  Inserting' = Inserting \ {g}
<1>1. \A h \in Updates : run'[h] = IF h = g THEN r ELSE run[h]
  BY DEF FormInv
<1> QED BY <1>1 DEF Inserting, At

\* An insert counts the event and is under way no more.
LEMMA InsertCounts ==
  ASSUME FormInv, InsertsCounted, NEW g \in Updates, Insert(g)
  PROVE  InsertsCounted'
<1> DEFINE r == TaskAt(run[g], "clear", Len(events) + 1)
<1>1. run[g].pc = "insert" /\ (run' = [run EXCEPT ![g] = r] \/ run' = [run EXCEPT ![g] = Idle])
  BY DEF Insert, Return, At, FormInv, TaskAt
<1>2. r.pc # "insert" /\ Idle.pc # "insert"
  <2>1. run[g] \in Task /\ "clear" \in Pcs /\ Len(events) + 1 \in Int
    BY <1>1, AtStep DEF Pcs
  <2>2. r.pc = "clear"
    BY <2>1, TaskWith
  <2> QED BY <2>2 DEF Idle
<1>3. Inserting' = Inserting \ {g} /\ g \in Inserting
  <2> HIDE DEF r
  <2> QED BY <1>1, <1>2, NotInserting DEF Inserting, At
<1>4. Cardinality(Inserting') = Cardinality(Inserting) - 1
  BY <1>3, InsertersFinite, FS_RemoveElement
<1>5. Len(events') = Len(events) + 1 /\ Len(events) \in Nat
  BY InsertForm DEF FormInv
<1> QED BY <1>4, <1>5, InsertersFinite, AddFlowAssumption DEF InsertsCounted

\* Who is let through to the insert found the limit not yet reached.
LEMMA CountCounts ==
  ASSUME FormInv, InsertsCounted, NEW g \in Updates, Count(g)
  PROVE  InsertsCounted'
<1>1. CASE LimitReached
  <2> DEFINE r == [run[g] EXCEPT !.pc = "clear"]
  <2>1. run' = [run EXCEPT ![g] = r] /\ r.pc # "insert"
    <3>1. run[g] \in Task
      BY AtStep DEF Count, At
    <3>2. r.pc = "clear"
      BY <3>1 DEF Task
    <3> QED BY <1>1, <3>2 DEF Count, Goto, FormInv
  <2>2. Inserting' = Inserting \ {g}
    <3> HIDE DEF r
    <3> QED BY <2>1, NotInserting
  <2> QED BY <2>2, NextForm, NoMoreInserters, ReadForm DEF Count
<1>2. CASE ~LimitReached
  <2> DEFINE B == Inserting'
             N == Cardinality(Updates)
  <2>1. IsFiniteSet(Updates) /\ B \subseteq Updates
    BY AddFlowAssumption DEF Inserting
  <2>2. Cardinality(B) <= N /\ Cardinality(B) \in Nat /\ N \in Nat
    <3> HIDE DEF B
    <3> QED BY <2>1, FS_Subset, FS_CardinalityType
  <2>3. Len(events') < Cap /\ Len(events') \in Nat /\ Cap \in Nat
    BY <1>2, AddFlowAssumption DEF LimitReached, Count, FormInv
  <2> HIDE DEF N
  <2> QED BY <2>2, <2>3 DEF InsertsCounted, N
<1> QED BY <1>1, <1>2

\* The other steps of a goroutine let nobody through.
LEMMA OtherCounts ==
  ASSUME FormInv, NEW g \in Updates, Step(g), ~Count(g), ~Insert(g)
  PROVE  Inserting' \subseteq Inserting /\ events' = events
<1>1. ASSUME NEW kind \in Kinds, Answer(g, kind)
      PROVE  Inserting' \subseteq Inserting /\ events' = events
  <2> DEFINE r == [kind |-> kind, pc |-> First(kind), flow |-> flow, id |-> 0, row |-> Given(kind)]
  <2>1. run' = [run EXCEPT ![g] = r] /\ r.pc # "insert" /\ events' = events
    BY <1>1, Tables DEF Answer
  <2> HIDE DEF r
  <2> QED BY <2>1, NotInserting
<1>2. ASSUME Return(g), events' = events
      PROVE  Inserting' \subseteq Inserting /\ events' = events
  <2>1. run' = [run EXCEPT ![g] = Idle] /\ Idle.pc # "insert"
    BY <1>2 DEF Return, Idle
  <2> QED BY <1>2, <2>1, NotInserting
<1>3. CASE Store(g) \/ Civil(g) \/ Offer(g) \/ Second(g) \/ Fields(g) \/ Person(g) \/ (Finish(g) /\ run[g].id # 0)
  <2>1. run[g] \in Task
    BY <1>3, AtStep DEF Store, Civil, Offer, Second, Fields, Person, Finish, At
  <2>2. run' \in [Updates -> {Idle} \cup Task] /\ events' = events
    <3>1. FormInv'
      BY <1>3, StoreForm, CivilForm, ReadForm, EndForm
    <3> QED BY <1>3, <3>1 DEF FormInv, Store, Civil, Offer, Second, Fields, Person, Finish
  <2>3. \A h \in Updates \ {g} : run'[h] = run[h]
    BY <1>3 DEF FormInv, Store, Civil, Offer, Second, Fields, Person, Finish, Goto
  <2>4. run'[g].pc # "insert"
    BY <1>3, <2>1 DEF FormInv, Store, Civil, Offer, Second, Fields, Person, Finish, Goto, Task
  <2> QED BY <2>2, <2>3, <2>4 DEF Inserting, At
<1>4. CASE AskAdar(g) \/ Move(g) \/ Prompt(g) \/ Refused(g) \/ Note(g) \/ (Finish(g) /\ run[g].id = 0)
  BY <1>2, <1>4 DEF AskAdar, Move, Prompt, Refused, Note, Finish
<1> QED BY <1>1, <1>3, <1>4 DEF Step

\* Whoever acts, the inserts under way and the events stay below the limit and the updates.
LEMMA NextCounts == ASSUME FormInv, InsertsCounted, [Next]_vars PROVE InsertsCounted'
<1>1. CASE UNCHANGED vars
  BY <1>1, NextForm, NoMoreInserters DEF vars, Inserting, At
<1>2. CASE MenuAdd \/ MenuSearch \/ Cancel \/ Evict
  <2>1. UNCHANGED <<run, events>>
    BY <1>2 DEF MenuAdd, MenuSearch, Cancel, Evict
  <2> QED BY <2>1, NextForm, NoMoreInserters DEF Inserting, At
<1>3. CASE Restart
  <2>1. Inserting' = {} /\ events' = events
    BY <1>3 DEF Restart, Inserting, At, Idle
  <2> QED BY <2>1, NextForm, NoMoreInserters
<1>4. ASSUME NEW g \in Updates, Step(g) PROVE InsertsCounted'
  <2>1. CASE Count(g)
    BY <2>1, CountCounts
  <2>2. CASE Insert(g)
    BY <2>2, InsertCounts
  <2>3. CASE ~Count(g) /\ ~Insert(g)
    BY <1>4, <2>3, OtherCounts, NextForm, NoMoreInserters
  <2> QED BY <2>1, <2>2, <2>3
<1> QED BY <1>1, <1>2, <1>3, <1>4 DEF Next

\* The limit of events is passed by fewer events than there are updates that can be
\* under way at once, whatever they race with: CreateMinimalEvent counts and inserts
\* without a transaction, yet each of them found room when it counted.
THEOREM LimitHardlyPassed == Spec => []LimitOvershoot
<1>1. Init => InsertsCounted
  <2> SUFFICES ASSUME Init PROVE InsertsCounted
    OBVIOUS
  <2>1. Inserting = {} /\ Len(events) = 0
    BY DEF Init, Inserting, At, Idle
  <2>2. Cardinality(Inserting) = 0
    BY <2>1, FS_EmptySet
  <2> QED BY <2>1, <2>2, InsertersFinite, AddFlowAssumption DEF InsertsCounted
<1>2. FormInv /\ InsertsCounted => LimitOvershoot
  BY InsertersFinite, AddFlowAssumption DEF InsertsCounted, LimitOvershoot, FormInv
<1> QED BY <1>1, <1>2, InitForm, NextForm, NextCounts, PTL DEF Spec

-----------------------------------------------------------------------------
(* A conversation without overlap: what it has in hand is its own *)

\* What is asked in which state, and that each step's needs are met by the one before.
LEMMA AskedIs ==
  /\ \A s \in States : Asked[s] \subseteq DataKeys \ {"event"}
  /\ Asked["name"] = {} /\ Asked["search"] = {} /\ Asked["auto"] = Given3 \cup {"auto"}
  /\ Asked["sec_prompt"] = Given3
  /\ \A k \in Storing \ {"year"} : Asked[To[k]] \subseteq Asked[From[k]] \cup {k}
  /\ Asked[From["year"]] = Given3
  /\ \A k \in DOMAIN To \ Storing : Asked[To[k]] \subseteq Asked[From[k]]
  /\ Given3 \cup {"auto"} \subseteq DataKeys \ {"event"}
<1> DEFINE A(s) ==
      CASE s \in {"name", "search"}    -> {}
        [] s \in {"date", "heb_month"} -> {"name"}
        [] s = "heb_day"               -> {"name", "month"}
        [] s = "auto"                  -> Given3 \cup {"auto"}
        [] OTHER                       -> Given3
<1>1. /\ A("name") = {} /\ A("search") = {} /\ A("date") = {"name"} /\ A("heb_month") = {"name"}
      /\ A("heb_day") = {"name", "month"} /\ A("auto") = Given3 \cup {"auto"}
      /\ A("heb_year") = Given3 /\ A("sec_prompt") = Given3 /\ A("sec_date") = Given3
  OBVIOUS
<1>2. \A s \in States : Asked[s] = A(s)
  BY DEF Asked
<1> HIDE DEF A
<1>3. /\ Asked["name"] = {} /\ Asked["search"] = {} /\ Asked["date"] = {"name"}
      /\ Asked["heb_month"] = {"name"} /\ Asked["heb_day"] = {"name", "month"}
      /\ Asked["auto"] = Given3 \cup {"auto"} /\ Asked["heb_year"] = Given3
      /\ Asked["sec_prompt"] = Given3 /\ Asked["sec_date"] = Given3
  BY <1>1, <1>2 DEF States
<1>4. Given3 \cup {"auto"} \subseteq DataKeys \ {"event"}
  BY AddFlowAssumption DEF Given3
<1>5. \A s \in States : Asked[s] \subseteq DataKeys \ {"event"}
  BY <1>3, <1>4, AddFlowAssumption DEF States, Given3
<1>6. \A k \in Storing \ {"year"} : Asked[To[k]] \subseteq Asked[From[k]] \cup {k}
  BY <1>3 DEF Storing, To, From, Given3
<1>7. \A k \in DOMAIN To \ Storing : Asked[To[k]] \subseteq Asked[From[k]]
  BY <1>3 DEF Storing, To, From, Given3
<1>8. Asked[From["year"]] = Given3
  BY <1>3 DEF From
<1> QED BY <1>3, <1>4, <1>5, <1>6, <1>7, <1>8

\* What is needed at each step.
LEMMA NeedsIs ==
  ASSUME NEW r
  PROVE  /\ r.pc = "store" => Needs(r) = Asked[From[r.kind]]
         /\ r.pc = "move" => Needs(r) = Asked[To[r.kind]]
         /\ r.pc \in {"civil", "offer", "prompt", "fields"} => Needs(r) = Given3
         /\ r.pc \in {"confirm", "second"} => Needs(r) = Given3 \cup {"auto"}
         /\ r.pc = "person" => Needs(r) = {"name"}
         /\ r.pc \in {"count", "insert", "clear", "note"} => Needs(r) = {}
BY DEF Needs

\* The form, and what a conversation without overlap has in hand.
FlowInv == FormInv /\ OneAtATime /\ SavedIsOnePerson

\* A goroutine at work in such a conversation is the only one.
LEMMA OnlyOne ==
  ASSUME FlowInv, ~raced, NEW g \in Updates, run[g].pc # "idle"
  PROVE  /\ run[g] \in Task /\ run[g] # Idle /\ TaskFit(run[g], Len(events), flow)
         /\ OfThisFlow(run[g], store, flow, over) /\ SoFar(store, flow, over)
         /\ \A h \in Updates \ {g} : run[h] = Idle
         /\ StoreFit(store, Len(events), flow) /\ Len(events) \in Nat /\ flow \in Nat
         /\ flow \in Token /\ run[g].flow = flow
<1>1. run[g] # Idle
  BY DEF Idle
<1>2. OfThisFlow(run[g], store, flow, over) /\ SoFar(store, flow, over)
      /\ \A h \in Updates \ {g} : run[h] = Idle
  BY <1>1 DEF FlowInv, OneAtATime, Busy
<1>3. flow \in Token
  BY AddFlowAssumption DEF FlowInv, FormInv, Token
<1> QED BY <1>1, <1>2, <1>3, AtStep DEF FlowInv, OfThisFlow

\* It goes on, and the others stay idle.
LEMMA GoesOnAlone ==
  ASSUME FlowInv, ~raced, NEW g \in Updates, run[g].pc # "idle", NEW r,
         run' = [run EXCEPT ![g] = r], raced' = raced,
         r # Idle => OfThisFlow(r, store', flow', over'), SoFar(store', flow', over')
  PROVE  OneAtATime'
<1>1. \A h \in Updates : run'[h] = IF h = g THEN r ELSE run[h]
  BY DEF FlowInv, FormInv
<1>2. \A h \in Updates \ {g} : run[h] = Idle
  BY OnlyOne
<1>3. Busy' \subseteq {g} /\ (g \in Busy' => r # Idle) /\ run'[g] = r
  BY <1>1, <1>2 DEF Busy
<1> QED BY <1>3 DEF OneAtATime

\* An overlapped conversation has nothing to answer for.
LEMMA Overlapped == ASSUME raced' PROVE OneAtATime'
BY DEF OneAtATime

\* Storing an answer of the conversation takes none of its others away.
LEMMA OneMore ==
  ASSUME FlowInv, ~raced, NEW key \in DataKeys \ {"event"}, UpdateData({key}, flow)
  PROVE  /\ \A K \in SUBSET (DataKeys \ {"event"}) : Has(store, K, flow) => Has(store', K \cup {key}, flow)
         /\ \A K \in SUBSET (DataKeys \ {"event"}) : Has(store, K, flow) => Has(store', K, flow)
         /\ store'.state = store.state
<1>1. flow \in Token /\ flow \in Nat /\ Len(events) \in Nat /\ StoreFit(store, Len(events), flow)
  BY AddFlowAssumption DEF FlowInv, FormInv, Token
<1>2. /\ store'.state = store.state
      /\ \A k \in DataKeys : store'.data[k] = IF k = key THEN flow ELSE store.data[k]
  BY <1>1, UpdateOne
<1> QED BY <1>2 DEF Has

\* Where the store's state is not a goroutine's own, it holds what it held.
LEMMA SoFarKept ==
  ASSUME FlowInv, ~raced, NEW key \in DataKeys \ {"event"}, UpdateData({key}, flow),
         SoFar(store, flow, over), over' = over
  PROVE  SoFar(store', flow, over')
<1>1. store'.state = store.state
  BY OneMore
<1>2. store.state # NoState => store.state \in States
  BY DEF FlowInv, FormInv, StoreFit
<1> QED BY <1>1, <1>2, OneMore, AskedIs DEF SoFar

\* Answers.
LEMMA AnswerAlone ==
  ASSUME FlowInv, NEW g \in Updates, NEW kind \in Kinds, Answer(g, kind)
  PROVE  OneAtATime'
<1>1. CASE raced'
  BY <1>1, Overlapped
<1>2. CASE ~raced'
  <2> DEFINE r == [kind |-> kind, pc |-> First(kind), flow |-> flow, id |-> 0, row |-> Given(kind)]
  <2>1. ~raced /\ Busy = {} /\ run' = [run EXCEPT ![g] = r] /\ UNCHANGED <<store, flow, over>>
        /\ store.state = From[kind]
    BY <1>2 DEF Answer, GetState
  <2>2. SoFar(store, flow, over)
    BY <2>1 DEF FlowInv, OneAtATime
  <2>3. From[kind] \in States /\ From[kind] # NoState
    BY Tables, AddFlowAssumption
  <2>4. Has(store, Asked[From[kind]], flow) /\ (over => kind = "query")
    BY <2>1, <2>2, <2>3, Tables DEF SoFar
  <2>5. Has(store, Needs(r), flow)
    <3>1. r.pc = First(kind) /\ r.kind = kind
      OBVIOUS
    <3> HIDE DEF r
    <3>2. CASE First(kind) = "store"
      BY <2>4, <3>1, <3>2, NeedsIs
    <3>3. CASE First(kind) = "move"
      <4>1. kind \in DOMAIN To \ Storing
        BY <3>3 DEF First, Storing
      <4> QED BY <2>4, <3>1, <3>3, <4>1, NeedsIs, AskedIs DEF Has
    <3>4. CASE First(kind) = "person"
      <4>1. kind = "date"
        BY <3>4 DEF First
      <4>2. Asked[From[kind]] = {"name"}
        BY <4>1 DEF From, Asked, States
      <4> QED BY <2>4, <3>1, <3>4, <4>2, NeedsIs
    <3>5. CASE First(kind) = "second"
      <4>1. kind = "autoyes"
        BY <3>5 DEF First
      <4>2. From[kind] = "auto"
        BY <4>1 DEF From
      <4>3. Asked[From[kind]] = Given3 \cup {"auto"}
        BY <4>2, AskedIs
      <4>4. Needs(r) = Given3 \cup {"auto"}
        BY <3>1, <3>5, NeedsIs
      <4> QED BY <2>4, <4>3, <4>4
    <3>6. CASE First(kind) = "fields"
      <4>1. kind \in {"secno", "autono", "secdate"}
        BY <3>6 DEF First, Final
      <4>2. From[kind] \in {"sec_prompt", "auto", "sec_date"}
        BY <4>1 DEF From
      <4>3. Given3 \subseteq Asked[From[kind]]
        <5>1. Asked["sec_date"] = Given3
          BY DEF Asked, States
        <5> QED BY <4>2, <5>1, AskedIs
      <4> QED BY <2>4, <3>1, <3>6, <4>3, NeedsIs DEF Has
    <3>7. CASE First(kind) = "clear"
      BY <3>1, <3>7, NeedsIs DEF Has
    <3>8. First(kind) \in {"store", "move", "person", "second", "fields", "clear"}
      BY DEF First
    <3> QED BY <3>2, <3>3, <3>4, <3>5, <3>6, <3>7, <3>8
  <2>6. First(kind) \in {"fields", "person", "count", "insert"} => Given(kind).sec \in {flow, Nothing}
    BY DEF Given
  <2>7. First(kind) \in {"person", "count", "insert"} => Given(kind).month = flow /\ Given(kind).day = flow
    <3>1. First(kind) \in {"person", "count", "insert"} => kind = "date"
      BY DEF First
    <3> QED BY <3>1 DEF Given
  <2>8. First(kind) \notin {"count", "insert", "offer"} /\ (kind = "query" => First(kind) = "clear")
    BY Tables
  <2>9. OfThisFlow(r, store, flow, over)
    BY <2>1, <2>4, <2>5, <2>6, <2>7, <2>8 DEF OfThisFlow
  <2>10. run'[g] = r /\ \A h \in Updates \ {g} : run'[h] = run[h]
    BY <2>1 DEF FlowInv, FormInv
  <2> HIDE DEF r
  <2>11. Busy' \subseteq {g}
    BY <2>1, <2>10 DEF Busy
  <2> QED BY <2>1, <2>2, <2>9, <2>10, <2>11 DEF OneAtATime
<1> QED BY <1>1, <1>2

\* Storing what was given.
LEMMA StoreAlone ==
  ASSUME FlowInv, NEW g \in Updates, AskAdar(g) \/ Store(g) \/ Move(g)
  PROVE  OneAtATime'
<1>0. raced' = raced /\ flow' = flow /\ over' = over /\ events' = events
  BY DEF AskAdar, Store, Move
<1> SUFFICES ASSUME ~raced PROVE OneAtATime'
  BY <1>0, Overlapped
<1>1. run[g].pc \in {"store", "move"}
  BY DEF AskAdar, Store, Move, At
<1>2. /\ run[g] \in Task /\ run[g] # Idle /\ TaskFit(run[g], Len(events), flow)
      /\ OfThisFlow(run[g], store, flow, over) /\ SoFar(store, flow, over) /\ run[g].flow = flow
      /\ StoreFit(store, Len(events), flow) /\ Len(events) \in Nat /\ flow \in Nat
  BY <1>1, OnlyOne
<1>3. ~over /\ Has(store, Needs(run[g]), flow)
  BY <1>1, <1>2 DEF OfThisFlow, FlowInv, FormInv
<1>4. CASE AskAdar(g)
  <2>1. UpdateData({"adar"}, flow) /\ "adar" \in DataKeys \ {"event"} /\ run' = [run EXCEPT ![g] = Idle]
    BY <1>2, <1>4, AddFlowAssumption DEF AskAdar, Return
  <2>2. SoFar(store', flow, over')
    BY <1>0, <1>2, <2>1, SoFarKept
  <2> QED BY <1>0, <1>1, <2>1, <2>2, GoesOnAlone
<1>5. CASE Store(g)
  <2>1. run[g].kind \in Storing /\ store.state = From[run[g].kind] /\ run[g].pc = "store"
    BY <1>2, <1>5 DEF Store, At, TaskFit, OfThisFlow
  <2>2. run[g].kind \in DataKeys \ {"event"} /\ UpdateData({run[g].kind}, flow)
    BY <1>2, <1>5, <2>1, Tables DEF Store
  <2>3. SoFar(store', flow, over')
    BY <1>0, <1>2, <2>2, SoFarKept
  <2> DEFINE r == [run[g] EXCEPT !.pc = IF run[g].kind = "year" THEN "civil" ELSE "move"]
  <2>4. r \in Task /\ r.kind = run[g].kind /\ r.id = run[g].id /\ r.flow = run[g].flow
        /\ r.pc = IF run[g].kind = "year" THEN "civil" ELSE "move"
    BY <1>2 DEF Task, Pcs
  <2>5. run' = [run EXCEPT ![g] = r]
    BY <1>5 DEF Store, Goto, FlowInv, FormInv
  <2> HIDE DEF r
  <2>6. Has(store', Asked[From[run[g].kind]] \cup {run[g].kind}, flow)
    <3>1. Asked[From[run[g].kind]] \in SUBSET (DataKeys \ {"event"})
      BY <2>1, AskedIs, Tables
    <3>2. Has(store, Asked[From[run[g].kind]], flow)
      BY <1>3, <2>1, NeedsIs
    <3> QED BY <2>2, <3>1, <3>2, OneMore
  <2>7. Has(store', Needs(r), flow)
    <3>1. CASE run[g].kind = "year"
      <4>1. Needs(r) = Given3 /\ Asked[From[run[g].kind]] = Given3
        BY <2>4, <3>1, NeedsIs, AskedIs
      <4> QED BY <2>6, <4>1 DEF Has
    <3>2. CASE run[g].kind # "year"
      <4>1. Needs(r) = Asked[To[run[g].kind]]
        BY <2>4, <3>2, NeedsIs
      <4>2. Asked[To[run[g].kind]] \subseteq Asked[From[run[g].kind]] \cup {run[g].kind}
        BY <2>1, <3>2, AskedIs
      <4> QED BY <2>6, <4>1, <4>2 DEF Has
    <3> QED BY <3>1, <3>2
  <2>8. OfThisFlow(r, store', flow, over')
    BY <1>0, <1>2, <1>3, <2>4, <2>7 DEF OfThisFlow
  <2> QED BY <1>0, <1>1, <2>3, <2>5, <2>8, GoesOnAlone
<1>6. CASE Move(g)
  <2>1. run[g].kind \in DOMAIN To /\ run[g].pc = "move" /\ SetState(To[run[g].kind])
        /\ run' = [run EXCEPT ![g] = Idle]
    BY <1>2, <1>6 DEF Move, At, TaskFit, Return
  <2>2. To[run[g].kind] \in States
    BY <2>1, Tables
  <2>3. store'.state = To[run[g].kind] /\ store'.data = store.data
    BY <1>2, <2>1, <2>2 DEF SetState, StoreFit
  <2>4. Has(store, Asked[To[run[g].kind]], flow)
    BY <1>3, <2>1, NeedsIs
  <2>5. SoFar(store', flow, over')
    BY <1>0, <1>3, <2>3, <2>4 DEF SoFar, Has
  <2> QED BY <1>0, <1>1, <2>1, <2>5, GoesOnAlone
<1> QED BY <1>4, <1>5, <1>6

\* The civil date of a Hebrew birthday, and what is asked next.
LEMMA CivilAlone ==
  ASSUME FlowInv, NEW g \in Updates, Civil(g) \/ Offer(g) \/ Prompt(g)
  PROVE  OneAtATime'
<1>0. raced' = raced /\ flow' = flow /\ over' = over /\ events' = events
  BY DEF Civil, Offer, Prompt
<1> SUFFICES ASSUME ~raced PROVE OneAtATime'
  BY <1>0, Overlapped
<1>1. run[g].pc \in {"civil", "offer", "confirm", "prompt"}
  BY DEF Civil, Offer, Prompt, At
<1>2. /\ run[g] \in Task /\ run[g] # Idle /\ TaskFit(run[g], Len(events), flow)
      /\ OfThisFlow(run[g], store, flow, over) /\ SoFar(store, flow, over) /\ run[g].flow = flow
      /\ StoreFit(store, Len(events), flow) /\ Len(events) \in Nat /\ flow \in Nat
  BY <1>1, OnlyOne
<1>3. ~over /\ Has(store, Needs(run[g]), flow)
  BY <1>1, <1>2 DEF OfThisFlow, FlowInv, FormInv
<1>4. CASE Civil(g)
  <2>1. Has(store, Given3, flow)
    BY <1>3, <1>4, NeedsIs DEF Civil, At
  <2>2. GetData("month") = flow /\ GetData("day") = flow
    BY <2>1 DEF Has, Given3, GetData
  <2> DEFINE offer == TaskAt(run[g], "offer", flow)
             prompt == [run[g] EXCEPT !.pc = "prompt"]
  <2>3. run' = [run EXCEPT ![g] = offer] \/ run' = [run EXCEPT ![g] = prompt]
    <3>1. {GetData("month"), GetData("day")} = {run[g].flow}
      BY <1>2, <2>2
    <3>2. CASE GetData("month") # 0
      BY <1>2, <1>4, <3>1, <3>2 DEF Civil, FlowInv, FormInv, TaskAt
    <3>3. CASE GetData("month") = 0
      BY <1>4, <3>3 DEF Civil, Goto, FlowInv, FormInv
    <3> QED BY <3>2, <3>3
  <2>4. offer.pc = "offer" /\ offer.id = flow /\ offer.flow = run[g].flow
    <3>1. run[g] \in Task /\ "offer" \in Pcs /\ flow \in Int
      BY <1>2 DEF Pcs
    <3> QED BY <3>1, TaskWith
  <2>5. prompt.pc = "prompt" /\ prompt.flow = run[g].flow
    BY <1>2 DEF Task
  <2> HIDE DEF offer, prompt
  <2>6. OfThisFlow(offer, store, flow, over) /\ OfThisFlow(prompt, store, flow, over)
    <3>1. Needs(offer) = Given3 /\ Needs(prompt) = Given3
      BY <2>4, <2>5, NeedsIs
    <3> QED BY <1>2, <1>3, <2>1, <2>4, <2>5, <3>1 DEF OfThisFlow
  <2>7. store' = store
    BY <1>4 DEF Civil
  <2> QED BY <1>0, <1>1, <1>2, <2>3, <2>6, <2>7, GoesOnAlone
<1>5. CASE Offer(g)
  <2>1. UpdateData({"auto"}, flow) /\ "auto" \in DataKeys \ {"event"} /\ Has(store, Given3, flow)
        /\ Given3 \in SUBSET (DataKeys \ {"event"})
    BY <1>2, <1>3, <1>5, NeedsIs, AddFlowAssumption DEF Offer, At, OfThisFlow, Given3
  <2> DEFINE r == TaskAt(run[g], "confirm", 0)
  <2>2. run' = [run EXCEPT ![g] = r]
    BY <1>5 DEF Offer, FlowInv, FormInv, TaskAt
  <2>3. r.pc = "confirm" /\ r.flow = run[g].flow
    <3>1. run[g] \in Task /\ "confirm" \in Pcs /\ 0 \in Int
      BY <1>2 DEF Pcs
    <3> QED BY <3>1, TaskWith
  <2> HIDE DEF r
  <2>4. Has(store', Given3 \cup {"auto"}, flow)
    BY <2>1, OneMore
  <2>5. OfThisFlow(r, store', flow, over')
    <3>1. Needs(r) = Given3 \cup {"auto"}
      BY <2>3, NeedsIs
    <3> QED BY <1>0, <1>2, <1>3, <2>3, <2>4, <3>1 DEF OfThisFlow
  <2>6. SoFar(store', flow, over')
    BY <1>0, <1>2, <2>1, SoFarKept
  <2> QED BY <1>0, <1>1, <2>2, <2>5, <2>6, GoesOnAlone
<1>6. CASE Prompt(g)
  <2> DEFINE s == IF At(g, "confirm") THEN "auto" ELSE "sec_prompt"
  <2>1. SetState(s) /\ run' = [run EXCEPT ![g] = Idle]
    BY <1>6 DEF Prompt, Return
  <2>2. s \in States /\ Has(store, Asked[s], flow)
    <3>1. CASE At(g, "confirm")
      <4>1. Needs(run[g]) = Given3 \cup {"auto"} /\ s = "auto"
        BY <3>1, NeedsIs DEF At
      <4>2. s \in States /\ Asked[s] = Given3 \cup {"auto"}
        BY <4>1, AskedIs DEF States
      <4> QED BY <1>3, <4>1, <4>2
    <3>2. CASE ~At(g, "confirm")
      <4>1. Needs(run[g]) = Given3 /\ s = "sec_prompt"
        BY <1>6, <3>2, NeedsIs DEF At, Prompt
      <4> QED BY <1>3, <4>1, AskedIs DEF States
    <3> QED BY <3>1, <3>2
  <2> HIDE DEF s
  <2>3. store'.state = s /\ store'.data = store.data
    BY <1>2, <2>1, <2>2 DEF SetState, StoreFit
  <2>4. SoFar(store', flow, over')
    BY <1>0, <1>3, <2>2, <2>3 DEF SoFar, Has
  <2> QED BY <1>0, <1>1, <2>1, <2>4, GoesOnAlone
<1> QED BY <1>4, <1>5, <1>6

\* Reading the fields of the event, counting the events there are, and saving it.
LEMMA ReadAlone ==
  ASSUME FlowInv, NEW g \in Updates, Second(g) \/ Fields(g) \/ Person(g) \/ Count(g) \/ Insert(g)
  PROVE  OneAtATime'
<1>0. raced' = raced /\ flow' = flow /\ over' = over /\ store' = store
  BY DEF Second, Fields, Person, Count, Insert
<1> SUFFICES ASSUME ~raced PROVE OneAtATime'
  BY <1>0, Overlapped
<1>1. run[g].pc \in {"second", "fields", "person", "count", "insert"}
  BY DEF Second, Fields, Person, Count, Insert, At
<1>2. /\ run[g] \in Task /\ run[g].row \in Row
      /\ OfThisFlow(run[g], store, flow, over) /\ SoFar(store, flow, over) /\ run[g].flow = flow
  BY <1>1, OnlyOne DEF Task
<1>3. ~over /\ Has(store, Needs(run[g]), flow)
  BY <1>1, <1>2 DEF OfThisFlow, FlowInv, FormInv
<1> DEFINE With(row, pc) == [run[g] EXCEPT !.row = row, !.pc = pc]
<1>4. ASSUME NEW row \in Row, NEW pc \in Pcs
      PROVE  With(row, pc).row = row /\ With(row, pc).pc = pc /\ With(row, pc).flow = flow
  BY <1>2 DEF Task
<1>5. ASSUME NEW row \in Row, NEW pc \in {"fields", "person", "count", "insert", "clear"},
             run' = [run EXCEPT ![g] = With(row, pc)],
             pc = "fields" => Has(store, Given3, flow),
             pc = "person" => Has(store, {"name"}, flow),
             pc # "clear" => row.sec \in {flow, Nothing},
             pc \in {"person", "count", "insert"} => row.month = flow /\ row.day = flow,
             pc \in {"count", "insert"} => row.name = flow
      PROVE  OneAtATime'
  <2> DEFINE r == With(row, pc)
  <2>1. pc \in Pcs
    BY DEF Pcs
  <2>2. r.row = row /\ r.pc = pc /\ r.flow = flow /\ run' = [run EXCEPT ![g] = r]
    BY <1>4, <1>5, <2>1
  <2> HIDE DEF r
  <2>3. Has(store, Needs(r), flow)
    BY <1>5, <2>2, NeedsIs DEF Has
  <2>4. OfThisFlow(r, store', flow', over')
    BY <1>0, <1>3, <1>5, <2>2, <2>3 DEF OfThisFlow
  <2> QED BY <1>0, <1>1, <1>2, <2>2, <2>4, GoesOnAlone
<1>6. \A k \in {"name", "month", "day", "year", "auto"} : GetData(k) \in Token
  BY AddFlowAssumption DEF FlowInv, FormInv, StoreFit, GetData
<1>7. CASE Second(g)
  <2> DEFINE row == [run[g].row EXCEPT !.sec = GetData("auto")]
  <2>1. Has(store, Given3 \cup {"auto"}, flow)
    BY <1>3, <1>7, NeedsIs DEF Second, At
  <2>2. row \in Row /\ row.sec = flow
    BY <1>2, <1>6, <2>1 DEF Row, Has, GetData
  <2>3. Has(store, Given3, flow)
    BY <2>1 DEF Has
  <2>4. run' = [run EXCEPT ![g] = With(row, "fields")]
    BY <1>7 DEF Second, FlowInv, FormInv
  <2> HIDE DEF row, With
  <2> QED BY <1>5, <2>2, <2>3, <2>4
<1>8. CASE Fields(g)
  <2> DEFINE row == [run[g].row EXCEPT !.month = GetData("month"), !.day = GetData("day"),
                                       !.year = GetData("year")]
  <2>1. Has(store, Given3, flow) /\ run[g].row.sec \in {flow, Nothing}
    BY <1>2, <1>3, <1>8, NeedsIs DEF Fields, At, OfThisFlow
  <2>2. row \in Row /\ row.month = GetData("month") /\ row.day = GetData("day") /\ row.sec = run[g].row.sec
    BY <1>2, <1>6 DEF Row
  <2>3. GetData("month") = flow /\ GetData("day") = flow /\ Has(store, {"name"}, flow)
    BY <2>1 DEF Has, Given3, GetData
  <2>4. run' = [run EXCEPT ![g] = With(row, "person")]
    BY <1>8 DEF Fields, FlowInv, FormInv
  <2> HIDE DEF row, With
  <2> QED BY <1>5, <2>1, <2>2, <2>3, <2>4
<1>9. CASE Person(g)
  <2> DEFINE row == [run[g].row EXCEPT !.name = GetData("name")]
  <2>1. Has(store, {"name"}, flow) /\ run[g].row.sec \in {flow, Nothing}
        /\ run[g].row.month = flow /\ run[g].row.day = flow
    BY <1>2, <1>3, <1>9, NeedsIs DEF Person, At, OfThisFlow
  <2>2. GetData("name") = flow
    BY <2>1 DEF Has, GetData
  <2>3. row \in Row /\ row.name = flow /\ row.month = flow /\ row.day = flow /\ row.sec = run[g].row.sec
    BY <1>2, <1>6, <2>1, <2>2 DEF Row
  <2>4. run' = [run EXCEPT ![g] = With(row, "count")]
    BY <1>9 DEF Person, FlowInv, FormInv
  <2> HIDE DEF row, With
  <2> QED BY <1>5, <2>1, <2>3, <2>4
<1>10. CASE Count(g)
  <2> DEFINE pc == IF LimitReached THEN "clear" ELSE "insert"
  <2>1. pc \in {"clear", "insert"} /\ run' = [run EXCEPT ![g] = With(run[g].row, pc)]
    BY <1>2, <1>10 DEF Count, Goto, FlowInv, FormInv, Task
  <2>2. run[g].row.sec \in {flow, Nothing} /\ run[g].row.name = flow
        /\ run[g].row.month = flow /\ run[g].row.day = flow
    BY <1>2, <1>10 DEF Count, At, OfThisFlow
  <2> HIDE DEF pc, With
  <2> QED BY <1>2, <1>5, <2>1, <2>2
<1>11. CASE Insert(g)
  <2> DEFINE r == TaskAt(run[g], "clear", Len(events) + 1)
  <2>1. run' = [run EXCEPT ![g] = r] \/ run' = [run EXCEPT ![g] = Idle]
    BY <1>11 DEF Insert, Return, FlowInv, FormInv, TaskAt
  <2>2. r.pc = "clear" /\ r.flow = flow
    <3>1. run[g] \in Task /\ "clear" \in Pcs /\ Len(events) + 1 \in Int
      BY <1>2 DEF Pcs, FlowInv, FormInv
    <3> QED BY <1>2, <3>1, TaskWith
  <2> HIDE DEF r
  <2>3. OfThisFlow(r, store', flow', over')
    <3>1. Needs(r) = {}
      BY <2>2, NeedsIs
    <3> QED BY <1>0, <2>2, <3>1 DEF OfThisFlow, Has
  <2> QED BY <1>0, <1>1, <1>2, <2>1, <2>3, GoesOnAlone
<1> QED BY <1>7, <1>8, <1>9, <1>10, <1>11

\* The end of a conversation.
LEMMA EndAlone ==
  ASSUME FlowInv, NEW g \in Updates, Refused(g) \/ Finish(g) \/ Note(g)
  PROVE  OneAtATime'
<1>0. raced' = raced /\ flow' = flow
  BY DEF Refused, Finish, Note
<1> SUFFICES ASSUME ~raced PROVE OneAtATime'
  BY <1>0, Overlapped
<1>1. run[g].pc \in {"count", "insert", "clear", "note"}
  BY DEF Refused, Finish, Note, At
<1>2. /\ run[g] \in Task /\ run[g] # Idle /\ TaskFit(run[g], Len(events), flow)
      /\ OfThisFlow(run[g], store, flow, over) /\ SoFar(store, flow, over) /\ run[g].flow = flow
      /\ StoreFit(store, Len(events), flow) /\ Len(events) \in Nat /\ flow \in Nat
  BY <1>1, OnlyOne
<1>3. CASE Refused(g)
  <2>1. run' = [run EXCEPT ![g] = Idle] /\ store' = store /\ over' = over
    BY <1>3 DEF Refused, Return
  <2> QED BY <1>0, <1>1, <1>2, <2>1, GoesOnAlone
<1>4. CASE Finish(g)
  <2>1. store'.state = NoState
    BY <1>4 DEF Finish, Clear, Empty
  <2>2. SoFar(store', flow', over')
    BY <2>1 DEF SoFar
  <2>3. CASE run[g].id = 0
    <3>1. run' = [run EXCEPT ![g] = Idle]
      BY <1>4, <2>3 DEF Finish, Return
    <3> QED BY <1>0, <1>1, <2>2, <3>1, GoesOnAlone
  <2>4. CASE run[g].id # 0
    <3> DEFINE r == [run[g] EXCEPT !.pc = "note"]
    <3>1. run' = [run EXCEPT ![g] = r] /\ r.pc = "note" /\ r.flow = flow
      BY <1>2, <1>4, <2>4 DEF Finish, Goto, FlowInv, FormInv, Task
    <3> HIDE DEF r
    <3>2. Needs(r) = {}
      BY <3>1, NeedsIs
    <3>3. OfThisFlow(r, store', flow', over')
      BY <1>0, <3>1, <3>2 DEF OfThisFlow, Has
    <3> QED BY <1>0, <1>1, <2>2, <3>1, <3>3, GoesOnAlone
  <2> QED BY <2>3, <2>4
<1>5. CASE Note(g)
  <2>1. run[g].id \in 0 .. Len(events) /\ UpdateData({"event"}, run[g].id)
        /\ run' = [run EXCEPT ![g] = Idle] /\ over' = over
    BY <1>2, <1>5 DEF TaskFit, Note, At, Return
  <2>2. store'.state = store.state /\ \A k \in DataKeys \ {"event"} : store'.data[k] = store.data[k]
    BY <1>2, <2>1, UpdateId
  <2>3. store.state # NoState => store.state \in States
    BY <1>2 DEF StoreFit
  <2>4. SoFar(store', flow', over')
    BY <1>0, <1>2, <2>1, <2>2, <2>3, AskedIs DEF SoFar, Has
  <2> QED BY <1>0, <1>1, <2>1, <2>4, GoesOnAlone
<1> QED BY <1>3, <1>4, <1>5

\* Updates that do not look at the state, and what makes the store forget.
LEMMA OutsideAlone ==
  ASSUME FlowInv, MenuAdd \/ MenuSearch \/ Cancel \/ Evict \/ Restart
  PROVE  OneAtATime'
<1> SUFFICES ASSUME ~raced' PROVE OneAtATime'
  BY Overlapped
<1>1. CASE MenuAdd \/ MenuSearch
  <2>1. Busy = {} /\ run' = run
    BY <1>1 DEF MenuAdd, MenuSearch
  <2>2. Busy' = {}
    BY <2>1 DEF Busy
  <2>3. StoreFit(store, Len(events), flow)
    BY DEF FlowInv, FormInv
  <2>4. CASE MenuAdd
    <3>1. store'.state = "name" /\ ~over'
      BY <2>3, <2>4 DEF MenuAdd, SetState, StoreFit
    <3>2. SoFar(store', flow', over')
      BY <3>1, AskedIs DEF SoFar, Has
    <3> QED BY <2>2, <3>2 DEF OneAtATime
  <2>5. CASE MenuSearch
    <3>1. store'.state = "search"
      BY <2>3, <2>5 DEF MenuSearch, SetState, StoreFit
    <3>2. SoFar(store', flow', over')
      BY <3>1, AskedIs DEF SoFar, Has
    <3> QED BY <2>2, <3>2 DEF OneAtATime
  <2> QED BY <1>1, <2>4, <2>5
<1>2. CASE Cancel \/ Evict \/ Restart
  <2>1. store'.state = NoState
    BY <1>2 DEF Cancel, Evict, Restart, Clear, Empty
  <2>2. SoFar(store', flow', over')
    BY <2>1 DEF SoFar
  <2>3. Busy' = {}
    <3>1. CASE Cancel
      BY <3>1 DEF Cancel, Busy
    <3>2. CASE Evict
      BY <3>2 DEF Evict, Busy
    <3>3. CASE Restart
      BY <3>3 DEF Restart, Busy
    <3> QED BY <1>2, <3>1, <3>2, <3>3
  <2> QED BY <2>2, <2>3 DEF OneAtATime
<1> QED BY <1>1, <1>2

\* What is saved without overlap is what the goroutine was given in this conversation.
LEMMA InsertIsOnePerson ==
  ASSUME FlowInv, NEW g \in Updates, Insert(g)
  PROVE  SavedIsOnePerson' /\ (~raced => ~over)
<1> DEFINE e == [row |-> run[g].row, flow |-> run[g].flow, raced |-> raced]
<1>1. run[g].pc = "insert" /\ events' = Append(events, e) /\ events \in Seq(Saved)
      /\ e.row = run[g].row /\ e.flow = run[g].flow /\ e.raced = raced
  BY DEF Insert, At, FlowInv, FormInv
<1>2. CASE raced
  <2>1. e.raced
    BY <1>1, <1>2
  <2> HIDE DEF e
  <2>2. \A i \in DOMAIN events' : (i \in DOMAIN events /\ events'[i] = events[i]) \/ events'[i] = e
    BY <1>1
  <2>3. \A i \in DOMAIN events' : events'[i].raced \/ (i \in DOMAIN events /\ events'[i] = events[i])
    BY <2>1, <2>2
  <2> QED BY <1>2, <2>3 DEF FlowInv, SavedIsOnePerson
<1>3. CASE ~raced
  <2>1. OfThisFlow(run[g], store, flow, over)
    BY <1>1, <1>3, OnlyOne
  <2>2. ~over
    BY <1>1, <2>1 DEF OfThisFlow, FlowInv, FormInv
  <2>3. {e.row.name, e.row.month, e.row.day} = {e.flow} /\ e.row.sec \in {e.flow, Nothing}
    BY <1>1, <2>1 DEF OfThisFlow
  <2> HIDE DEF e
  <2>4. \A i \in DOMAIN events' : (i \in DOMAIN events /\ events'[i] = events[i]) \/ events'[i] = e
    BY <1>1
  <2> QED BY <2>2, <2>3, <2>4 DEF FlowInv, SavedIsOnePerson
<1> QED BY <1>2, <1>3

\* The other steps save nothing.
LEMMA OthersSaveNothing ==
  ASSUME [Next]_vars, \A g \in Updates : ~Insert(g)
  PROVE  events' = events
BY DEF Next, vars, MenuAdd, MenuSearch, Cancel, Evict, Restart, Step, Answer, AskAdar, Store, Move,
       Civil, Offer, Prompt, Second, Fields, Person, Count, Refused, Finish, Note

\* Whoever acts, the conversation and what it has saved stay its own.
LEMMA NextAlone == ASSUME FlowInv, [Next]_vars PROVE FlowInv'
<1>1. FormInv'
  BY NextForm DEF FlowInv
<1>2. OneAtATime'
  <2>1. CASE UNCHANGED vars
    <3>1. UNCHANGED <<store, run, flow, over, raced>>
      BY <2>1 DEF vars
    <3> QED BY <3>1 DEF OneAtATime, Busy, FlowInv
  <2>2. CASE MenuAdd \/ MenuSearch \/ Cancel \/ Evict \/ Restart
    BY <2>2, OutsideAlone
  <2>3. ASSUME NEW g \in Updates, Step(g) PROVE OneAtATime'
    BY <2>3, AnswerAlone, StoreAlone, CivilAlone, ReadAlone, EndAlone DEF Step
  <2> QED BY <2>1, <2>2, <2>3 DEF Next
<1>3. SavedIsOnePerson'
  <2>1. ASSUME NEW g \in Updates, Insert(g) PROVE SavedIsOnePerson'
    BY <2>1, InsertIsOnePerson
  <2>2. CASE \A g \in Updates : ~Insert(g)
    <3>1. events' = events
      BY <2>2, OthersSaveNothing
    <3> QED BY <3>1 DEF FlowInv, SavedIsOnePerson
  <2> QED BY <2>1, <2>2
<1> QED BY <1>1, <1>2, <1>3 DEF FlowInv

\* No conversation is under way at first.
LEMMA InitAlone == Init => FlowInv
<1> SUFFICES ASSUME Init PROVE FlowInv
  OBVIOUS
<1>1. Busy = {} /\ store.state = NoState /\ events = <<>>
  BY DEF Init, Busy, Empty
<1>2. SoFar(store, flow, over)
  BY <1>1 DEF SoFar
<1>3. SavedIsOnePerson
  BY <1>1 DEF SavedIsOnePerson
<1> QED BY <1>1, <1>2, <1>3, InitForm DEF FlowInv, OneAtATime

\* An event saved without overlap is of one person: its name, month, day and second date
\* were all given in the conversation that saved it, in whatever order finalizeEvent and
\* finalizeSecondaryFlow read them back, and whatever abandoned, raced or forgotten
\* conversations left in the store before.
THEOREM SavedOfOnePerson == Spec => []SavedIsOnePerson
<1>1. FlowInv => SavedIsOnePerson
  BY DEF FlowInv
<1> QED BY <1>1, InitAlone, NextAlone, PTL DEF Spec

\* Without overlap nothing is saved by a conversation that has ended: cleared after its
\* save, cancelled, left for a search, or forgotten by the store.  Who is at the insert
\* began it after.
THEOREM EndedStaysEnded == Spec => EndedSavesNothing
<1>1. FlowInv /\ [Next]_vars => [Len(events') > Len(events) /\ ~raced => ~over]_vars
  <2> SUFFICES ASSUME FlowInv, [Next]_vars, Len(events') > Len(events), ~raced PROVE ~over
    OBVIOUS
  <2>1. PICK g \in Updates : Insert(g)
    <3>1. Len(events) \in Nat
      BY DEF FlowInv, FormInv
    <3>2. events' # events
      BY <3>1
    <3> QED BY <3>2, OthersSaveNothing
  <2> QED BY <2>1, InsertIsOnePerson
<1> QED BY <1>1, InitAlone, NextAlone, PTL DEF Spec, EndedSavesNothing
=============================================================================
