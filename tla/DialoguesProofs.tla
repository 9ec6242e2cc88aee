-------------------------- MODULE DialoguesProofs --------------------------
(***************************************************************************)
(* More proofs about Conversations: what a conversation of several updates *)
(* keeps between them, in its record of the store and in its goroutines.   *)
(***************************************************************************)
EXTENDS ConversationsProofs, SequenceTheorems

-----------------------------------------------------------------------------
(* The broadcast *)

BcRecord == [state : Bc!States \cup {NoState}, data : [{"bc_text"} -> Nat]]

\* What a goroutine is at.
Announcing ==
  {Bc!Rest} \cup [pc : {"keep", "preview", "confirm"}, text : Nat]
    \cup [pc : {"edit", "targets"}, text : Nat, button : Nat]
    \cup [pc : {"send"}, text : Nat, left : SUBSET Users]

\* Whatever is kept is about texts that were typed,
BcKept ==
  /\ bcStore \in BcRecord /\ texts \in Nat /\ bcStore.data["bc_text"] \in 0 .. texts
  /\ shown \in 0 .. texts /\ buttons \subseteq 1 .. texts /\ begun \subseteq 1 .. texts
  /\ targets \subseteq Users /\ murky \in BOOLEAN

\* and whoever is busy works on one of them.
BcTyped ==
  /\ BcKept
  /\ bcRun \in [Updates -> Announcing]
  /\ \A g \in Updates : bcRun[g] # Bc!Rest => bcRun[g].text \in 1 .. texts

\* Without overlap, nobody else is busy.
Alone == \A g, h \in Updates : bcRun[g] # Bc!Rest /\ bcRun[h] # Bc!Rest => g = h

\* What a press of the button would send is what was previewed, and was not sent.
Ready == bcStore.data["bc_text"] \in {0, shown} /\ shown \notin begun

\* Once asked to confirm, the admin has seen what is in the record: until it is being sent.
Confirmable ==
  bcStore.state = "broadcast_confirm" => Ready \/ \E g \in Updates : bcRun[g].pc = "send"

\* A text on its way to its preview is the last one, and new; one on its way to the users is
\* the one that was previewed last, and not sent before.
OnItsWay(g) ==
  /\ bcRun[g].pc \in {"keep", "preview"} =>
       bcRun[g].text = texts /\ texts \notin begun /\ bcStore.state # "broadcast_confirm"
  /\ bcRun[g].pc = "preview" => bcStore.data["bc_text"] \in {0, texts}
  /\ bcRun[g].pc = "confirm" => Ready
  /\ bcRun[g].pc \in {"edit", "targets"} => bcRun[g].text = shown /\ shown \notin begun

\* Who is busy already goes on, or someone begins when everybody rests.
Continues(g) == (~murky /\ bcRun[g] # Bc!Rest) \/ Bc!Busy = {}

BcInv ==
  /\ BcTyped
  /\ ~murky => Alone /\ Confirmable /\ \A g \in Updates : OnItsWay(g)

\* What the module assumes of its constants.
LEMMA BcConstants == NoState \notin Bc!States /\ MaxTexts \in Nat
BY ConversationsAssumption DEF Bc!BroadcastAssumption

\* At first nothing is typed and nobody is busy.
LEMMA BcInit == Init => BcInv
<1> SUFFICES ASSUME Init PROVE BcInv
  OBVIOUS
<1>1. /\ bcStore = Bc!Empty /\ bcRun = [g \in Updates |-> Bc!Rest] /\ targets = Users
      /\ buttons = {} /\ texts = 0 /\ shown = 0 /\ begun = {} /\ murky = FALSE
  BY DEF Init, Bc!Init
<1>2. bcStore \in BcRecord /\ bcStore.data["bc_text"] = 0 /\ bcStore.state = NoState
  BY <1>1 DEF Bc!Empty, BcRecord
<1>3. bcRun \in [Updates -> Announcing] /\ \A g \in Updates : bcRun[g] = Bc!Rest /\ bcRun[g].pc = "idle"
  BY <1>1 DEF Announcing, Bc!Rest
<1>4. BcTyped
  <2>1. murky \in BOOLEAN
    BY <1>1
  <2>2. BcKept
    BY <1>1, <1>2, <2>1 DEF BcKept
  <2> QED BY <1>3, <2>2 DEF BcTyped
<1>5. bcStore.state # "broadcast_confirm"
  BY <1>2, BcConstants DEF Bc!States
<1>6. Alone /\ Confirmable /\ \A g \in Updates : OnItsWay(g)
  BY <1>3, <1>5 DEF Alone, Confirmable, OnItsWay
<1> QED BY <1>4, <1>6 DEF BcInv

\* Ask, Leave and Block: the record is emptied, or its state becomes one that sends nothing.
LEMMA AdminTurns ==
  ASSUME BcInv, Bc!Ask \/ Bc!Leave \/ \E u \in Users : Bc!Block(u)
  PROVE  BcInv'
<1>1. UNCHANGED <<bcRun, buttons, texts, shown, begun, murky>> /\ targets' \subseteq Users
  BY DEF Bc!Ask, Bc!Leave, Bc!Block, BcInv, BcTyped, BcKept
<1>2. /\ bcStore' \in BcRecord /\ bcStore'.data["bc_text"] \in {0, bcStore.data["bc_text"]}
      /\ bcStore' = bcStore \/ bcStore'.state # "broadcast_confirm"
  <2>1. CASE Bc!SetState("other") \/ Bc!SetState("broadcast_text")
    BY <2>1 DEF Bc!SetState, BcInv, BcTyped, BcKept, BcRecord, Bc!States
  <2>2. CASE Bc!Clear
    BY <2>2, BcConstants DEF Bc!Clear, Bc!Empty, BcRecord, Bc!States
  <2>3. CASE UNCHANGED bcStore
    BY <2>3 DEF BcInv, BcTyped, BcKept
  <2> QED BY <2>1, <2>2, <2>3 DEF Bc!Ask, Bc!Leave, Bc!Block
<1>3. BcTyped'
  BY <1>1, <1>2 DEF BcInv, BcTyped, BcKept
<1>4. ASSUME ~murky' PROVE Alone' /\ Confirmable' /\ \A g \in Updates : OnItsWay(g)'
  <2>1. Alone /\ Confirmable /\ \A g \in Updates : OnItsWay(g)
    BY <1>1, <1>4 DEF BcInv
  <2>2. Ready => Ready'
    BY <1>1, <1>2 DEF Ready
  <2>3. Alone'
    BY <1>1, <2>1 DEF Alone
  <2>4. Confirmable'
    BY <1>1, <1>2, <2>1, <2>2 DEF Confirmable
  <2>5. ASSUME NEW g \in Updates PROVE OnItsWay(g)'
    <3>1. OnItsWay(g)
      BY <2>1
    <3> QED BY <1>1, <1>2, <2>2, <3>1 DEF OnItsWay
  <2> QED BY <2>3, <2>4, <2>5
<1> QED BY <1>3, <1>4 DEF BcInv

\* The process starts again: the record is empty and everybody at rest.
LEMMA BcForgets ==
  ASSUME BcInv, Bc!Forget
  PROVE  BcInv'
<1>1. bcStore' = Bc!Empty /\ bcRun' = [g \in Updates |-> Bc!Rest]
      /\ UNCHANGED <<targets, buttons, texts, shown, begun, murky>>
  BY DEF Bc!Forget, Bc!Clear
<1>2. bcStore' \in BcRecord /\ bcStore'.data["bc_text"] = 0 /\ bcStore'.state = NoState
  BY <1>1 DEF Bc!Empty, BcRecord
<1>3. bcRun' \in [Updates -> Announcing] /\ \A g \in Updates : bcRun'[g] = Bc!Rest /\ bcRun'[g].pc = "idle"
  BY <1>1 DEF Announcing, Bc!Rest
<1>4. BcTyped'
  BY <1>1, <1>2, <1>3 DEF BcInv, BcTyped, BcKept
<1>5. Alone' /\ Confirmable' /\ \A g \in Updates : OnItsWay(g)'
  BY <1>2, <1>3, BcConstants DEF Alone, Confirmable, OnItsWay, Bc!States
<1> QED BY <1>4, <1>5 DEF BcInv

\* A goroutine goes on.  That it keeps the types is enough if the step makes things murky; if
\* not, it begins when all are at rest, or was busy before, and what it does next must fit.
LEMMA BcOnward ==
  ASSUME BcInv, NEW g \in Updates, NEW r \in Announcing, bcRun' = [bcRun EXCEPT ![g] = r],
         BcKept', texts <= texts', r # Bc!Rest => r.text \in 1 .. texts',
         ~murky' => Continues(g),
         ~murky' => Confirmable' /\ OnItsWay(g)'
  PROVE  BcInv'
<1>1. bcRun' \in [Updates -> Announcing] /\ \A h \in Updates : bcRun'[h] = IF h = g THEN r ELSE bcRun[h]
  BY DEF BcInv, BcTyped, BcKept
<1>2. BcTyped'
  BY <1>1 DEF BcInv, BcTyped, BcKept
<1>3. ASSUME ~murky' PROVE Alone' /\ \A h \in Updates : h # g => bcRun'[h] = Bc!Rest
  <2>1. \A h \in Updates : h # g => bcRun[h] = Bc!Rest
    BY <1>3 DEF BcInv, Alone, Bc!Busy, Continues
  <2> QED BY <1>1, <2>1 DEF Alone
<1>4. ASSUME ~murky', NEW h \in Updates PROVE OnItsWay(h)'
  <2>1. CASE h = g
    BY <1>3, <1>4, <2>1
  <2>2. CASE h # g
    <3>1. bcRun'[h].pc = "idle"
      BY <1>3, <1>4, <2>2 DEF Bc!Rest
    <3> QED BY <3>1 DEF OnItsWay
  <2> QED BY <2>1, <2>2
<1> QED BY <1>2, <1>3, <1>4 DEF BcInv

\* A text comes in while everybody rests, or makes things murky.
LEMMA TextComes ==
  ASSUME BcInv, NEW g \in Updates, Bc!Text(g)
  PROVE  BcInv'
<1> DEFINE r == [pc |-> "keep", text |-> texts + 1]
<1>1. /\ bcRun[g] = Bc!Rest /\ bcStore.state = "broadcast_text" /\ texts' = texts + 1
      /\ bcRun' = [bcRun EXCEPT ![g] = r] /\ murky' = (Bc!Busy # {})
      /\ UNCHANGED <<bcStore, targets, buttons, shown, begun>>
  BY DEF Bc!Text, Bc!GetState
<1>2. /\ texts \in Nat /\ begun \subseteq 1 .. texts /\ buttons \subseteq 1 .. texts /\ shown \in 0 .. texts
      /\ bcStore \in BcRecord /\ bcStore.data["bc_text"] \in 0 .. texts /\ bcRun \in [Updates -> Announcing]
      /\ targets \subseteq Users
  BY DEF BcInv, BcTyped, BcKept
<1>3. r \in Announcing /\ r.pc = "keep" /\ r.text = texts' /\ texts' \in 1 .. texts' /\ texts' \in Nat
  BY <1>1, <1>2 DEF Announcing
<1> HIDE DEF r
<1>4. bcRun'[g] = r
  BY <1>1, <1>2
<1>5. Confirmable' /\ OnItsWay(g)'
  <2>1. texts' \notin begun'
    BY <1>1, <1>2
  <2> QED BY <1>1, <1>3, <1>4, <2>1 DEF Confirmable, OnItsWay
<1>6. 0 .. texts \subseteq 0 .. texts' /\ 1 .. texts \subseteq 1 .. texts' /\ texts <= texts'
  BY <1>1, <1>2
<1>7. /\ bcStore' \in BcRecord /\ bcStore'.data["bc_text"] \in 0 .. texts' /\ shown' \in 0 .. texts'
      /\ buttons' \subseteq 1 .. texts' /\ begun' \subseteq 1 .. texts' /\ targets' \subseteq Users
  BY <1>1, <1>2, <1>6
<1>8. murky' \in BOOLEAN /\ (~murky' => Bc!Busy = {})
  BY <1>1
<1>9. BcKept'
  BY <1>3, <1>7, <1>8 DEF BcKept
<1>10. ~murky' => Continues(g)
  BY <1>8 DEF Continues
<1> QED BY <1>1, <1>3, <1>5, <1>6, <1>9, <1>10, BcOnward

\* The text is put into the record and then shown, with its button.
LEMMA TextIsShown ==
  ASSUME BcInv, NEW g \in Updates, Bc!Keep(g) \/ Bc!Preview(g) \/ Bc!Confirm(g)
  PROVE  BcInv'
<1>1. /\ texts \in Nat /\ begun \subseteq 1 .. texts /\ buttons \subseteq 1 .. texts /\ shown \in 0 .. texts
      /\ bcStore \in BcRecord /\ bcStore.data["bc_text"] \in 0 .. texts /\ bcRun \in [Updates -> Announcing]
      /\ targets \subseteq Users
      /\ murky \in BOOLEAN
  BY DEF BcInv, BcTyped, BcKept
<1>2. bcRun[g].pc \in {"keep", "preview", "confirm"} /\ bcRun[g] # Bc!Rest
  BY DEF Bc!Keep, Bc!Preview, Bc!Confirm, Bc!At, Bc!Rest
<1>3. /\ bcRun[g] \in [pc : {"keep", "preview", "confirm"}, text : Nat]
      /\ bcRun[g].text \in 1 .. texts /\ bcRun[g].text \in 0 .. texts
  BY <1>1, <1>2 DEF BcInv, BcTyped, BcKept, Announcing
<1>4. ~murky => OnItsWay(g) /\ Confirmable
  BY DEF BcInv
<1>5. Bc!Rest \in Announcing /\ Bc!Rest.pc = "idle"
  BY DEF Announcing, Bc!Rest
<1>6. CASE Bc!Keep(g)
  <2> DEFINE r == [bcRun[g] EXCEPT !.pc = "preview"]
  <2>1. bcRun' = [bcRun EXCEPT ![g] = r] /\ bcRun[g].pc = "keep" /\ Bc!UpdateData({"bc_text"}, bcRun[g].text)
        /\ UNCHANGED <<targets, buttons, texts, shown, begun, murky>>
    BY <1>1, <1>6 DEF Bc!Keep, Bc!At
  <2>2. r \in Announcing /\ r.pc = "preview" /\ r.text = bcRun[g].text
    BY <1>3 DEF Announcing
  <2> HIDE DEF r
  <2>3. bcStore' \in BcRecord /\ bcStore'.data["bc_text"] = bcRun[g].text /\ bcStore'.state = bcStore.state
    BY <1>1, <1>3, <2>1, ConversationsAssumption DEF Bc!UpdateData, BcRecord
  <2>4. bcRun'[g] = r
    BY <1>1, <2>1
  <2>5. ~murky' => Confirmable' /\ OnItsWay(g)'
    BY <1>4, <2>1, <2>2, <2>3, <2>4 DEF Confirmable, OnItsWay
  <2>6. BcKept' /\ texts <= texts' /\ (r # Bc!Rest => r.text \in 1 .. texts')
    BY <1>1, <1>3, <2>1, <2>2, <2>3 DEF BcKept
  <2>7. ~murky' => Continues(g)
    BY <1>2, <2>1 DEF Continues
  <2> QED BY <2>1, <2>2, <2>5, <2>6, <2>7, BcOnward
<1>7. CASE Bc!Preview(g)
  <2>1. bcRun[g].pc = "preview" /\ UNCHANGED <<bcStore, targets, texts, begun, murky>>
    BY <1>7 DEF Bc!Preview, Bc!At
  <2>2. CASE /\ buttons' = buttons \cup {bcRun[g].text} /\ shown' = bcRun[g].text
             /\ bcRun' = [bcRun EXCEPT ![g].pc = "confirm"]
    <3> DEFINE r == [bcRun[g] EXCEPT !.pc = "confirm"]
    <3>1. bcRun' = [bcRun EXCEPT ![g] = r]
      BY <1>1, <2>2
    <3>2. r \in Announcing /\ r.pc = "confirm" /\ r.text = bcRun[g].text
      BY <1>3 DEF Announcing
    <3> HIDE DEF r
    <3>3. bcRun'[g] = r
      BY <1>1, <3>1
    <3>4. ~murky' => Confirmable' /\ OnItsWay(g)'
      <4> SUFFICES ASSUME ~murky' PROVE Confirmable' /\ OnItsWay(g)'
        OBVIOUS
      <4>1. /\ bcRun[g].text = texts /\ texts \notin begun /\ bcStore.state # "broadcast_confirm"
            /\ bcStore.data["bc_text"] \in {0, texts}
        BY <1>4, <2>1 DEF OnItsWay
      <4>2. Ready'
        BY <2>1, <2>2, <4>1 DEF Ready
      <4> QED BY <2>1, <3>2, <3>3, <4>1, <4>2 DEF Confirmable, OnItsWay
    <3>5. buttons' \subseteq 1 .. texts' /\ shown' \in 0 .. texts'
      BY <1>1, <1>3, <2>1, <2>2
    <3>6. BcKept' /\ texts <= texts' /\ (r # Bc!Rest => r.text \in 1 .. texts')
      BY <1>1, <1>3, <2>1, <3>2, <3>5 DEF BcKept
    <3>7. ~murky' => Continues(g)
      BY <1>2, <2>1 DEF Continues
    <3> QED BY <3>1, <3>2, <3>4, <3>6, <3>7, BcOnward
  <2>3. CASE Bc!Return(g) /\ UNCHANGED <<buttons, shown>>
    <3>1. bcRun' = [bcRun EXCEPT ![g] = Bc!Rest] /\ bcRun'[g] = Bc!Rest
      BY <1>1, <2>3 DEF Bc!Return
    <3>2. ~murky' => Confirmable' /\ OnItsWay(g)'
      BY <1>4, <1>5, <2>1, <3>1 DEF Confirmable, OnItsWay
    <3>3. BcKept' /\ texts <= texts'
      BY <1>1, <2>1, <2>3 DEF BcKept
    <3>4. ~murky' => Continues(g)
      BY <1>2, <2>1 DEF Continues
    <3> QED BY <1>5, <3>1, <3>2, <3>3, <3>4, BcOnward
  <2> QED BY <1>7, <2>2, <2>3 DEF Bc!Preview
<1>8. CASE Bc!Confirm(g)
  <2>1. bcRun' = [bcRun EXCEPT ![g] = Bc!Rest] /\ bcRun'[g] = Bc!Rest /\ bcRun[g].pc = "confirm"
        /\ Bc!SetState("broadcast_confirm") /\ UNCHANGED <<targets, buttons, texts, shown, begun, murky>>
    BY <1>1, <1>8 DEF Bc!Confirm, Bc!At, Bc!Return
  <2>2. bcStore' \in BcRecord /\ bcStore'.data = bcStore.data
    BY <1>1, <2>1 DEF Bc!SetState, BcRecord, Bc!States
  <2>3. ~murky' => Confirmable' /\ OnItsWay(g)'
    <3>1. ~murky' => Ready'
      BY <1>4, <2>1, <2>2 DEF OnItsWay, Ready
    <3> QED BY <1>5, <2>1, <3>1 DEF Confirmable, OnItsWay
  <2>4. BcKept' /\ texts <= texts'
    BY <1>1, <2>1, <2>2 DEF BcKept
  <2>5. ~murky' => Continues(g)
    BY <1>2, <2>1 DEF Continues
  <2> QED BY <1>5, <2>1, <2>3, <2>4, <2>5, BcOnward
<1> QED BY <1>6, <1>7, <1>8

\* The button is pressed while everybody rests, or makes things murky.
LEMMA ButtonIsPressed ==
  ASSUME BcInv, NEW g \in Updates, NEW b \in buttons, Bc!Ok(g, b)
  PROVE  BcInv'
<1> DEFINE r == [pc |-> "edit", text |-> bcStore.data["bc_text"], button |-> b]
<1>1. /\ texts \in Nat /\ begun \subseteq 1 .. texts /\ buttons \subseteq 1 .. texts /\ shown \in 0 .. texts
      /\ bcStore \in BcRecord /\ bcStore.data["bc_text"] \in 0 .. texts /\ bcRun \in [Updates -> Announcing]
      /\ targets \subseteq Users
      /\ murky \in BOOLEAN
  BY DEF BcInv, BcTyped, BcKept
<1>2. /\ bcRun[g] = Bc!Rest /\ bcStore.state = "broadcast_confirm" /\ bcStore.data["bc_text"] # 0
      /\ bcRun' = [bcRun EXCEPT ![g] = r] /\ murky' = (murky \/ Bc!Busy # {})
      /\ UNCHANGED <<bcStore, targets, buttons, texts, shown, begun>>
  BY DEF Bc!Ok, Bc!Confirming, Bc!GetState, Bc!GetData
<1>3. r \in Announcing /\ r.pc = "edit" /\ r.text = bcStore.data["bc_text"] /\ r.text \in 1 .. texts
  BY <1>1, <1>2 DEF Announcing
<1> HIDE DEF r
<1>4. bcRun'[g] = r
  BY <1>1, <1>2
<1>5. ~murky' => ~murky /\ Bc!Busy = {}
  BY <1>2
<1>6. ASSUME ~murky' PROVE Confirmable' /\ OnItsWay(g)'
  <2>1. Ready
    <3>1. ~\E h \in Updates : bcRun[h].pc = "send"
      BY <1>5, <1>6 DEF Bc!Busy, Bc!Rest
    <3> QED BY <1>2, <1>5, <1>6, <3>1 DEF BcInv, Confirmable
  <2>2. Ready' /\ bcStore.data["bc_text"] = shown /\ shown \notin begun
    BY <1>2, <2>1 DEF Ready
  <2> QED BY <1>2, <1>3, <1>4, <2>2 DEF Confirmable, OnItsWay
<1>7. murky' \in BOOLEAN
  BY <1>2
<1>8. BcKept' /\ texts <= texts' /\ (r # Bc!Rest => r.text \in 1 .. texts')
  BY <1>1, <1>2, <1>3, <1>7 DEF BcKept
<1>9. ~murky' => Continues(g)
  BY <1>5 DEF Continues
<1> QED BY <1>2, <1>3, <1>6, <1>8, <1>9, BcOnward

\* The update of the button takes it away, reads the users and sends to one after the other.
LEMMA TextIsSent ==
  ASSUME BcInv, NEW g \in Updates, Bc!Edit(g) \/ Bc!Targets(g) \/ \E u \in Users : Bc!Send(g, u)
  PROVE  BcInv'
<1>1. /\ texts \in Nat /\ begun \subseteq 1 .. texts /\ buttons \subseteq 1 .. texts /\ shown \in 0 .. texts
      /\ bcStore \in BcRecord /\ bcStore.data["bc_text"] \in 0 .. texts /\ bcRun \in [Updates -> Announcing]
      /\ targets \subseteq Users /\ murky \in BOOLEAN
  BY DEF BcInv, BcTyped, BcKept
<1>2. bcRun[g].pc \in {"edit", "targets", "send"} /\ bcRun[g] # Bc!Rest
  BY DEF Bc!Edit, Bc!Targets, Bc!Send, Bc!At, Bc!Rest
<1>3. bcRun[g].text \in 1 .. texts /\ bcRun[g].text \in Nat
  BY <1>1, <1>2 DEF BcInv, BcTyped
<1>4. ~murky => OnItsWay(g) /\ Confirmable /\ Alone
  BY DEF BcInv
<1>5. Bc!Rest \in Announcing /\ Bc!Rest.pc = "idle"
  BY DEF Announcing, Bc!Rest
<1>6. ~murky => Continues(g)
  BY <1>2 DEF Continues
<1>7. CASE Bc!Edit(g)
  <2>1. bcRun[g].pc = "edit" /\ UNCHANGED <<bcStore, targets, texts, shown, begun, murky>>
        /\ buttons' \subseteq 1 .. texts
    BY <1>1, <1>7 DEF Bc!Edit, Bc!At
  <2>2. BcKept' /\ texts <= texts'
    BY <1>1, <2>1 DEF BcKept
  <2>3. ~murky => (bcStore.state = "broadcast_confirm" => Ready) /\ bcRun[g].text = shown /\ shown \notin begun
    <3>1. ASSUME ~murky PROVE ~\E h \in Updates : bcRun[h].pc = "send"
      BY <1>2, <1>4, <2>1, <3>1 DEF Alone, Bc!Rest
    <3> QED BY <1>4, <2>1, <3>1 DEF Confirmable, OnItsWay
  <2>4. Ready' <=> Ready
    BY <2>1 DEF Ready
  <2>5. CASE bcRun' = [bcRun EXCEPT ![g].pc = "targets"]
    <3> DEFINE r == [bcRun[g] EXCEPT !.pc = "targets"]
    <3>1. bcRun' = [bcRun EXCEPT ![g] = r]
      BY <1>1, <2>5
    <3>2. r \in Announcing /\ r.pc = "targets" /\ r.text = bcRun[g].text
      <4>1. bcRun[g] \in [pc : {"edit", "targets"}, text : Nat, button : Nat]
        BY <1>1, <2>1 DEF Announcing, Bc!Rest
      <4> QED BY <4>1 DEF Announcing
    <3> HIDE DEF r
    <3>3. bcRun'[g] = r
      BY <1>1, <3>1
    <3>4. ~murky' => Confirmable' /\ OnItsWay(g)'
      BY <2>1, <2>3, <2>4, <3>2, <3>3 DEF Confirmable, OnItsWay
    <3> QED BY <1>3, <1>6, <2>1, <2>2, <3>1, <3>2, <3>4, BcOnward
  <2>6. CASE Bc!Return(g)
    <3>1. bcRun' = [bcRun EXCEPT ![g] = Bc!Rest] /\ bcRun'[g] = Bc!Rest
      BY <1>1, <2>6 DEF Bc!Return
    <3>2. ~murky' => Confirmable' /\ OnItsWay(g)'
      BY <1>5, <2>1, <2>3, <2>4, <3>1 DEF Confirmable, OnItsWay
    <3> QED BY <1>5, <1>6, <2>1, <2>2, <3>1, <3>2, BcOnward
  <2> QED BY <1>7, <2>5, <2>6 DEF Bc!Edit
<1>8. CASE Bc!Targets(g) \/ \E u \in Users : Bc!Send(g, u)
  <2>1. PICK left \in SUBSET Users : bcRun' = [bcRun EXCEPT ![g] = [pc |-> "send", text |-> bcRun[g].text, left |-> left]]
    <3>1. CASE Bc!Targets(g)
      BY <1>1, <3>1 DEF Bc!Targets
    <3>2. ASSUME NEW u \in Users, Bc!Send(g, u)
          PROVE  \E left \in SUBSET Users : bcRun' = [bcRun EXCEPT ![g] = [pc |-> "send", text |-> bcRun[g].text, left |-> left]]
      <4>1. bcRun[g] \in [pc : {"send"}, text : Nat, left : SUBSET Users]
        BY <1>1, <3>2 DEF Bc!Send, Bc!At, Announcing, Bc!Rest
      <4>2. bcRun' = [bcRun EXCEPT ![g] = [bcRun[g] EXCEPT !.left = bcRun[g].left \ {u}]]
        BY <1>1, <3>2 DEF Bc!Send
      <4>3. [bcRun[g] EXCEPT !.left = bcRun[g].left \ {u}]
              = [pc |-> "send", text |-> bcRun[g].text, left |-> bcRun[g].left \ {u}]
        BY <4>1
      <4>4. bcRun[g].left \ {u} \in SUBSET Users
        BY <4>1
      <4> QED BY <4>2, <4>3, <4>4
    <3> QED BY <1>8, <3>1, <3>2
  <2> DEFINE r == [pc |-> "send", text |-> bcRun[g].text, left |-> left]
  <2>2. r \in Announcing /\ r.pc = "send" /\ r.text = bcRun[g].text /\ bcRun' = [bcRun EXCEPT ![g] = r]
    BY <1>3, <2>1 DEF Announcing
  <2> HIDE DEF r
  <2>3. /\ UNCHANGED <<bcStore, targets, buttons, texts, shown, murky>>
        /\ begun' \subseteq 1 .. texts
    BY <1>1, <1>3, <1>8 DEF Bc!Targets, Bc!Send
  <2>4. bcRun'[g] = r
    BY <1>1, <2>2
  <2>5. BcKept' /\ texts <= texts'
    BY <1>1, <2>3 DEF BcKept
  <2>6. Confirmable' /\ OnItsWay(g)'
    BY <2>2, <2>4 DEF Confirmable, OnItsWay
  <2> QED BY <1>3, <1>6, <2>2, <2>3, <2>5, <2>6, BcOnward
<1> QED BY <1>7, <1>8

\* The sending ends, and the record is emptied, or something fails.
LEMMA SendingEnds ==
  ASSUME BcInv, NEW g \in Updates, Bc!Done(g) \/ Bc!Fail(g)
  PROVE  BcInv'
<1>1. /\ texts \in Nat /\ begun \subseteq 1 .. texts /\ buttons \subseteq 1 .. texts /\ shown \in 0 .. texts
      /\ bcStore \in BcRecord /\ bcStore.data["bc_text"] \in 0 .. texts /\ bcRun \in [Updates -> Announcing]
      /\ targets \subseteq Users /\ murky \in BOOLEAN
  BY DEF BcInv, BcTyped, BcKept
<1>2. Bc!Rest \in Announcing /\ Bc!Rest.pc = "idle"
  BY DEF Announcing, Bc!Rest
<1>3. bcRun' = [bcRun EXCEPT ![g] = Bc!Rest] /\ bcRun'[g] = Bc!Rest /\ bcRun[g] # Bc!Rest
      /\ UNCHANGED <<targets, buttons, texts, shown, begun>>
  BY <1>1 DEF Bc!Done, Bc!Fail, Bc!Return, Bc!At, Bc!Rest
<1>4. CASE Bc!Done(g)
  <2>1. bcStore' = Bc!Empty /\ murky' = murky
    BY <1>4 DEF Bc!Done, Bc!Clear
  <2>2. bcStore' \in BcRecord /\ bcStore'.data["bc_text"] = 0 /\ bcStore'.state = NoState
    BY <2>1, ConversationsAssumption DEF Bc!Empty, BcRecord
  <2>3. bcStore'.state # "broadcast_confirm"
    BY <2>2, BcConstants DEF Bc!States
  <2>4. BcKept' /\ texts <= texts'
    BY <1>1, <1>3, <2>1, <2>2 DEF BcKept
  <2>5. Confirmable' /\ OnItsWay(g)'
    BY <1>2, <1>3, <2>3 DEF Confirmable, OnItsWay
  <2>6. ~murky' => Continues(g)
    BY <1>3, <2>1 DEF Continues
  <2> QED BY <1>2, <1>3, <2>4, <2>5, <2>6, BcOnward
<1>5. CASE Bc!Fail(g)
  <2>1. murky' = TRUE /\ UNCHANGED bcStore
    BY <1>5 DEF Bc!Fail
  <2>2. murky' \in BOOLEAN /\ murky'
    BY <2>1
  <2>3. BcKept' /\ texts <= texts'
    BY <1>1, <1>3, <2>1, <2>2 DEF BcKept
  <2> QED BY <1>2, <1>3, <2>2, <2>3, BcOnward
<1> QED BY <1>4, <1>5

\* Whoever acts, what is shown is what is sent.
LEMMA BcNext == ASSUME BcInv, [Next]_vars PROVE BcInv'
<1>1. [Bc!Next]_bcVars
  BY EachSteps
<1>2. CASE UNCHANGED bcVars
  <2>1. BcTyped'
    BY <1>2 DEF BcInv, BcTyped, BcKept, bcVars
  <2>2. ASSUME ~murky' PROVE Alone' /\ Confirmable' /\ \A g \in Updates : OnItsWay(g)'
    <3>1. Alone /\ Confirmable /\ \A g \in Updates : OnItsWay(g)
      BY <1>2, <2>2 DEF BcInv, bcVars
    <3> QED BY <1>2, <3>1 DEF Alone, Confirmable, OnItsWay, Ready, bcVars
  <2> QED BY <2>1, <2>2 DEF BcInv
<1>3. ASSUME NEW g \in Updates, Bc!Step(g) PROVE BcInv'
  BY <1>3, TextComes, TextIsShown, ButtonIsPressed, TextIsSent, SendingEnds DEF Bc!Step
<1> QED BY <1>1, <1>2, <1>3, AdminTurns, BcForgets DEF Bc!Next

\* Whichever preview's button is pressed, and whatever conversation the admin began or left in
\* between, what goes to everyone is the last text that was previewed, and it goes once: as
\* long as no updates overlapped and none failed since it came in.
THEOREM WhatWasShownIsSent == Spec => []AnnouncedAsPreviewed
<1>1. BcInv => AnnouncedAsPreviewed
  BY DEF BcInv, OnItsWay, AnnouncedAsPreviewed, Bc!AnnouncedAsPreviewed, Bc!At
<1> QED BY <1>1, BcInit, BcNext, PTL DEF Spec

-----------------------------------------------------------------------------
(* Onboarding and settings *)

AccRecord == [state : Acc!States \cup {NoState}, data : [{} -> {0}]]

\* A switch is on or off.
AccRows == {r \in Acc!Rows : "toggle" \in Settings => r.set["toggle"] \in 0 .. 1}

\* A goroutine of a user who was not blocked when it began, with its copy of the row.
Serving ==
  [pc : {"route", "write", "next", "complete", "clear", "delete"}, request : Acc!Requests,
   copy : {r \in AccRows : ~r.blocked}, then : {"end", "next", "clear"}, over : BOOLEAN]

AccTyped ==
  /\ accStore \in AccRecord /\ accRow \in AccRows \cup {None} /\ accRaced \in BOOLEAN
  /\ accRun \in [Updates -> {Acc!Rest} \cup Serving]

\* A goroutine that no other overlapped, and nobody else is busy then.
Apart(g) == accRun[g] # Acc!Rest /\ ~accRun[g].over

AccAlone == \A g, h \in Updates : Apart(g) /\ accRun[h] # Acc!Rest => g = h

\* What the update is about, and may write: the setting of its button, or the one a text
\* is awaited for.
About(g) ==
  {accRun[g].request.do}
    \cup {Acc!Typed[t] : t \in {accStore.state} \cap DOMAIN Acc!Typed}

\* Its copy is the row, but for what it is about to write.
Faithful(g) ==
  accRow # None =>
    /\ accRun[g].copy.onboarded <=> accRow.onboarded
         \/ (accRun[g].pc = "write" /\ accRun[g].then = "clear" /\ accRun[g].copy.onboarded)
    /\ \A s \in Settings : accRun[g].copy.set[s] # accRow.set[s] => accRun[g].pc = "write" /\ s \in About(g)

\* The onboarding is for who has not finished it,
Newcomer == accRow # None /\ ~accRow.onboarded

Welcome ==
  (\A g \in Updates : accRun[g].pc # "clear") => (accStore.state \in Acc!Onboarding => Newcomer)

\* and whoever goes on to the next screen is in it.
Onboards(g) ==
  accRun[g].pc = "next" \/ (accRun[g].pc = "write" /\ accRun[g].then = "next") => Newcomer

AccInv ==
  /\ AccTyped /\ AccAlone
  /\ \A g \in Updates : Apart(g) => Faithful(g) /\ (accRun[g].pc = "route" => accRow # None)
  /\ ~accRaced => /\ Welcome
                  /\ \A g \in Updates : accRun[g] # Acc!Rest => Apart(g) /\ Onboards(g)

\* What the module assumes of its constants.
LEMMA AccConstants ==
  /\ NoState \notin Acc!States /\ None \notin Acc!Rows /\ Settings \subseteq Acc!Names
BY ConversationsAssumption DEF Acc!AccountsAssumption

\* At first there is no row and nobody is busy.
LEMMA AccInit == Init => AccInv
<1> SUFFICES ASSUME Init PROVE AccInv
  OBVIOUS
<1>1. accStore = Acc!Empty /\ accRow = None /\ accRun = [g \in Updates |-> Acc!Rest] /\ accRaced = FALSE
  BY DEF Init, Acc!Init
<1>2. accStore \in AccRecord /\ accStore.state = NoState
  BY <1>1 DEF Acc!Empty, AccRecord
<1>3. accRun \in [Updates -> {Acc!Rest} \cup Serving] /\ \A g \in Updates : accRun[g] = Acc!Rest
  BY <1>1
<1>4. accRaced \in BOOLEAN
  BY <1>1
<1>5. AccTyped
  BY <1>1, <1>2, <1>3, <1>4 DEF AccTyped
<1>6. Welcome /\ \A g \in Updates : ~Apart(g)
  BY <1>2, <1>3, AccConstants DEF Welcome, Apart, Acc!States, Acc!Onboarding
<1> QED BY <1>3, <1>5, <1>6 DEF AccInv, AccAlone, Apart

\* An update goes on, and its overlap is what it was: what it does next must fit, if it is
\* alone.
LEMMA AccOnward ==
  ASSUME AccInv, NEW g \in Updates, accRun[g] # Acc!Rest,
         NEW r \in {Acc!Rest} \cup Serving, accRun' = [accRun EXCEPT ![g] = r],
         r # Acc!Rest => (r.over <=> accRun[g].over),
         accStore' \in AccRecord, accRow' \in AccRows \cup {None}, accRaced' = accRaced,
         Apart(g) /\ r # Acc!Rest => Faithful(g)' /\ (r.pc = "route" => accRow' # None),
         ~accRaced => Welcome' /\ (r # Acc!Rest => Onboards(g)')
  PROVE  AccInv'
<1>1. accRun' \in [Updates -> {Acc!Rest} \cup Serving]
      /\ \A h \in Updates : accRun'[h] = IF h = g THEN r ELSE accRun[h]
  BY DEF AccInv, AccTyped
<1>2. AccTyped'
  BY <1>1 DEF AccInv, AccTyped
<1>3. \A h \in Updates : h # g => ~Apart(h)
  BY DEF AccInv, AccAlone
<1>4. \A h \in Updates : Apart(h)' => h = g /\ Apart(g) /\ r # Acc!Rest
  BY <1>1, <1>3 DEF Apart
<1>5. AccAlone'
  <2> SUFFICES ASSUME NEW h \in Updates, NEW i \in Updates, Apart(h)', accRun'[i] # Acc!Rest PROVE h = i
    BY DEF AccAlone
  <2>1. h = g /\ Apart(g)
    BY <1>4
  <2>2. i # g => accRun[i] # Acc!Rest
    BY <1>1
  <2> QED BY <2>1, <2>2 DEF AccInv, AccAlone
<1>6. \A h \in Updates : Apart(h)' => Faithful(h)' /\ (accRun'[h].pc = "route" => accRow' # None)
  BY <1>1, <1>4
<1>7. ASSUME ~accRaced', NEW h \in Updates, accRun'[h] # Acc!Rest PROVE Apart(h)' /\ Onboards(h)'
  <2>1. Apart(g) /\ h = g
    BY <1>1, <1>3, <1>7 DEF AccInv
  <2>2. r # Acc!Rest /\ accRun'[h] = r /\ ~r.over
    BY <1>1, <1>7, <2>1 DEF Apart
  <2> QED BY <1>7, <2>1, <2>2 DEF Apart
<1> QED BY <1>2, <1>5, <1>6, <1>7 DEF AccInv

\* An update ends, and leaves the conversation in a state that is good for this user.
LEMMA AccEnds ==
  ASSUME AccInv, NEW g \in Updates, accRun[g] # Acc!Rest, Acc!Return(g), UNCHANGED <<accRow, accRaced>>,
         accStore' \in AccRecord, ~accRaced /\ accStore'.state \in Acc!Onboarding => Newcomer
  PROVE  AccInv'
<1>1. accRun' = [accRun EXCEPT ![g] = Acc!Rest]
  BY DEF Acc!Return
<1>2. ~accRaced => Welcome'
  BY DEF Welcome, Newcomer
<1>3. accRow' \in AccRows \cup {None}
  BY DEF AccInv, AccTyped
<1> QED BY <1>1, <1>2, <1>3, AccOnward

\* The operations of the record.
LEMMA AccRecords ==
  ASSUME accStore \in AccRecord
  PROVE  /\ Acc!Clear => accStore' \in AccRecord /\ accStore'.state = NoState
         /\ \A s \in Acc!States : Acc!SetState(s) => accStore' \in AccRecord /\ accStore'.state = s
BY DEF Acc!Clear, Acc!Empty, Acc!SetState, AccRecord

\* What an update that is alone finds while it answers.
LEMMA Serves ==
  ASSUME AccInv, NEW g \in Updates, accRun[g] # Acc!Rest
  PROVE  /\ accRun[g] \in Serving /\ accRun[g].copy \in AccRows /\ ~accRun[g].copy.blocked
         /\ accStore \in AccRecord /\ accRow \in AccRows \cup {None}
         /\ Apart(g) => Faithful(g) /\ (accRun[g].pc = "route" => accRow # None)
         /\ ~accRaced => Apart(g) /\ Onboards(g) /\ \A h \in Updates : h # g => accRun[h] = Acc!Rest
         /\ ~accRaced /\ accRun[g].pc # "clear" => (accStore.state \in Acc!Onboarding => Newcomer)
<1>1. accRun[g] \in Serving /\ accStore \in AccRecord /\ accRow \in AccRows \cup {None}
  BY DEF AccInv, AccTyped
<1>2. accRun[g].copy \in AccRows /\ ~accRun[g].copy.blocked
  BY <1>1 DEF Serving
<1>3. Apart(g) => Faithful(g) /\ (accRun[g].pc = "route" => accRow # None)
  BY DEF AccInv
<1>4. ~accRaced => Apart(g) /\ Onboards(g) /\ \A h \in Updates : h # g => accRun[h] = Acc!Rest
  BY DEF AccInv, AccAlone
<1>5. ASSUME ~accRaced, accRun[g].pc # "clear" PROVE accStore.state \in Acc!Onboarding => Newcomer
  <2>1. \A h \in Updates : accRun[h].pc # "clear"
    BY <1>4, <1>5 DEF Acc!Rest
  <2> QED BY <1>5, <2>1 DEF AccInv, Welcome
<1> QED BY <1>1, <1>2, <1>3, <1>4, <1>5


\* An update comes in: alone, if nobody is busy.
LEMMA AccBegins ==
  ASSUME AccInv, NEW g \in Updates, NEW request \in Acc!Requests, Acc!Begin(g, request)
  PROVE  AccInv'
<1>1. accRun[g] = Acc!Rest /\ accRow' = Acc!Loaded /\ UNCHANGED accStore
  BY DEF Acc!Begin
<1>2. accRun \in [Updates -> {Acc!Rest} \cup Serving] /\ accRow \in AccRows \cup {None} /\ accStore \in AccRecord
      /\ accRaced \in BOOLEAN
  BY DEF AccInv, AccTyped
<1>3. Acc!Fresh \in AccRows /\ ~Acc!Fresh.blocked /\ ~Acc!Fresh.onboarded
  BY DEF Acc!Fresh, AccRows, Acc!Rows
<1>4. Acc!Loaded \in AccRows /\ Acc!Loaded # None /\ (accRow # None => Acc!Loaded = accRow)
      /\ (accRow = None => Acc!Loaded = Acc!Fresh)
  <2>1. None \notin AccRows
    BY AccConstants DEF AccRows
  <2> QED BY <1>2, <1>3, <2>1 DEF Acc!Loaded
<1>5. CASE Acc!Loaded.blocked
  <2>1. UNCHANGED <<accStore, accRow, accRun, accRaced>>
    BY <1>1, <1>3, <1>4, <1>5 DEF Acc!Begin
  <2> QED BY <2>1 DEF AccInv, AccTyped, AccAlone, Apart, Faithful, About, Welcome, Newcomer, Onboards
<1>6. CASE ~Acc!Loaded.blocked
  <2> DEFINE r == [pc |-> "route", request |-> request, copy |-> Acc!Loaded, then |-> "end",
                   over |-> Acc!Busy # {}]
  <2>1. /\ accRun' = [h \in Updates |->
                        IF h = g THEN r
                        ELSE IF accRun[h] = Acc!Rest THEN Acc!Rest ELSE [accRun[h] EXCEPT !.over = TRUE]]
        /\ accRaced' = (Acc!Busy # {} \/ (accRaced /\ accStore # Acc!Empty))
    BY <1>6 DEF Acc!Begin
  <2>2. r \in Serving /\ r.pc = "route" /\ r.copy = Acc!Loaded /\ (r.over <=> Acc!Busy # {})
        /\ r.request = request
    <3>1. Acc!Loaded \in {x \in AccRows : ~x.blocked}
      BY <1>4, <1>6
    <3>2. (Acc!Busy # {}) \in BOOLEAN
      OBVIOUS
    <3>3. \A b \in BOOLEAN : [pc |-> "route", request |-> request, copy |-> Acc!Loaded, then |-> "end", over |-> b] \in Serving
      BY <3>1 DEF Serving
    <3> QED BY <3>2, <3>3
  <2> HIDE DEF r
  <2>3. \A h \in Updates : accRun[h] \in Serving =>
          [accRun[h] EXCEPT !.over = TRUE] \in Serving /\ [accRun[h] EXCEPT !.over = TRUE].over
    BY DEF Serving
  <2>4. accRun' \in [Updates -> {Acc!Rest} \cup Serving]
    BY <1>2, <2>1, <2>2, <2>3
  <2>5. AccTyped'
    <3>1. accRaced' \in BOOLEAN
      BY <2>1
    <3> QED BY <1>1, <1>2, <1>4, <2>4, <3>1 DEF AccTyped
  <2>6. ASSUME NEW h \in Updates, Apart(h)' PROVE h = g /\ Acc!Busy = {}
    BY <1>2, <2>1, <2>2, <2>3, <2>6 DEF Apart
  <2>7. Acc!Busy = {} => \A h \in Updates : h # g => accRun'[h] = Acc!Rest
    BY <2>1 DEF Acc!Busy
  <2>8. AccAlone'
    BY <2>6, <2>7 DEF AccAlone
  <2>9. accRun'[g] = r
    BY <2>1
  <2>10. Faithful(g)' /\ accRow' # None
    BY <1>1, <1>4, <2>2, <2>9 DEF Faithful
  <2>11. ASSUME ~accRaced' PROVE Welcome' /\ \A h \in Updates : accRun'[h] # Acc!Rest => Apart(h)' /\ Onboards(h)'
    <3>1. Acc!Busy = {} /\ (~accRaced \/ accStore = Acc!Empty)
      BY <2>1, <2>11
    <3>2. \A h \in Updates : accRun'[h] # Acc!Rest => h = g /\ Apart(h)'
      BY <2>2, <2>7, <2>9, <3>1 DEF Apart
    <3>3. Onboards(g)'
      BY <2>2, <2>9 DEF Onboards
    <3>4. accStore.state \in Acc!Onboarding => Newcomer
      <4>1. CASE accStore = Acc!Empty
        BY <4>1, AccConstants DEF Acc!Empty, Acc!States, Acc!Onboarding
      <4>2. CASE ~accRaced
        <5>1. \A h \in Updates : accRun[h].pc # "clear"
          BY <3>1 DEF Acc!Busy, Acc!Rest
        <5> QED BY <4>2, <5>1 DEF AccInv, Welcome
      <4> QED BY <3>1, <4>1, <4>2
    <3>5. Newcomer => Newcomer'
      BY <1>1, <1>4 DEF Newcomer
    <3> QED BY <1>1, <3>2, <3>3, <3>4, <3>5 DEF Welcome
  <2> QED BY <2>5, <2>6, <2>8, <2>10, <2>11 DEF AccInv
<1> QED BY <1>5, <1>6

\* The next step of an update that has nothing to write.
LEMMA AccGoes ==
  ASSUME AccInv, NEW g \in Updates, accRun[g] # Acc!Rest, accRun[g].pc \notin {"write", "clear"},
         NEW pc \in {"next", "complete", "clear", "delete"}, Acc!Goto(g, pc),
         UNCHANGED <<accStore, accRow, accRaced>>, pc = "next" /\ ~accRaced => Newcomer
  PROVE  AccInv'
<1> DEFINE r == [accRun[g] EXCEPT !.pc = pc]
<1>1. accRun[g] \in Serving /\ accRun \in [Updates -> {Acc!Rest} \cup Serving]
      /\ accStore \in AccRecord /\ accRow \in AccRows \cup {None}
  BY Serves DEF AccInv, AccTyped
<1>2. accRun' = [accRun EXCEPT ![g] = r]
  BY <1>1 DEF Acc!Goto
<1>3. /\ r \in Serving /\ r.pc = pc /\ r.copy = accRun[g].copy /\ r.request = accRun[g].request
      /\ r.then = accRun[g].then /\ r.over = accRun[g].over
  BY <1>1 DEF Serving
<1> HIDE DEF r
<1>4. accRun'[g] = r
  BY <1>1, <1>2
<1>5. Apart(g) => Faithful(g)'
  <2>1. Apart(g) => Faithful(g)
    BY Serves
  <2> QED BY <1>3, <1>4, <2>1 DEF Faithful
<1>6. ~accRaced => Welcome' /\ Onboards(g)'
  <2>1. ~accRaced => (accStore.state \in Acc!Onboarding => Newcomer)
    BY Serves
  <2> QED BY <1>3, <1>4, <2>1 DEF Welcome, Onboards, Newcomer
<1> QED BY <1>1, <1>2, <1>3, <1>5, <1>6, AccOnward

\* An update is about to write its copy, changed in what it is about.
LEMMA AccWrites ==
  ASSUME AccInv, NEW g \in Updates, accRun[g] # Acc!Rest, accRun[g].pc \notin {"write", "clear"},
         NEW copy \in AccRows, ~copy.blocked, NEW then \in {"end", "next", "clear"},
         Acc!WriteThen(g, copy, then), UNCHANGED <<accStore, accRow, accRaced>>,
         (copy.onboarded <=> accRun[g].copy.onboarded) \/ (then = "clear" /\ copy.onboarded),
         \A s \in Settings : copy.set[s] # accRun[g].copy.set[s] => s \in About(g),
         then = "next" /\ ~accRaced => Newcomer
  PROVE  AccInv'
<1> DEFINE r == [accRun[g] EXCEPT !.pc = "write", !.copy = copy, !.then = then]
<1>1. accRun[g] \in Serving /\ accRun \in [Updates -> {Acc!Rest} \cup Serving]
      /\ accStore \in AccRecord /\ accRow \in AccRows \cup {None}
  BY Serves DEF AccInv, AccTyped
<1>2. accRun' = [accRun EXCEPT ![g] = r]
  BY <1>1 DEF Acc!WriteThen
<1>3. /\ r \in Serving /\ r.pc = "write" /\ r.copy = copy /\ r.request = accRun[g].request
      /\ r.then = then /\ r.over = accRun[g].over
  BY <1>1 DEF Serving
<1> HIDE DEF r
<1>4. accRun'[g] = r
  BY <1>1, <1>2
<1>5. Apart(g) => Faithful(g)'
  <2>1. Apart(g) => Faithful(g)
    BY Serves
  <2>2. About(g)' = About(g)
    BY <1>3, <1>4 DEF About
  <2> QED BY <1>3, <1>4, <2>1, <2>2 DEF Faithful
<1>6. ~accRaced => Welcome' /\ Onboards(g)'
  <2>1. ~accRaced => (accStore.state \in Acc!Onboarding => Newcomer)
    BY Serves
  <2> QED BY <1>3, <1>4, <2>1 DEF Welcome, Onboards, Newcomer
<1> QED BY <1>1, <1>2, <1>3, <1>5, <1>6, AccOnward

\* One setting is changed in it.
LEMMA AccSets ==
  ASSUME AccInv, NEW g \in Updates, accRun[g].pc = "route", NEW s, s \in About(g),
         NEW value, s \in Settings => value \in 0 .. 2 /\ (s = "toggle" => value \in 0 .. 1),
         NEW then \in {"end", "next", "clear"},
         Acc!SetThen(g, s, value, then), UNCHANGED <<accStore, accRow, accRaced>>,
         then = "next" /\ ~accRaced => Newcomer
  PROVE  AccInv'
<1> DEFINE copy == IF s \in Settings THEN [accRun[g].copy EXCEPT !.set[s] = value] ELSE accRun[g].copy
<1>1. accRun[g] # Acc!Rest
  BY DEF Acc!Rest
<1>2. accRun[g].copy \in AccRows /\ ~accRun[g].copy.blocked
  BY <1>1, Serves
<1>3. /\ copy \in AccRows /\ ~copy.blocked /\ (copy.onboarded <=> accRun[g].copy.onboarded)
      /\ \A q \in Settings : copy.set[q] # accRun[g].copy.set[q] => q = s
  <2>1. CASE s \notin Settings
    BY <1>2, <2>1
  <2>2. CASE s \in Settings
    <3>1. /\ accRun[g].copy \in Acc!Rows
          /\ "toggle" \in Settings => accRun[g].copy.set["toggle"] \in 0 .. 1
      BY <1>2 DEF AccRows
    <3>2. copy = [accRun[g].copy EXCEPT !.set[s] = value] /\ value \in 0 .. 2 /\ (s = "toggle" => value \in 0 .. 1)
      BY <2>2
    <3>3. copy \in Acc!Rows /\ copy.onboarded = accRun[g].copy.onboarded /\ copy.blocked = accRun[g].copy.blocked
          /\ \A q \in Settings : copy.set[q] = IF q = s THEN value ELSE accRun[g].copy.set[q]
      BY <2>2, <3>1, <3>2 DEF Acc!Rows
    <3> QED BY <1>2, <3>1, <3>2, <3>3 DEF AccRows
  <2> QED BY <2>1, <2>2
<1>4. Acc!WriteThen(g, copy, then)
  BY DEF Acc!SetThen
<1> HIDE DEF copy
<1> QED BY <1>1, <1>3, <1>4, AccWrites

\* What an update that was routed finds: the row is there, and its copy is the row.
LEMMA Routed ==
  ASSUME AccInv, NEW g \in Updates, accRun[g].pc = "route"
  PROVE  /\ accRun[g] # Acc!Rest /\ accRun[g].request \in Acc!Requests /\ accStore \in AccRecord
         /\ accRun[g].copy \in AccRows /\ ~accRun[g].copy.blocked
         /\ ~accRaced => accRow # None /\ (accRun[g].copy.onboarded <=> accRow.onboarded)
         /\ ~accRaced => (accStore.state \in Acc!Onboarding => Newcomer)
<1>1. accRun[g] # Acc!Rest
  BY DEF Acc!Rest
<1>2. accRun[g] \in Serving /\ accRun[g].request \in Acc!Requests
  BY <1>1, Serves DEF Serving
<1>3. ~accRaced => Faithful(g) /\ accRow # None
  BY <1>1, Serves
<1> QED BY <1>1, <1>2, <1>3, Serves DEF Faithful

\* The answers that only end the update, or ask for a text.
LEMMA AccAsksOrLeaves ==
  ASSUME AccInv, NEW g \in Updates,
         \/ Acc!cmdStart(g) \/ Acc!cbMenuSettings(g) \/ Acc!cbTzOther(g) \/ Acc!cbTimeOther(g)
         \/ Acc!cbWipeWarning(g) \/ Acc!Finish(g)
  PROVE  AccInv'
<1>1. accRun[g].pc \in {"route", "clear"} /\ accRun[g] # Acc!Rest
      /\ Acc!Return(g) /\ UNCHANGED <<accRow, accRaced>>
  BY DEF Acc!cmdStart, Acc!cbMenuSettings, Acc!cbTzOther, Acc!cbTimeOther, Acc!cbWipeWarning, Acc!AskText,
         Acc!Finish, Acc!Asks, Acc!At, Acc!Rest
<1>2. accStore \in AccRecord
  BY DEF AccInv, AccTyped
<1>3. CASE Acc!cmdStart(g)
  <2>1. accRun[g].pc = "route"
    BY <1>3 DEF Acc!cmdStart, Acc!Asks, Acc!At
  <2>2. accStore' \in AccRecord /\ (~accRaced /\ accStore'.state \in Acc!Onboarding => Newcomer)
    <3>1. CASE accRun[g].copy.onboarded
      <4>1. UNCHANGED accStore
        BY <1>3, <3>1 DEF Acc!cmdStart
      <4> QED BY <1>2, <2>1, <4>1, Routed
    <3>2. CASE ~accRun[g].copy.onboarded
      <4>1. Acc!SetState("lang")
        BY <1>3, <3>2 DEF Acc!cmdStart
      <4>2. accStore' \in AccRecord
        BY <1>2, <4>1, AccRecords DEF Acc!States, Acc!Onboarding
      <4> QED BY <2>1, <3>2, <4>2, Routed DEF Newcomer
    <3> QED BY <3>1, <3>2
  <2> QED BY <1>1, <2>2, AccEnds
<1>4. CASE Acc!cbMenuSettings(g) \/ Acc!Finish(g)
  <2>1. Acc!Clear
    BY <1>4 DEF Acc!cbMenuSettings, Acc!Finish
  <2>2. accStore' \in AccRecord /\ accStore'.state \notin Acc!Onboarding
    BY <1>2, <2>1, AccRecords, AccConstants DEF Acc!States
  <2> QED BY <1>1, <2>2, AccEnds
<1>5. CASE Acc!cbTzOther(g) \/ Acc!cbTimeOther(g) \/ Acc!cbWipeWarning(g)
  <2>1. PICK s \in {"custom_tz", "custom_time", "wipe_confirm"} : Acc!SetState(s)
    BY <1>5 DEF Acc!cbTzOther, Acc!cbTimeOther, Acc!cbWipeWarning, Acc!AskText
  <2>2. s \in Acc!States /\ s \notin Acc!Onboarding
    BY DEF Acc!States, Acc!Typed, Acc!Onboarding
  <2>3. accStore' \in AccRecord /\ accStore'.state \notin Acc!Onboarding
    BY <1>2, <2>1, <2>2, AccRecords
  <2> QED BY <1>1, <2>3, AccEnds
<1> QED BY <1>3, <1>4, <1>5

\* An onboarding screen is answered: its setting is written, or left as it is.
LEMMA ScreenIsAnswered ==
  ASSUME AccInv, NEW g \in Updates, NEW screen \in Acc!Onboarding, Acc!OnboardingPick(g, screen)
  PROVE  AccInv'
<1>1. /\ accRun[g].pc = "route" /\ accRun[g].request.do = screen /\ accStore.state = screen
      /\ UNCHANGED <<accStore, accRow, accRaced>>
  BY DEF Acc!OnboardingPick, Acc!Asks, Acc!At, Acc!GetState
<1>2. accRun[g] # Acc!Rest /\ (~accRaced => Newcomer) /\ accRun[g].request \in Acc!Requests
  BY <1>1, Routed
<1>3. CASE Acc!Value(g) = None
  <2>1. Acc!Goto(g, "next")
    BY <1>3 DEF Acc!OnboardingPick
  <2> QED BY <1>1, <1>2, <2>1, AccGoes
<1>4. CASE Acc!Value(g) # None
  <2>1. Acc!SetThen(g, screen, Acc!Value(g), "next") /\ screen # "toggle"
    BY <1>4 DEF Acc!OnboardingPick, Acc!Onboarding
  <2>2. Acc!Value(g) = 1
    BY <1>2, <1>4 DEF Acc!Value, Acc!Requests
  <2>3. screen \in About(g)
    BY <1>1 DEF About
  <2> QED BY <1>1, <1>2, <2>1, <2>2, <2>3, AccSets
<1> QED BY <1>3, <1>4

\* The next screen is shown, or the onboarding completed.
LEMMA ScreenIsNext ==
  ASSUME AccInv, NEW g \in Updates, NEW screen, NEW next \in {"tz", "time", "complete"},
         Acc!NextScreen(g, screen, next)
  PROVE  AccInv'
<1>1. accRun[g].pc = "next" /\ accRun[g] # Acc!Rest /\ UNCHANGED <<accRow, accRaced>>
  BY DEF Acc!NextScreen, Acc!At, Acc!Rest
<1>2. accStore \in AccRecord /\ (~accRaced => Newcomer)
  BY <1>1, Serves DEF Onboards
<1>3. CASE next = "complete"
  <2>1. Acc!Goto(g, "complete") /\ UNCHANGED accStore
    BY <1>3 DEF Acc!NextScreen
  <2> QED BY <1>1, <2>1, AccGoes
<1>4. CASE next # "complete"
  <2>1. Acc!SetState(next) /\ Acc!Return(g) /\ next \in Acc!States
    BY <1>4 DEF Acc!NextScreen, Acc!States, Acc!Onboarding
  <2>2. accStore' \in AccRecord
    BY <1>2, <2>1, AccRecords
  <2> QED BY <1>1, <1>2, <2>1, <2>2, AccEnds
<1> QED BY <1>3, <1>4

\* Cancelling the onboarding completes it; cancelling anything else leaves it.
LEMMA OnboardingEnds ==
  ASSUME AccInv, NEW g \in Updates, Acc!cbOnboardingCancel(g) \/ Acc!Complete(g)
  PROVE  AccInv'
<1>1. CASE Acc!cbOnboardingCancel(g)
  <2>1. accRun[g].pc = "route" /\ accRun[g] # Acc!Rest /\ UNCHANGED <<accRow, accRaced>> /\ accStore \in AccRecord
    BY <1>1 DEF Acc!cbOnboardingCancel, Acc!Asks, Acc!At, Acc!Rest, AccInv, AccTyped
  <2>2. CASE Acc!GetState \in Acc!Onboarding
    <3>1. Acc!Goto(g, "complete") /\ UNCHANGED accStore
      BY <1>1, <2>2 DEF Acc!cbOnboardingCancel
    <3> QED BY <2>1, <3>1, AccGoes
  <2>3. CASE Acc!GetState \notin Acc!Onboarding
    <3>1. Acc!Clear /\ Acc!Return(g)
      BY <1>1, <2>3 DEF Acc!cbOnboardingCancel
    <3>2. accStore' \in AccRecord /\ accStore'.state \notin Acc!Onboarding
      BY <2>1, <3>1, AccRecords, AccConstants DEF Acc!States
    <3> QED BY <2>1, <3>1, <3>2, AccEnds
  <2> QED BY <2>2, <2>3
<1>2. CASE Acc!Complete(g)
  <2> DEFINE copy == [accRun[g].copy EXCEPT !.onboarded = TRUE]
  <2>1. accRun[g].pc = "complete" /\ accRun[g] # Acc!Rest /\ Acc!WriteThen(g, copy, "clear")
        /\ UNCHANGED <<accStore, accRow, accRaced>>
    BY <1>2 DEF Acc!Complete, Acc!At, Acc!Rest
  <2>2. accRun[g].copy \in AccRows /\ ~accRun[g].copy.blocked
    BY <2>1, Serves
  <2>3. copy \in AccRows /\ ~copy.blocked /\ copy.onboarded /\ copy.set = accRun[g].copy.set
    BY <2>2 DEF AccRows, Acc!Rows
  <2> HIDE DEF copy
  <2>4. \A s \in Settings : copy.set[s] # accRun[g].copy.set[s] => s \in About(g)
    BY <2>3
  <2> QED BY <2>1, <2>3, <2>4, AccWrites
<1> QED BY <1>1, <1>2

\* A button of the settings writes the setting it names.
LEMMA SettingIsSet ==
  ASSUME AccInv, NEW g \in Updates,
         \/ Acc!cbLangSet(g) \/ Acc!cbTzSet(g) \/ Acc!cbDfSet(g) \/ Acc!cbListSet(g)
         \/ Acc!toggleSetting(g) \/ Acc!cbSettingsTimeSet(g)
  PROVE  AccInv'
<1>1. ASSUME NEW s \in Acc!Names, NEW value, s \in Settings => value \in 0 .. 2 /\ (s = "toggle" => value \in 0 .. 1),
             Acc!Asks(g, s), Acc!SetThen(g, s, value, "end"), UNCHANGED <<accStore, accRow, accRaced>>
      PROVE  AccInv'
  <2>1. accRun[g].pc = "route" /\ s \in About(g)
    BY <1>1 DEF Acc!Asks, Acc!At, About
  <2> QED BY <1>1, <2>1, AccSets
<1>2. ASSUME Acc!Asks(g, "lang") \/ Acc!Asks(g, "format") \/ Acc!Asks(g, "list") PROVE Acc!Value(g) = 1
  <2>1. accRun[g].pc = "route" /\ accRun[g].request.do \in {"lang", "format", "list"}
    BY <1>2 DEF Acc!Asks, Acc!At
  <2>2. accRun[g].request \in Acc!Requests
    BY <2>1, Routed
  <2> QED BY <2>1, <2>2 DEF Acc!Value, Acc!Requests
<1>3. CASE Acc!cbLangSet(g) \/ Acc!cbDfSet(g) \/ Acc!cbListSet(g)
  <2>1. PICK s \in {"lang", "format", "list"} : Acc!Set(g, s, Acc!Value(g))
    BY <1>3 DEF Acc!cbLangSet, Acc!cbDfSet, Acc!cbListSet
  <2>2. Acc!Asks(g, s) /\ Acc!SetThen(g, s, Acc!Value(g), "end") /\ UNCHANGED <<accStore, accRow, accRaced>>
    BY <2>1 DEF Acc!Set
  <2>3. Acc!Value(g) = 1
    BY <1>2, <2>2
  <2>4. s \in Acc!Names /\ s # "toggle"
    BY DEF Acc!Names, Acc!Onboarding
  <2> QED BY <1>1, <2>2, <2>3, <2>4
<1>4. CASE Acc!cbTzSet(g)
  <2> DEFINE value == IF Acc!Value(g) = None THEN 2 ELSE Acc!Value(g)
  <2>1. Acc!Asks(g, "tz") /\ Acc!SetThen(g, "tz", value, "end") /\ UNCHANGED <<accStore, accRow, accRaced>>
    BY <1>4 DEF Acc!cbTzSet, Acc!Set
  <2>2. accRun[g].pc = "route"
    BY <2>1 DEF Acc!Asks, Acc!At
  <2>3. accRun[g].request \in Acc!Requests
    BY <2>2, Routed
  <2>4. value \in 0 .. 2
    BY <2>3 DEF Acc!Value, Acc!Requests
  <2> HIDE DEF value
  <2> QED BY <1>1, <2>1, <2>4 DEF Acc!Names, Acc!Onboarding
<1>5. CASE Acc!toggleSetting(g)
  <2> DEFINE value == 1 - accRun[g].copy.set["toggle"]
  <2>1. Acc!Asks(g, "toggle") /\ Acc!SetThen(g, "toggle", value, "end") /\ UNCHANGED <<accStore, accRow, accRaced>>
    BY <1>5 DEF Acc!toggleSetting, Acc!Set
  <2>2. accRun[g].pc = "route"
    BY <2>1 DEF Acc!Asks, Acc!At
  <2>3. accRun[g].copy \in AccRows
    BY <2>2, Routed
  <2>4. "toggle" \in Settings => value \in 0 .. 1 /\ value \in 0 .. 2
    BY <2>3 DEF AccRows
  <2> HIDE DEF value
  <2> QED BY <1>1, <2>1, <2>4 DEF Acc!Names
<1>6. CASE Acc!cbSettingsTimeSet(g)
  <2>1. Acc!Asks(g, "time") /\ accRun[g].pc = "route" /\ UNCHANGED <<accStore, accRow, accRaced>>
    BY <1>6 DEF Acc!cbSettingsTimeSet, Acc!Asks, Acc!At
  <2>2. accRun[g].request \in Acc!Requests /\ accRun[g] # Acc!Rest /\ accStore \in AccRecord
        /\ (~accRaced => (accStore.state \in Acc!Onboarding => Newcomer))
    BY <2>1, Routed
  <2>3. CASE Acc!Value(g) = None
    <3>1. Acc!Return(g)
      BY <1>6, <2>3 DEF Acc!cbSettingsTimeSet
    <3> QED BY <2>1, <2>2, <3>1, AccEnds
  <2>4. CASE Acc!Value(g) # None
    <3>1. Acc!SetThen(g, "time", Acc!Value(g), "end")
      BY <1>6, <2>4 DEF Acc!cbSettingsTimeSet
    <3>2. Acc!Value(g) = 1
      BY <2>2, <2>4 DEF Acc!Value, Acc!Requests
    <3> QED BY <1>1, <2>1, <3>1, <3>2 DEF Acc!Names, Acc!Onboarding
  <2> QED BY <2>3, <2>4
<1> QED BY <1>3, <1>4, <1>5, <1>6

\* A text sets what it is awaited for, or confirms the wipe.
LEMMA TextIsTaken ==
  ASSUME AccInv, NEW g \in Updates,
         Acc!msgTzCustom(g) \/ Acc!msgSettingsTimeCustom(g) \/ Acc!msgWipeConfirm(g)
  PROVE  AccInv'
<1>1. accRun[g].pc = "route" /\ UNCHANGED <<accStore, accRow, accRaced>>
  BY DEF Acc!msgTzCustom, Acc!msgSettingsTimeCustom, Acc!msgWipeConfirm, Acc!AnswerSetting, Acc!Asks, Acc!At
<1>2. accRun[g].request \in Acc!Requests /\ accRun[g] # Acc!Rest /\ accStore \in AccRecord
      /\ (~accRaced => (accStore.state \in Acc!Onboarding => Newcomer))
  BY <1>1, Routed
<1>3. CASE Acc!Return(g)
  BY <1>1, <1>2, <1>3, AccEnds
<1>4. CASE Acc!Goto(g, "delete")
  BY <1>1, <1>2, <1>4, AccGoes
<1>5. ASSUME NEW state \in {"custom_tz", "custom_time"}, Acc!AnswerSetting(g, state) PROVE AccInv'
  <2>1. CASE Acc!Value(g) = None
    BY <1>3, <1>5, <2>1 DEF Acc!AnswerSetting
  <2>2. CASE Acc!Value(g) # None
    <3>1. Acc!SetThen(g, Acc!Typed[state], Acc!Value(g), "clear") /\ accStore.state = state
      BY <1>5, <2>2 DEF Acc!AnswerSetting, Acc!GetState
    <3>2. Acc!Value(g) = 1
      BY <1>2, <2>2 DEF Acc!Value, Acc!Requests
    <3>3. state \in DOMAIN Acc!Typed /\ Acc!Typed[state] # "toggle"
      BY DEF Acc!Typed
    <3>4. Acc!Typed[state] \in About(g)
      BY <3>1, <3>3 DEF About
    <3> QED BY <1>1, <3>1, <3>2, <3>3, <3>4, AccSets
  <2> QED BY <2>1, <2>2
<1> QED BY <1>3, <1>4, <1>5 DEF Acc!msgTzCustom, Acc!msgSettingsTimeCustom, Acc!msgWipeConfirm

\* The row is written: but for the block, it is the copy then.
LEMMA RowIsWritten ==
  ASSUME AccInv, NEW g \in Updates, Acc!Update(g)
  PROVE  /\ accRun[g].pc = "write" /\ accRun[g] # Acc!Rest /\ UNCHANGED <<accStore, accRaced>>
         /\ accRow' \in AccRows \cup {None}
         /\ accRow = None => accRow' = None
         /\ accRow # None => /\ accRow' # None /\ accRow'.set = accRun[g].copy.set
                             /\ accRow'.onboarded = accRun[g].copy.onboarded
                             /\ accRow'.blocked = accRow.blocked
         /\ accRun[g].then = "end" => accRun' = [accRun EXCEPT ![g] = Acc!Rest]
         /\ accRun[g].then # "end" => accRun' = [accRun EXCEPT ![g] = [accRun[g] EXCEPT !.pc = accRun[g].then]]
<1>1. accRun[g].pc = "write" /\ accRun[g] # Acc!Rest /\ UNCHANGED <<accStore, accRaced>>
  BY DEF Acc!Update, Acc!At, Acc!Rest
<1>2. accRun[g].copy \in AccRows /\ accRow \in AccRows \cup {None} /\ accRun \in [Updates -> {Acc!Rest} \cup Serving]
  BY <1>1, Serves DEF AccInv, AccTyped
<1>3. accRow = None => accRow' = None
  BY DEF Acc!Update
<1>4. ASSUME accRow # None
      PROVE  /\ accRow' \in AccRows /\ accRow'.set = accRun[g].copy.set
             /\ accRow'.onboarded = accRun[g].copy.onboarded /\ accRow'.blocked = accRow.blocked
  <2>1. accRow' = [accRun[g].copy EXCEPT !.blocked = accRow.blocked]
    BY <1>4 DEF Acc!Update, Acc!Written
  <2>2. accRow \in AccRows
    BY <1>2, <1>4
  <2> QED BY <1>2, <2>1, <2>2 DEF AccRows, Acc!Rows
<1>5. None \notin AccRows
  BY AccConstants DEF AccRows
<1>6. accRun[g].then = "end" => accRun' = [accRun EXCEPT ![g] = Acc!Rest]
  BY DEF Acc!Update, Acc!Return
<1>7. accRun[g].then # "end" => accRun' = [accRun EXCEPT ![g] = [accRun[g] EXCEPT !.pc = accRun[g].then]]
  BY <1>2 DEF Acc!Update, Acc!Goto
<1> QED BY <1>1, <1>3, <1>4, <1>5, <1>6, <1>7

\* What an update writes leaves nobody in an onboarding he has finished.
LEMMA AccUpdates ==
  ASSUME AccInv, NEW g \in Updates, Acc!Update(g)
  PROVE  AccInv'
<1>1. accRun[g].pc = "write" /\ accRun[g] # Acc!Rest /\ UNCHANGED <<accStore, accRaced>>
      /\ accRow' \in AccRows \cup {None}
  BY RowIsWritten
<1>2. accRun[g] \in Serving /\ accStore \in AccRecord /\ accRun \in [Updates -> {Acc!Rest} \cup Serving]
  BY <1>1, Serves DEF AccInv, AccTyped
<1>3. accRow # None => /\ accRow' # None /\ accRow'.set = accRun[g].copy.set
                       /\ accRow'.onboarded = accRun[g].copy.onboarded
  BY RowIsWritten
<1>4. accRow = None => accRow' = None
  BY RowIsWritten
<1>5. ASSUME ~accRaced, accRun[g].then # "clear", Newcomer PROVE Newcomer'
  <2>1. Faithful(g) /\ accRow # None
    BY <1>1, <1>5, Serves DEF Newcomer
  <2> QED BY <1>3, <1>5, <2>1 DEF Faithful, Newcomer
<1>6. ~accRaced => (accStore.state \in Acc!Onboarding => Newcomer) /\ (accRun[g].then = "next" => Newcomer)
  BY <1>1, Serves DEF Onboards
<1>7. CASE accRun[g].then = "end"
  <2>1. accRun' = [accRun EXCEPT ![g] = Acc!Rest]
    BY <1>7, RowIsWritten
  <2>2. ~accRaced => Welcome'
    BY <1>1, <1>5, <1>6, <1>7 DEF Welcome
  <2> QED BY <1>1, <1>2, <2>1, <2>2, AccOnward
<1>8. CASE accRun[g].then # "end"
  <2> DEFINE r == [accRun[g] EXCEPT !.pc = accRun[g].then]
  <2>1. accRun' = [accRun EXCEPT ![g] = r]
    BY <1>8, RowIsWritten
  <2>2. accRun[g].then \in {"next", "clear"}
    BY <1>2, <1>8 DEF Serving
  <2>3. r \in Serving /\ r.pc = accRun[g].then /\ r.copy = accRun[g].copy /\ r.over = accRun[g].over
    BY <1>2, <2>2 DEF Serving
  <2> HIDE DEF r
  <2>4. accRun'[g] = r
    BY <1>2, <2>1
  <2>5. Faithful(g)'
    BY <1>3, <1>4, <2>2, <2>3, <2>4 DEF Faithful
  <2>6. ~accRaced => Welcome' /\ Onboards(g)'
    <3>1. CASE accRun[g].then = "next"
      <4>1. ~accRaced => Newcomer'
        BY <1>5, <1>6, <3>1
      <4> QED BY <4>1 DEF Welcome, Onboards
    <3>2. CASE accRun[g].then = "clear"
      BY <2>3, <2>4, <3>2 DEF Welcome, Onboards
    <3> QED BY <2>2, <3>1, <3>2
  <2>7. r.pc # "route"
    BY <2>2, <2>3
  <2> QED BY <1>1, <1>2, <2>1, <2>3, <2>5, <2>6, <2>7, AccOnward
<1> QED BY <1>7, <1>8

\* The account is wiped, or a statement fails.
LEMMA AccWipesOrFails ==
  ASSUME AccInv, NEW g \in Updates, Acc!Wipe(g) \/ Acc!Fail(g)
  PROVE  AccInv'
<1>1. accRun[g].pc \in {"write", "delete"} /\ accRun[g] # Acc!Rest /\ UNCHANGED <<accStore, accRaced>>
  BY DEF Acc!Wipe, Acc!Fail, Acc!At, Acc!Rest
<1>2. accRun[g] \in Serving /\ accStore \in AccRecord /\ accRun \in [Updates -> {Acc!Rest} \cup Serving]
  BY <1>1, Serves DEF AccInv, AccTyped
<1>3. CASE Acc!Wipe(g)
  <2> DEFINE r == [accRun[g] EXCEPT !.pc = "clear"]
  <2>1. accRun' = [accRun EXCEPT ![g] = r] /\ accRow' = None
    BY <1>2, <1>3 DEF Acc!Wipe, Acc!Goto
  <2>2. r \in Serving /\ r.pc = "clear" /\ r.over = accRun[g].over
    BY <1>2 DEF Serving
  <2> HIDE DEF r
  <2>3. accRun'[g] = r
    BY <1>2, <2>1
  <2>4. Faithful(g)' /\ Welcome' /\ Onboards(g)'
    BY <2>1, <2>2, <2>3 DEF Faithful, Welcome, Onboards
  <2> QED BY <1>1, <1>2, <2>1, <2>2, <2>4, AccOnward
<1>4. CASE Acc!Fail(g)
  <2>1. Acc!Return(g) /\ UNCHANGED accRow
    BY <1>4 DEF Acc!Fail
  <2>2. ~accRaced => (accStore.state \in Acc!Onboarding => Newcomer)
    BY <1>1, Serves
  <2> QED BY <1>1, <1>2, <2>1, <2>2, AccEnds
<1> QED BY <1>3, <1>4

\* The block is switched, the record grows old, or the process starts again.
LEMMA AccOutside ==
  ASSUME AccInv, Acc!ToggleBlock \/ Acc!Evict \/ Acc!Restart
  PROVE  AccInv'
<1>1. accRun \in [Updates -> {Acc!Rest} \cup Serving] /\ accStore \in AccRecord /\ accRow \in AccRows \cup {None}
  BY DEF AccInv, AccTyped
<1>2. CASE Acc!ToggleBlock
  <2>1. accRow # None /\ accRow' = [accRow EXCEPT !.blocked = ~@] /\ UNCHANGED <<accStore, accRun, accRaced>>
    BY <1>2 DEF Acc!ToggleBlock
  <2>2. accRow' \in AccRows /\ accRow'.set = accRow.set /\ accRow'.onboarded = accRow.onboarded
    BY <1>1, <2>1 DEF AccRows, Acc!Rows
  <2>3. accRow' # None
    BY <2>2, AccConstants DEF AccRows
  <2>4. AccTyped' /\ AccAlone'
    BY <2>1, <2>2 DEF AccInv, AccTyped, AccAlone, Apart
  <2>5. ASSUME NEW g \in Updates, Apart(g)' PROVE Faithful(g)' /\ (accRun'[g].pc = "route" => accRow' # None)
    <3>1. Faithful(g)
      BY <2>1, <2>5 DEF AccInv, Apart
    <3> QED BY <2>1, <2>2, <2>3, <3>1 DEF Faithful, About
  <2>6. (Newcomer' <=> Newcomer) /\ (Welcome' <=> Welcome) /\ \A g \in Updates : Onboards(g)' <=> Onboards(g)
    BY <2>1, <2>2, <2>3 DEF Newcomer, Welcome, Onboards
  <2> QED BY <2>1, <2>4, <2>5, <2>6 DEF AccInv, Apart
<1>3. CASE Acc!Evict \/ Acc!Restart
  <2>1. Acc!Clear /\ UNCHANGED <<accRow, accRaced>> /\ \A g \in Updates : accRun'[g] = Acc!Rest
    BY <1>3 DEF Acc!Evict, Acc!Restart, Acc!Busy
  <2>2. accRun' \in [Updates -> {Acc!Rest} \cup Serving]
    BY <1>1, <1>3 DEF Acc!Evict, Acc!Restart
  <2>3. accStore' \in AccRecord /\ accStore'.state \notin Acc!Onboarding
    BY <1>1, <2>1, AccRecords, AccConstants DEF Acc!States
  <2>4. AccTyped'
    BY <2>1, <2>2, <2>3 DEF AccInv, AccTyped
  <2> QED BY <2>1, <2>3, <2>4 DEF AccInv, AccAlone, Apart, Welcome
<1> QED BY <1>2, <1>3

\* Whoever acts, an update that is alone is faithful, and the onboarding is for newcomers.
LEMMA AccNext == ASSUME AccInv, [Next]_vars PROVE AccInv'
<1>1. [Acc!Next]_accVars
  BY EachSteps
<1>2. CASE UNCHANGED accVars
  BY <1>2 DEF accVars, AccInv, AccTyped, AccAlone, Apart, Faithful, About, Welcome, Newcomer, Onboards
<1>3. ASSUME NEW g \in Updates, Acc!Step(g) PROVE AccInv'
  <2>1. CASE \E request \in Acc!Requests : Acc!Begin(g, request)
    BY <2>1, AccBegins
  <2>2. CASE Acc!cbOnboardingLanguage(g) \/ Acc!cbOnboardingTimezone(g) \/ Acc!cbOnboardingNotifyTime(g)
    BY <2>2, ScreenIsAnswered, ScreenIsNext
    DEF Acc!cbOnboardingLanguage, Acc!cbOnboardingTimezone, Acc!cbOnboardingNotifyTime, Acc!Onboarding
  <2>3. CASE \/ Acc!cmdStart(g) \/ Acc!cbMenuSettings(g) \/ Acc!cbTzOther(g) \/ Acc!cbTimeOther(g)
             \/ Acc!cbWipeWarning(g) \/ Acc!Finish(g)
    BY <2>3, AccAsksOrLeaves
  <2>4. CASE Acc!cbOnboardingCancel(g) \/ Acc!Complete(g)
    BY <2>4, OnboardingEnds
  <2>5. CASE \/ Acc!cbLangSet(g) \/ Acc!cbTzSet(g) \/ Acc!cbDfSet(g) \/ Acc!cbListSet(g)
             \/ Acc!toggleSetting(g) \/ Acc!cbSettingsTimeSet(g)
    BY <2>5, SettingIsSet
  <2>6. CASE Acc!msgTzCustom(g) \/ Acc!msgSettingsTimeCustom(g) \/ Acc!msgWipeConfirm(g)
    BY <2>6, TextIsTaken
  <2>7. CASE Acc!Update(g) \/ Acc!Wipe(g) \/ Acc!Fail(g)
    BY <2>7, AccUpdates, AccWipesOrFails
  <2> QED BY <1>3, <2>1, <2>2, <2>3, <2>4, <2>5, <2>6, <2>7 DEF Acc!Step
<1> QED BY <1>1, <1>2, <1>3, AccOutside DEF Acc!Next

\* Between updates, and without overlap, the onboarding is on only for a user who has not
\* finished it: whatever was cancelled, left, blocked, wiped or failed on the way.
THEOREM OnboardingIsForNewcomers == Spec => []NoStrayOnboarding
<1>1. AccInv => NoStrayOnboarding
  <2> SUFFICES ASSUME AccInv, ~accRaced, Acc!Busy = {}, accStore.state \in Acc!Onboarding PROVE Newcomer
    BY DEF NoStrayOnboarding, Acc!NoStrayOnboarding, Acc!GetState, Newcomer
  <2>1. \A g \in Updates : accRun[g].pc # "clear"
    BY DEF Acc!Busy, Acc!Rest
  <2> QED BY <2>1 DEF AccInv, Welcome
<1> QED BY <1>1, AccInit, AccNext, PTL DEF Spec

\* Who writes a row that stays: only an update that is at its write, and an admin's switch.
LEMMA RowWriters ==
  ASSUME AccInv, [Next]_vars, accRow # None
  PROVE  \/ accRow' = accRow
         \/ Acc!ToggleBlock
         \/ \E g \in Updates : Acc!Update(g)
         \/ \E g \in Updates : Acc!Wipe(g)
<1>1. [Acc!Next]_accVars
  BY EachSteps
<1>2. ASSUME NEW g \in Updates, Acc!Step(g) PROVE accRow' = accRow \/ Acc!Update(g) \/ Acc!Wipe(g)
  <2>1. ASSUME NEW request \in Acc!Requests, Acc!Begin(g, request) PROVE accRow' = accRow
    BY <2>1 DEF Acc!Begin, Acc!Loaded
  <2>2. CASE Acc!cbOnboardingLanguage(g) \/ Acc!cbOnboardingTimezone(g) \/ Acc!cbOnboardingNotifyTime(g)
    BY <2>2 DEF Acc!cbOnboardingLanguage, Acc!cbOnboardingTimezone, Acc!cbOnboardingNotifyTime,
       Acc!OnboardingPick, Acc!NextScreen
  <2>3. CASE \/ Acc!cmdStart(g) \/ Acc!cbMenuSettings(g) \/ Acc!cbTzOther(g) \/ Acc!cbTimeOther(g)
             \/ Acc!cbWipeWarning(g) \/ Acc!Finish(g) \/ Acc!cbOnboardingCancel(g) \/ Acc!Complete(g)
    BY <2>3 DEF Acc!cmdStart, Acc!cbMenuSettings, Acc!cbTzOther, Acc!cbTimeOther, Acc!cbWipeWarning,
       Acc!AskText, Acc!Finish, Acc!cbOnboardingCancel, Acc!Complete
  <2>4. CASE \/ Acc!cbLangSet(g) \/ Acc!cbTzSet(g) \/ Acc!cbDfSet(g) \/ Acc!cbListSet(g)
             \/ Acc!toggleSetting(g) \/ Acc!cbSettingsTimeSet(g)
    BY <2>4 DEF Acc!cbLangSet, Acc!cbTzSet, Acc!cbDfSet, Acc!cbListSet, Acc!toggleSetting,
       Acc!cbSettingsTimeSet, Acc!Set
  <2>5. CASE Acc!msgTzCustom(g) \/ Acc!msgSettingsTimeCustom(g) \/ Acc!msgWipeConfirm(g) \/ Acc!Fail(g)
    BY <2>5 DEF Acc!msgTzCustom, Acc!msgSettingsTimeCustom, Acc!msgWipeConfirm, Acc!AnswerSetting, Acc!Fail
  <2> QED BY <1>2, <2>1, <2>2, <2>3, <2>4, <2>5 DEF Acc!Step
<1> QED BY <1>1, <1>2 DEF Acc!Next, Acc!Evict, Acc!Restart, accVars

\* A block holds until an admin lifts it, whatever copies of the row the user's updates under
\* way write back; only an account that is being wiped escapes it.
THEOREM BlockOutlasts == Spec => BlockHolds
<1>1. ASSUME AccInv, [Next]_vars, accRow # None, accRow.blocked, accRow' = None \/ ~accRow'.blocked
      PROVE  \/ accRun' = accRun
             \/ accRow' = None /\ \E g \in Acc!Busy : Acc!At(g, "delete") /\ accRun'[g].pc # "delete"
  <2>1. ASSUME NEW g \in Updates, Acc!Wipe(g)
        PROVE  accRow' = None /\ g \in Acc!Busy /\ Acc!At(g, "delete") /\ accRun'[g].pc # "delete"
    <3>1. accRun[g].pc = "delete" /\ accRun' = [accRun EXCEPT ![g].pc = "clear"] /\ accRow' = None
      BY <2>1 DEF Acc!Wipe, Acc!At, Acc!Goto
    <3>2. accRun[g] \in Serving /\ accRun[g] # Acc!Rest /\ accRun \in [Updates -> {Acc!Rest} \cup Serving]
      BY <1>1, <3>1, Serves DEF Acc!Rest, AccInv, AccTyped
    <3>3. accRun'[g].pc = "clear"
      BY <3>1, <3>2 DEF Serving
    <3> QED BY <3>1, <3>2, <3>3 DEF Acc!Busy, Acc!At
  <2>2. ASSUME NEW g \in Updates, Acc!Update(g) PROVE FALSE
    BY <1>1, <2>2, RowIsWritten
  <2>3. Acc!ToggleBlock => accRun' = accRun
    BY DEF Acc!ToggleBlock
  <2>4. accRow' # accRow
    BY <1>1
  <2> QED BY <1>1, <2>1, <2>2, <2>3, <2>4, RowWriters
<1>2. AccInv /\ [Next]_vars
        => [accRow # None /\ accRow.blocked /\ (accRow' = None \/ ~accRow'.blocked) =>
              \/ accRun' = accRun
              \/ accRow' = None /\ \E g \in Acc!Busy : Acc!At(g, "delete") /\ accRun'[g].pc # "delete"]_(Acc!vars)
  BY <1>1
<1> QED BY <1>2, AccInit, AccNext, PTL DEF Spec, BlockHolds, Acc!BlockHolds

\* A setting changes, and onboarding begins anew, only through an update that was about it,
\* unless it overlapped another: though each writes all of them back as it found them.
THEOREM SettingsAreKept == Spec => SettingsStick
<1> DEFINE Changes(s) == \E g \in Acc!Busy :
             Acc!At(g, "write") /\ accRun'[g] # accRun[g]
               /\ (accRun[g].over \/ s \in {accRun[g].request.do}
                                          \cup {Acc!Typed[t] : t \in {Acc!GetState} \cap DOMAIN Acc!Typed})
           Again == \E g \in Acc!Busy : Acc!At(g, "write") /\ accRun'[g] # accRun[g] /\ accRun[g].over
<1>1. ASSUME AccInv, [Next]_vars, accRow # None, accRow' # None
      PROVE  /\ \A s \in Settings : accRow'.set[s] # accRow.set[s] => Changes(s)
             /\ accRow.onboarded /\ ~accRow'.onboarded => Again
  <2>1. CASE accRow' = accRow
    BY <2>1
  <2>2. CASE Acc!ToggleBlock
    <3>1. accRow' = [accRow EXCEPT !.blocked = ~@] /\ accRow \in Acc!Rows
      BY <1>1, <2>2 DEF Acc!ToggleBlock, AccInv, AccTyped, AccRows
    <3>2. accRow'.set = accRow.set /\ accRow'.onboarded = accRow.onboarded
      BY <3>1 DEF Acc!Rows
    <3> QED BY <3>2
  <2>3. ASSUME NEW g \in Updates, Acc!Wipe(g) PROVE FALSE
    BY <1>1, <2>3 DEF Acc!Wipe
  <2>4. ASSUME NEW g \in Updates, Acc!Update(g)
        PROVE  /\ \A s \in Settings : accRow'.set[s] # accRow.set[s] => Changes(s)
               /\ accRow.onboarded /\ ~accRow'.onboarded => Again
    <3>1. /\ accRun[g].pc = "write" /\ accRun[g] # Acc!Rest
          /\ accRow'.set = accRun[g].copy.set /\ accRow'.onboarded = accRun[g].copy.onboarded
      BY <1>1, <2>4, RowIsWritten
    <3>2. accRun[g] \in Serving /\ accRun \in [Updates -> {Acc!Rest} \cup Serving]
      BY <1>1, <3>1, Serves DEF AccInv, AccTyped
    <3>3. accRun'[g] # accRun[g]
      <4>1. CASE accRun[g].then = "end"
        BY <1>1, <2>4, <3>1, <3>2, <4>1, RowIsWritten
      <4>2. CASE accRun[g].then # "end"
        <5>1. accRun'[g] = [accRun[g] EXCEPT !.pc = accRun[g].then]
          BY <1>1, <2>4, <3>2, <4>2, RowIsWritten
        <5>2. accRun'[g].pc = accRun[g].then /\ accRun[g].then # "write"
          BY <3>2, <5>1 DEF Serving
        <5> QED BY <3>1, <5>2
      <4> QED BY <4>1, <4>2
    <3>4. g \in Acc!Busy /\ Acc!At(g, "write")
      BY <3>1 DEF Acc!Busy, Acc!At
    <3>5. CASE accRun[g].over
      BY <3>3, <3>4, <3>5
    <3>6. CASE ~accRun[g].over
      <4>1. Faithful(g)
        BY <1>1, <3>1, <3>6 DEF AccInv, Apart
      <4>2. ASSUME NEW s \in Settings, accRow'.set[s] # accRow.set[s] PROVE Changes(s)
        <5>1. s \in About(g)
          BY <1>1, <3>1, <4>1, <4>2 DEF Faithful
        <5> QED BY <3>3, <3>4, <5>1 DEF About, Acc!GetState
      <4>3. ~(accRow.onboarded /\ ~accRow'.onboarded)
        BY <1>1, <3>1, <4>1 DEF Faithful
      <4> QED BY <4>2, <4>3
    <3> QED BY <3>5, <3>6
  <2> QED BY <1>1, <2>1, <2>2, <2>3, <2>4, RowWriters
<1>2. AccInv /\ [Next]_vars
        => [accRow # None /\ accRow' # None =>
              /\ \A s \in Settings : accRow'.set[s] # accRow.set[s] => Changes(s)
              /\ accRow.onboarded /\ ~accRow'.onboarded => Again]_(Acc!vars)
  BY <1>1
<1> QED BY <1>2, AccInit, AccNext, PTL DEF Spec, SettingsStick, Acc!SettingsStick
-----------------------------------------------------------------------------
(* The field editor *)

EditRecord ==
  [state : Edit!States \cup {NoState},
   data : [{"event_id", "editing_field"} -> Events \cup Edit!Fields \cup {0}]]

EditPcs == {"route", "choose", "drop", "which", "event", "owned", "update", "back", "remember", "prompt"}

\* What a goroutine is at, and what it has read.
Editor ==
  [pc : EditPcs, request : Edit!Requests, event : Events \cup {0},
   field : Edit!Fields \cup {None}, clean : BOOLEAN]

Editing == {Edit!Rest} \cup Editor

\* The record holds an event and a field, as the last prompt does.
EditKept ==
  /\ editStore \in EditRecord
  /\ editStore.data["event_id"] \in Events \cup {0}
  /\ editStore.data["editing_field"] \in Edit!Fields \cup {0}
  /\ asked \in [event : Events, field : Edit!Fields] \cup {None}

\* Who has an event to work on has its field, too.
Equipped(r) ==
  /\ r.pc \in {"owned", "remember", "prompt", "update"} => r.event \in Events /\ r.field \in Edit!Fields
  /\ r.pc \in {"route", "event"} /\ r.request.do \in {"field", "pick", "clear"} => r.field \in Edit!Fields
  /\ r.pc = "event" /\ r.request.do \in {"text", "photo"} => r.field \in Edit!Fields
  /\ r.pc = "choose" => r.request.do \in {"menu", "added"}

EditTyped ==
  /\ EditKept
  /\ editRun \in [Updates -> Editing]
  /\ \A g \in Updates : Equipped(editRun[g])

\* An update that overlaps none so far is the only one.
Clean(g) == editRun[g] # Edit!Rest /\ editRun[g].clean

EditAlone == \A g, h \in Updates : Clean(g) /\ editRun[h] # Edit!Rest => g = h

\* What was asked for last is in the record, while it waits for an answer and no other prompt
\* is about to be shown.
PromptStands ==
  asked # None /\ editStore.state = "entering" /\ (\A g \in Updates : editRun[g].pc # "prompt")
    => editStore.data["event_id"] = asked.event /\ editStore.data["editing_field"] = asked.field

\* Another event is only put into the record when that waits for no answer.
ShutFirst ==
  \A g \in Updates : editRun[g].pc = "choose" => editStore.state # "entering" \/ asked = None

\* Whoever overlaps nobody has read what the record still holds, and answers while it waits.
Sees(r) ==
  /\ r.pc \in {"owned", "remember", "prompt", "update"} => r.event = editStore.data["event_id"]
  /\ r.pc = "prompt" => r.field = editStore.data["editing_field"]
  /\ r.pc \in {"which", "event", "owned", "update"} /\ r.request.do \in {"text", "photo"} =>
       /\ editStore.state = "entering"
       /\ r.pc # "which" => r.field = editStore.data["editing_field"]

EditInv ==
  /\ EditTyped
  /\ EditAlone /\ PromptStands /\ ShutFirst
  /\ \A g \in Updates : Clean(g) => Sees(editRun[g])

\* What the module assumes of its constants.
LEMMA EditConstants ==
  NoState \notin Edit!States /\ Events \subseteq Nat \ {0} /\ Edit!Fields = Pickers \cup Texts \cup {Photo}
BY ConversationsAssumption DEF Edit!EditFlowAssumption, Edit!Fields

\* At first nothing is asked for and nobody is busy.
LEMMA EditInit == Init => EditInv
<1> SUFFICES ASSUME Init PROVE EditInv
  OBVIOUS
<1>1. editStore = Edit!Empty /\ editRun = [g \in Updates |-> Edit!Rest] /\ asked = None
  BY DEF Init, Edit!Init
<1>2. EditKept
  BY <1>1 DEF Edit!Empty, EditRecord, EditKept
<1>3. editRun \in [Updates -> Editing] /\ \A g \in Updates : editRun[g] = Edit!Rest /\ editRun[g].pc = "idle"
  BY <1>1 DEF Editing, Edit!Rest
<1>4. EditTyped
  BY <1>2, <1>3 DEF EditTyped, Equipped
<1> QED BY <1>1, <1>3, <1>4 DEF EditInv, EditAlone, PromptStands, ShutFirst, Clean

\* What a request names.
LEMMA RequestParts ==
  ASSUME NEW q \in Edit!Requests
  PROVE  /\ q.do \in {"menu", "added"} => q.event \in Events
         /\ q.do \in {"field", "pick", "clear"} => q.field \in Edit!Fields
BY EditConstants DEF Edit!Requests

\* Whoever is busy is one of the editor's goroutines.
LEMMA EditParts ==
  ASSUME EditInv, NEW g \in Updates, editRun[g].pc # "idle"
  PROVE  /\ editRun[g] # Edit!Rest /\ editRun[g] \in Editor /\ Equipped(editRun[g])
         /\ Clean(g) <=> editRun[g].clean
<1>1. editRun[g] # Edit!Rest
  BY DEF Edit!Rest
<1> QED BY <1>1 DEF EditInv, EditTyped, Editing, Clean

\* A goroutine goes on with its work, or ends it.
LEMMA EditOnward ==
  ASSUME EditInv, NEW g \in Updates, editRun[g] # Edit!Rest, NEW r \in Editing,
         editRun' = [editRun EXCEPT ![g] = r], r # Edit!Rest => r.clean = editRun[g].clean,
         EditKept', Equipped(r), PromptStands', ShutFirst',
         Clean(g) /\ r # Edit!Rest => Sees(r)'
  PROVE  EditInv'
<1>1. editRun' \in [Updates -> Editing] /\ \A h \in Updates : editRun'[h] = IF h = g THEN r ELSE editRun[h]
  BY DEF EditInv, EditTyped
<1>2. EditTyped'
  BY <1>1 DEF EditInv, EditTyped, Equipped
<1>3. \A h \in Updates : Clean(h)' => Clean(h)
  BY <1>1 DEF Clean
<1>4. \A h \in Updates : editRun'[h] # Edit!Rest => editRun[h] # Edit!Rest
  BY <1>1
<1>5. EditAlone'
  BY <1>3, <1>4 DEF EditInv, EditAlone
<1>6. ASSUME NEW h \in Updates, Clean(h)' PROVE Sees(editRun[h])'
  <2>1. h = g
    BY <1>3, <1>6 DEF EditInv, EditAlone
  <2>2. editRun'[h] = r /\ r # Edit!Rest /\ Clean(g)
    BY <1>1, <1>3, <1>6, <2>1 DEF Clean
  <2> QED BY <2>2 DEF Sees
<1> QED BY <1>2, <1>5, <1>6 DEF EditInv

\* It goes on without a word to the record.
LEMMA EditQuiet ==
  ASSUME EditInv, NEW g \in Updates, editRun[g].pc \notin {"idle", "prompt"}, NEW r \in Editing,
         editRun' = [editRun EXCEPT ![g] = r], UNCHANGED <<editStore, asked>>,
         r # Edit!Rest => r.clean = editRun[g].clean /\ r.pc # "choose" /\ Equipped(r),
         Clean(g) /\ r # Edit!Rest => Sees(r)
  PROVE  EditInv'
<1>1. editRun[g] # Edit!Rest /\ editRun \in [Updates -> Editing]
  BY EditParts DEF EditInv, EditTyped
<1>2. \A h \in Updates : editRun'[h] = IF h = g THEN r ELSE editRun[h]
  BY <1>1
<1>3. r.pc # "choose" /\ Equipped(r)
  BY DEF Edit!Rest, Equipped
<1>4. PromptStands'
  BY <1>2 DEF EditInv, PromptStands
<1>5. ShutFirst'
  BY <1>2, <1>3 DEF EditInv, ShutFirst
<1>6. EditKept' /\ (Clean(g) /\ r # Edit!Rest => Sees(r)')
  BY DEF EditInv, EditTyped, EditKept, Sees
<1> QED BY <1>1, <1>3, <1>4, <1>5, <1>6, EditOnward

\* It goes on, and the record waits for no answer now.
LEMMA EditShuts ==
  ASSUME EditInv, NEW g \in Updates, editRun[g].pc # "idle", NEW r \in Editing,
         editRun' = [editRun EXCEPT ![g] = r], asked' = asked,
         r # Edit!Rest => r.clean = editRun[g].clean /\ Equipped(r) /\ Sees(r)',
         Edit!SetState("choosing") \/ Edit!Clear
  PROVE  EditInv'
<1>1. editRun[g] # Edit!Rest
  BY EditParts
<1>2. EditKept' /\ editStore'.state # "entering"
  <2>1. CASE Edit!SetState("choosing")
    BY <2>1 DEF Edit!SetState, EditInv, EditTyped, EditKept, EditRecord, Edit!States
  <2>2. CASE Edit!Clear
    BY <2>2, EditConstants DEF Edit!Clear, Edit!Empty, EditInv, EditTyped, EditKept, EditRecord, Edit!States
  <2> QED BY <2>1, <2>2
<1>3. PromptStands' /\ ShutFirst' /\ Equipped(r)
  BY <1>2 DEF PromptStands, ShutFirst, Equipped, Edit!Rest
<1> QED BY <1>1, <1>2, <1>3, EditOnward

\* To go to a place in the code, or back.
LEMMA EditGoes ==
  ASSUME EditInv, NEW g \in Updates, editRun[g].pc # "idle", NEW then \in EditPcs
  PROVE  /\ [editRun[g] EXCEPT !.pc = then] \in Editing
         /\ [editRun[g] EXCEPT !.pc = then] # Edit!Rest
         /\ [editRun[g] EXCEPT !.pc = then].pc = then
         /\ [editRun[g] EXCEPT !.pc = then].request = editRun[g].request
         /\ [editRun[g] EXCEPT !.pc = then].event = editRun[g].event
         /\ [editRun[g] EXCEPT !.pc = then].field = editRun[g].field
         /\ [editRun[g] EXCEPT !.pc = then].clean = editRun[g].clean
         /\ Edit!Goto(g, then) => editRun' = [editRun EXCEPT ![g] = [editRun[g] EXCEPT !.pc = then]]
<1>1. editRun[g] \in Editor /\ editRun \in [Updates -> Editing]
  BY EditParts DEF EditInv, EditTyped
<1> QED BY <1>1 DEF Editor, Editing, Edit!Goto, EditPcs, Edit!Rest

\* An update ends without a word to the record.
LEMMA EditReturns ==
  ASSUME EditInv, NEW g \in Updates, editRun[g].pc \notin {"idle", "prompt"}, Edit!Return(g),
         UNCHANGED <<editStore, asked>>
  PROVE  EditInv'
<1>1. Edit!Rest \in Editing /\ editRun' = [editRun EXCEPT ![g] = Edit!Rest]
  BY DEF Editing, Edit!Return
<1> QED BY <1>1, EditQuiet

\* An update goes on with the event of the record.
LEMMA EventIsTaken ==
  ASSUME EditInv, NEW g \in Updates, editRun[g].pc \in {"route", "event"},
         NEW then \in {"back", "owned"}, Edit!TakeEvent(g, then),
         then = "owned" => editRun[g].field \in Edit!Fields,
         Clean(g) /\ editRun[g].request.do \in {"text", "photo"} => editRun[g].pc = "event"
  PROVE  EditInv'
<1>1. CASE editStore.data["event_id"] = 0
  BY <1>1, EditReturns DEF Edit!TakeEvent, Edit!EventId, Edit!GetData
<1>2. CASE editStore.data["event_id"] # 0
  <2> DEFINE r == [editRun[g] EXCEPT !.event = editStore.data["event_id"], !.pc = then]
  <2>1. editRun[g] \in Editor /\ editRun \in [Updates -> Editing]
    BY EditParts DEF EditInv, EditTyped
  <2>2. editStore.data["event_id"] \in Events
    BY <1>2 DEF EditInv, EditTyped, EditKept
  <2>3. editRun' = [editRun EXCEPT ![g] = r] /\ UNCHANGED <<editStore, asked>>
    BY <1>2, <2>1 DEF Edit!TakeEvent, Edit!EventId, Edit!GetData
  <2>4. /\ r \in Editing /\ r.pc = then /\ r.request = editRun[g].request
        /\ r.event = editStore.data["event_id"] /\ r.field = editRun[g].field /\ r.clean = editRun[g].clean
    BY <2>1, <2>2 DEF Editor, Editing, EditPcs
  <2> HIDE DEF r
  <2>5. Equipped(r)
    BY <2>2, <2>4 DEF Equipped
  <2>6. ASSUME Clean(g) PROVE Sees(r)
    <3>1. Sees(editRun[g])
      BY <2>6 DEF EditInv
    <3> QED BY <2>4, <2>6, <3>1 DEF Sees
  <2> QED BY <2>3, <2>4, <2>5, <2>6, EditQuiet
<1> QED BY <1>1, <1>2

\* An update begins, and whatever was busy has been overlapped.
LEMMA EditBegins ==
  ASSUME EditInv, NEW g \in Updates, NEW request \in Edit!Requests, Edit!Begin(g, request)
  PROVE  EditInv'
<1> DEFINE r == [pc |-> "route", request |-> request, event |-> 0,
                 field |-> IF request.do \in {"pick", "clear", "field"} THEN request.field ELSE None,
                 clean |-> Edit!Busy = {}]
<1>1. /\ editRun[g] = Edit!Rest /\ editRun[g].pc = "idle" /\ UNCHANGED <<editStore, asked>>
      /\ editRun' = [h \in Updates |-> IF h = g THEN r
                                       ELSE IF editRun[h] = Edit!Rest THEN Edit!Rest
                                       ELSE [editRun[h] EXCEPT !.clean = FALSE]]
  BY DEF Edit!Begin, Edit!Rest
<1>2. /\ r \in Editing /\ r.pc = "route" /\ (r.clean => Edit!Busy = {})
      /\ r.request.do \in {"field", "pick", "clear"} => r.field \in Edit!Fields
  BY RequestParts DEF Editing, Editor, EditPcs
<1> HIDE DEF r
<1>3. ASSUME NEW h \in Updates, h # g, editRun[h] # Edit!Rest
      PROVE  /\ editRun'[h] = [editRun[h] EXCEPT !.clean = FALSE]
             /\ editRun'[h] \in Editing /\ ~editRun'[h].clean
             /\ editRun'[h].pc = editRun[h].pc /\ Equipped(editRun'[h])
  <2>1. editRun[h] \in Editor /\ Equipped(editRun[h])
    BY <1>3 DEF EditInv, EditTyped, Editing
  <2>2. editRun'[h] = [editRun[h] EXCEPT !.clean = FALSE]
    BY <1>1, <1>3
  <2>3. [editRun[h] EXCEPT !.clean = FALSE] \in Editor
    BY <2>1 DEF Editor
  <2>4. /\ editRun'[h].pc = editRun[h].pc /\ editRun'[h].request = editRun[h].request
        /\ editRun'[h].event = editRun[h].event /\ editRun'[h].field = editRun[h].field
        /\ editRun'[h].clean = FALSE
    BY <2>1, <2>2 DEF Editor
  <2> QED BY <2>1, <2>2, <2>3, <2>4 DEF Equipped, Editing
<1>4. ASSUME NEW h \in Updates, h # g, editRun[h] = Edit!Rest
      PROVE  editRun'[h] = Edit!Rest /\ editRun'[h].pc = "idle" /\ editRun[h].pc = "idle"
  BY <1>1, <1>4 DEF Edit!Rest
<1>5. editRun'[g] = r
  BY <1>1
<1>6. \A h \in Updates : editRun'[h] \in Editing /\ Equipped(editRun'[h])
  <2>1. Equipped(r)
    BY <1>2 DEF Equipped
  <2> QED BY <1>2, <1>3, <1>4, <1>5, <2>1 DEF Editing, Equipped
<1>7. EditTyped'
  <2>1. editRun' \in [Updates -> Editing]
    BY <1>1, <1>6
  <2> QED BY <1>1, <1>6, <2>1 DEF EditInv, EditTyped, EditKept, Equipped
<1>8. \A h \in Updates : h # g => ~Clean(h)' /\ (editRun'[h] # Edit!Rest => editRun[h] # Edit!Rest)
  BY <1>3, <1>4 DEF Clean
<1>9. EditAlone'
  <2>1. ASSUME NEW h \in Updates, Clean(g)', editRun'[h] # Edit!Rest PROVE h = g
    <3>1. Edit!Busy = {}
      BY <1>2, <1>5, <2>1 DEF Clean
    <3> QED BY <1>8, <2>1, <3>1 DEF Edit!Busy
  <2> QED BY <1>8, <2>1 DEF EditAlone
<1>10. \A h \in Updates : h # g => editRun'[h].pc = editRun[h].pc
  BY <1>3, <1>4
<1>11. PromptStands'
  BY <1>1, <1>10 DEF EditInv, PromptStands
<1>12. ShutFirst'
  BY <1>1, <1>2, <1>5, <1>10 DEF EditInv, ShutFirst
<1>13. \A h \in Updates : Clean(h)' => Sees(editRun[h])'
  BY <1>2, <1>5, <1>8 DEF Sees
<1> QED BY <1>7, <1>9, <1>11, <1>12, <1>13 DEF EditInv

\* The menu, the end of the add flow, the cancels and the way back to the menu: the record
\* waits for no answer any more.
LEMMA MenuTurns ==
  ASSUME EditInv, NEW g \in Updates, Edit!cbEventEditMenu(g) \/ Edit!Drop(g) \/ Edit!BackToMenu(g)
  PROVE  EditInv'
<1>1. Edit!Rest \in Editing
  BY DEF Editing
<1>2. editRun[g].pc # "idle" /\ asked' = asked
  BY DEF Edit!cbEventEditMenu, Edit!Drop, Edit!BackToMenu, Edit!Asks, Edit!At
<1>3. Edit!SetState("choosing") \/ Edit!Clear
  BY DEF Edit!cbEventEditMenu, Edit!Drop, Edit!BackToMenu
<1>4. CASE Edit!Return(g)
  <2>1. editRun' = [editRun EXCEPT ![g] = Edit!Rest]
    BY <1>4 DEF Edit!Return
  <2> QED BY <1>1, <1>2, <1>3, <2>1, EditShuts
<1>5. CASE Edit!Goto(g, "choose") /\ editRun[g].request.do \in {"menu", "added"}
  <2>1. "choose" \in EditPcs
    BY DEF EditPcs
  <2>2. PICK r \in Editing :
          /\ editRun' = [editRun EXCEPT ![g] = r] /\ r.pc = "choose"
          /\ r.request = editRun[g].request /\ r.clean = editRun[g].clean
    <3> DEFINE w == [editRun[g] EXCEPT !.pc = "choose"]
    <3>1. /\ editRun' = [editRun EXCEPT ![g] = w] /\ w \in Editing /\ w.pc = "choose"
          /\ w.request = editRun[g].request /\ w.clean = editRun[g].clean
      BY <1>2, <1>5, <2>1, EditGoes
    <3> HIDE DEF w
    <3> QED BY <3>1
  <2>3. Equipped(r) /\ Sees(r)'
    BY <1>5, <2>2 DEF Equipped, Sees
  <2> QED BY <1>2, <1>3, <2>2, <2>3, EditShuts
<1> QED BY <1>4, <1>5 DEF Edit!cbEventEditMenu, Edit!Drop, Edit!BackToMenu, Edit!Asks, Edit!Do

\* The event is named when the record waits for no answer.
LEMMA EventIsChosen ==
  ASSUME EditInv, NEW g \in Updates, Edit!ChooseEvent(g)
  PROVE  EditInv'
<1>1. editRun[g].pc = "choose" /\ editRun' = [editRun EXCEPT ![g] = Edit!Rest] /\ asked' = asked
      /\ Edit!UpdateData({"event_id"}, editRun[g].request.event)
  BY DEF Edit!ChooseEvent, Edit!At, Edit!Return
<1>2. editRun[g] # Edit!Rest /\ Edit!Rest \in Editing /\ editRun \in [Updates -> Editing]
  BY <1>1, EditParts DEF Editing, EditInv, EditTyped
<1>3. editRun[g].request.event \in Events
  BY <1>1, EditParts, RequestParts DEF Editor, Equipped
<1>4. /\ editStore' \in EditRecord /\ editStore'.state = editStore.state
      /\ editStore'.data["event_id"] \in Events
      /\ editStore'.data["editing_field"] = editStore.data["editing_field"]
  BY <1>1, <1>3 DEF Edit!UpdateData, EditInv, EditTyped, EditKept, EditRecord
<1>5. EditKept'
  BY <1>1, <1>4 DEF EditInv, EditTyped, EditKept
<1>6. editStore.state # "entering" \/ asked = None
  BY <1>1 DEF EditInv, ShutFirst
<1>7. PromptStands' /\ ShutFirst'
  BY <1>1, <1>4, <1>6 DEF PromptStands, ShutFirst
<1>8. Equipped(Edit!Rest)
  BY DEF Equipped, Edit!Rest
<1> QED BY <1>1, <1>2, <1>5, <1>7, <1>8, EditOnward

\* The field is named, and the prompt about to be shown.
LEMMA FieldIsRemembered ==
  ASSUME EditInv, NEW g \in Updates, Edit!RememberField(g)
  PROVE  EditInv'
<1>1. /\ editRun[g].pc = "remember" /\ Edit!Goto(g, "prompt") /\ asked' = asked
      /\ Edit!UpdateData({"editing_field"}, editRun[g].field)
  BY DEF Edit!RememberField, Edit!At
<1>2. editRun[g] # Edit!Rest /\ editRun \in [Updates -> Editing] /\ Equipped(editRun[g])
  BY <1>1, EditParts DEF EditInv, EditTyped
<1>3. editRun[g].field \in Edit!Fields /\ editRun[g].event \in Events
  BY <1>1, <1>2 DEF Equipped
<1>4. "prompt" \in EditPcs
  BY DEF EditPcs
<1>5. PICK r \in Editing :
        /\ editRun' = [editRun EXCEPT ![g] = r] /\ r.pc = "prompt"
        /\ r.event = editRun[g].event /\ r.field = editRun[g].field /\ r.clean = editRun[g].clean
  <2> DEFINE w == [editRun[g] EXCEPT !.pc = "prompt"]
  <2>1. /\ editRun' = [editRun EXCEPT ![g] = w] /\ w \in Editing /\ w.pc = "prompt"
        /\ w.event = editRun[g].event /\ w.field = editRun[g].field /\ w.clean = editRun[g].clean
    BY <1>1, <1>4, EditGoes
  <2> HIDE DEF w
  <2> QED BY <2>1
<1>6. editRun'[g] = r
  BY <1>2, <1>5
<1>7. /\ editStore' \in EditRecord /\ editStore'.state = editStore.state
      /\ editStore'.data["event_id"] = editStore.data["event_id"]
      /\ editStore'.data["editing_field"] = editRun[g].field
  BY <1>1, <1>3 DEF Edit!UpdateData, EditInv, EditTyped, EditKept, EditRecord
<1>8. EditKept'
  BY <1>1, <1>3, <1>7 DEF EditInv, EditTyped, EditKept
<1>9. PromptStands'
  BY <1>5, <1>6 DEF PromptStands
<1>10. ShutFirst'
  <2>1. \A h \in Updates : h # g => editRun'[h] = editRun[h]
    BY <1>2, <1>5
  <2> QED BY <1>1, <1>5, <1>6, <1>7, <2>1 DEF EditInv, ShutFirst
<1>11. Equipped(r)
  BY <1>3, <1>5 DEF Equipped
<1>12. ASSUME Clean(g) PROVE Sees(r)'
  <2>1. Sees(editRun[g])
    BY <1>12 DEF EditInv
  <2> QED BY <1>1, <1>5, <1>7, <2>1 DEF Sees
<1> QED BY <1>2, <1>5, <1>8, <1>9, <1>10, <1>11, <1>12, EditOnward

\* The prompt is shown.
LEMMA PromptIsShown ==
  ASSUME EditInv, NEW g \in Updates, Edit!Prompt(g)
  PROVE  EditInv'
<1>1. /\ editRun[g].pc = "prompt" /\ editRun' = [editRun EXCEPT ![g] = Edit!Rest]
      /\ Edit!SetState("entering")
      /\ asked' = IF editRun[g].clean THEN [event |-> editRun[g].event, field |-> editRun[g].field] ELSE None
  BY DEF Edit!Prompt, Edit!At, Edit!Return
<1>2. /\ editRun[g] # Edit!Rest /\ editRun \in [Updates -> Editing] /\ Equipped(editRun[g])
      /\ Edit!Rest \in Editing /\ Equipped(Edit!Rest) /\ (Clean(g) <=> editRun[g].clean)
  BY <1>1, EditParts DEF EditInv, EditTyped, Editing, Equipped, Edit!Rest
<1>3. editRun[g].field \in Edit!Fields /\ editRun[g].event \in Events
  BY <1>1, <1>2 DEF Equipped
<1>4. editStore' \in EditRecord /\ editStore'.data = editStore.data /\ editStore'.state = "entering"
  BY <1>1 DEF Edit!SetState, EditInv, EditTyped, EditKept, EditRecord, Edit!States
<1>5. EditKept'
  <2>1. asked' \in [event : Events, field : Edit!Fields] \cup {None}
    BY <1>1, <1>3
  <2> QED BY <1>4, <2>1 DEF EditInv, EditTyped, EditKept
<1>6. CASE Clean(g)
  <2>1. asked'.event = editStore.data["event_id"] /\ asked'.field = editStore.data["editing_field"]
    <3>1. Sees(editRun[g])
      BY <1>6 DEF EditInv
    <3>2. asked'.event = editRun[g].event /\ asked'.field = editRun[g].field
      BY <1>1, <1>2, <1>6
    <3> QED BY <1>1, <3>1, <3>2 DEF Sees
  <2>2. PromptStands'
    BY <1>4, <2>1 DEF PromptStands
  <2>3. \A h \in Updates : editRun'[h].pc # "choose"
    BY <1>1, <1>2, <1>6 DEF EditInv, EditAlone, Edit!Rest
  <2>4. ShutFirst'
    BY <2>3 DEF ShutFirst
  <2> QED BY <1>1, <1>2, <1>5, <2>2, <2>4, EditOnward
<1>7. CASE ~Clean(g)
  <2>1. asked' = None
    BY <1>1, <1>2, <1>7
  <2>2. PromptStands' /\ ShutFirst'
    BY <2>1 DEF PromptStands, ShutFirst
  <2> QED BY <1>1, <1>2, <1>5, <2>2, EditOnward
<1> QED BY <1>6, <1>7

\* An update goes to a place where no record is written, or ends.
LEMMA GoesQuietly ==
  ASSUME EditInv, NEW g \in Updates, editRun[g].pc \notin {"idle", "prompt"},
         NEW then \in EditPcs \ {"choose", "route"}, Edit!Goto(g, then), UNCHANGED <<editStore, asked>>,
         then \in {"owned", "remember", "prompt", "update"} =>
           editRun[g].event \in Events /\ editRun[g].field \in Edit!Fields,
         then = "event" /\ editRun[g].request.do # "skip" => editRun[g].field \in Edit!Fields,
         Clean(g) => Sees([editRun[g] EXCEPT !.pc = then])
  PROVE  EditInv'
<1> DEFINE r == [editRun[g] EXCEPT !.pc = then]
<1>1. /\ editRun' = [editRun EXCEPT ![g] = r] /\ r \in Editing /\ r.pc = then
      /\ r.request = editRun[g].request /\ r.event = editRun[g].event
      /\ r.field = editRun[g].field /\ r.clean = editRun[g].clean
  BY EditGoes
<1>2. Clean(g) => Sees(r)
  OBVIOUS
<1> HIDE DEF r
<1>3. Equipped(r)
  BY <1>1 DEF Equipped
<1> QED BY <1>1, <1>2, <1>3, EditQuiet

\* The event is checked, and its field, and one goes on to write them.
LEMMA OwnedGoesOn ==
  ASSUME EditInv, NEW g \in Updates, NEW then \in {"remember", "update"}, Edit!Owned(g, then)
  PROVE  EditInv'
<1>1. editRun[g].pc = "owned" /\ UNCHANGED <<editStore, asked>> /\ (Edit!Goto(g, then) \/ Edit!Return(g))
  BY DEF Edit!Owned, Edit!At
<1>2. Equipped(editRun[g]) /\ then \in EditPcs \ {"choose", "route"}
  BY <1>1, EditParts DEF EditPcs
<1>3. editRun[g].event \in Events /\ editRun[g].field \in Edit!Fields
  BY <1>1, <1>2 DEF Equipped
<1>4. ASSUME Clean(g) PROVE Sees([editRun[g] EXCEPT !.pc = then])
  <2> DEFINE r == [editRun[g] EXCEPT !.pc = then]
  <2>1. /\ r.pc = then /\ r.request = editRun[g].request /\ r.event = editRun[g].event
        /\ r.field = editRun[g].field
    BY <1>1, <1>2, EditGoes
  <2>2. Sees(editRun[g])
    BY <1>4 DEF EditInv
  <2> HIDE DEF r
  <2>3. Sees(r)
    BY <1>1, <2>1, <2>2 DEF Sees
  <2> QED BY <2>3 DEF r
<1> QED BY <1>1, <1>2, <1>3, <1>4, GoesQuietly, EditReturns

\* Whoever answers is heard while the record waits for it.
LEMMA AnswerIsHeard ==
  ASSUME EditInv, NEW g \in Updates, NEW do, NEW then \in {"event", "which"}, Edit!InEntering(g, do, then),
         then = "event" => do \in {"pick", "clear"}
  PROVE  EditInv'
<1>1. /\ editRun[g].pc = "route" /\ editRun[g].request.do = do /\ UNCHANGED <<editStore, asked>>
      /\ (editStore.state = "entering" /\ Edit!Goto(g, then)) \/ Edit!Return(g)
  BY DEF Edit!InEntering, Edit!Asks, Edit!At, Edit!Do, Edit!GetState
<1>2. then \in EditPcs \ {"choose", "route"}
  BY DEF EditPcs
<1>3. CASE editStore.state = "entering" /\ Edit!Goto(g, then)
  <2> DEFINE r == [editRun[g] EXCEPT !.pc = then]
  <2>1. /\ r.pc = then /\ r.request = editRun[g].request
    BY <1>1, <1>2, EditGoes
  <2> HIDE DEF r
  <2>2. Sees(r)
    BY <1>1, <1>3, <2>1 DEF Sees
  <2>3. Sees([editRun[g] EXCEPT !.pc = then])
    BY <2>2 DEF r
  <2>4. then = "event" => editRun[g].field \in Edit!Fields
    BY <1>1, EditParts DEF Equipped
  <2> QED BY <1>1, <1>2, <1>3, <2>3, <2>4, GoesQuietly
<1>4. CASE Edit!Return(g)
  BY <1>1, <1>4, EditReturns
<1> QED BY <1>1, <1>3, <1>4

\* The buttons of the editor: more details, "done" and "skip", a field.
LEMMA ButtonsOfTheEditor ==
  ASSUME EditInv, NEW g \in Updates,
         Edit!cbMoreDetails(g) \/ Edit!cbFieldSkipOrDone(g) \/ Edit!cbFieldPick(g)
  PROVE  EditInv'
<1>1. CASE Edit!cbMoreDetails(g)
  <2>1. editRun[g].pc = "route" /\ editRun[g].request.do = "more" /\ Edit!TakeEvent(g, "back")
    BY <1>1 DEF Edit!cbMoreDetails, Edit!Asks, Edit!At, Edit!Do
  <2> QED BY <2>1, EventIsTaken
<1>2. CASE Edit!cbFieldSkipOrDone(g)
  <2>1. CASE editRun[g].pc = "event" /\ editRun[g].request.do = "skip" /\ Edit!TakeEvent(g, "back")
    BY <2>1, EventIsTaken
  <2>2. CASE /\ editRun[g].pc = "route" /\ editRun[g].request.do = "skip" /\ UNCHANGED <<editStore, asked>>
             /\ Edit!Goto(g, "drop") \/ Edit!Goto(g, "event")
    <3>1. PICK then \in {"drop", "event"} : Edit!Goto(g, then)
      BY <2>2
    <3>2. then \in EditPcs \ {"choose", "route"}
      BY DEF EditPcs
    <3>3. Sees([editRun[g] EXCEPT !.pc = then])
      <4> DEFINE r == [editRun[g] EXCEPT !.pc = then]
      <4>1. r.pc = then /\ r.request = editRun[g].request
        BY <2>2, <3>2, EditGoes
      <4> HIDE DEF r
      <4>2. Sees(r)
        BY <2>2, <4>1 DEF Sees
      <4> QED BY <4>2 DEF r
    <3> QED BY <2>2, <3>1, <3>2, <3>3, GoesQuietly
  <2>3. CASE editRun[g].pc = "route" /\ Edit!Return(g) /\ UNCHANGED <<editStore, asked>>
    BY <2>3, EditReturns
  <2> QED BY <1>2, <2>1, <2>2, <2>3 DEF Edit!cbFieldSkipOrDone, Edit!Asks, Edit!At, Edit!Do
<1>3. CASE Edit!cbFieldPick(g)
  <2>1. CASE editRun[g].pc = "route" /\ editRun[g].request.do = "field" /\ Edit!TakeEvent(g, "owned")
    <3>1. editRun[g].field \in Edit!Fields
      BY <2>1, EditParts DEF Equipped
    <3> QED BY <2>1, <3>1, EventIsTaken
  <2>2. CASE Edit!Owned(g, "remember")
    BY <2>2, OwnedGoesOn
  <2> QED BY <1>3, <2>1, <2>2 DEF Edit!cbFieldPick, Edit!Asks, Edit!At, Edit!Do
<1> QED BY <1>1, <1>2, <1>3

\* The field a message is for is read from the record.
LEMMA FieldIsFound ==
  ASSUME EditInv, NEW g \in Updates, editRun[g].pc = "which", editRun[g].request.do \in {"text", "photo"},
         NEW fields \in SUBSET Edit!Fields, editStore.data["editing_field"] \in fields,
         editRun' = [editRun EXCEPT ![g].field = editStore.data["editing_field"], ![g].pc = "event"],
         UNCHANGED <<editStore, asked>>
  PROVE  EditInv'
<1> DEFINE r == [editRun[g] EXCEPT !.field = editStore.data["editing_field"], !.pc = "event"]
<1>1. editRun[g] \in Editor /\ editRun \in [Updates -> Editing] /\ editStore.data["editing_field"] \in Edit!Fields
  BY EditParts DEF EditInv, EditTyped
<1>2. editRun' = [editRun EXCEPT ![g] = r]
  BY <1>1
<1>3. /\ r \in Editing /\ r.pc = "event" /\ r.request = editRun[g].request
      /\ r.field = editStore.data["editing_field"] /\ r.clean = editRun[g].clean
  BY <1>1 DEF Editor, Editing, EditPcs
<1> HIDE DEF r
<1>4. Equipped(r)
  BY <1>1, <1>3 DEF Equipped
<1>5. ASSUME Clean(g) PROVE Sees(r)
  <2>1. Sees(editRun[g])
    BY <1>5 DEF EditInv
  <2> QED BY <1>3, <2>1 DEF Sees
<1> QED BY <1>2, <1>3, <1>4, <1>5, EditQuiet

\* A message is taken for the field in the record.
LEMMA MessageIsTaken ==
  ASSUME EditInv, NEW g \in Updates, NEW do \in {"text", "photo"}, NEW fields \in SUBSET Edit!Fields,
         Edit!ForField(g, do, fields)
  PROVE  EditInv'
<1>1. CASE Edit!InEntering(g, do, "which")
  BY <1>1, AnswerIsHeard
<1>2. CASE /\ editRun[g].pc = "which" /\ editRun[g].request.do = do /\ UNCHANGED <<editStore, asked>>
           /\ editStore.data["editing_field"] \in fields
           /\ editRun' = [editRun EXCEPT ![g].field = editStore.data["editing_field"], ![g].pc = "event"]
  BY <1>2, FieldIsFound
<1>3. CASE editRun[g].pc = "which" /\ Edit!Return(g) /\ UNCHANGED <<editStore, asked>>
  BY <1>3, EditReturns
<1>4. CASE editRun[g].pc = "event" /\ editRun[g].request.do = do /\ Edit!TakeEvent(g, "owned")
  <2>1. editRun[g].field \in Edit!Fields
    BY <1>4, EditParts DEF Equipped
  <2> QED BY <1>4, <2>1, EventIsTaken
<1>5. CASE Edit!Owned(g, "update")
  BY <1>5, OwnedGoesOn
<1>6. \/ Edit!InEntering(g, do, "which")
      \/ /\ editRun[g].pc = "which" /\ editRun[g].request.do = do /\ UNCHANGED <<editStore, asked>>
         /\ editStore.data["editing_field"] \in fields
         /\ editRun' = [editRun EXCEPT ![g].field = editStore.data["editing_field"], ![g].pc = "event"]
      \/ editRun[g].pc = "which" /\ Edit!Return(g) /\ UNCHANGED <<editStore, asked>>
      \/ editRun[g].pc = "event" /\ editRun[g].request.do = do /\ Edit!TakeEvent(g, "owned")
      \/ Edit!Owned(g, "update")
  BY DEF Edit!ForField, Edit!At, Edit!Do, Edit!EditingField, Edit!GetData
<1> QED BY <1>1, <1>2, <1>3, <1>4, <1>5, <1>6

\* The answers, and the statement that writes them.
LEMMA AnswersAreWritten ==
  ASSUME EditInv, NEW g \in Updates,
         \/ Edit!applyFieldFromCallback(g) \/ Edit!cbFieldClear(g) \/ Edit!applyField(g)
         \/ Edit!msgFieldValue(g) \/ Edit!msgFieldPhoto(g) \/ Edit!Update(g)
  PROVE  EditInv'
<1>1. CASE Edit!applyFieldFromCallback(g) \/ Edit!cbFieldClear(g)
  BY <1>1, AnswerIsHeard DEF Edit!applyFieldFromCallback, Edit!cbFieldClear
<1>2. CASE Edit!applyField(g)
  <2>1. CASE editRun[g].pc = "event" /\ editRun[g].request.do \in {"pick", "clear"} /\ Edit!TakeEvent(g, "owned")
    <3>1. editRun[g].field \in Edit!Fields
      BY <2>1, EditParts DEF Equipped
    <3> QED BY <2>1, <3>1, EventIsTaken
  <2>2. CASE Edit!Owned(g, "update")
    BY <2>2, OwnedGoesOn
  <2> QED BY <1>2, <2>1, <2>2 DEF Edit!applyField, Edit!At, Edit!Do
<1>3. CASE Edit!msgFieldValue(g) \/ Edit!msgFieldPhoto(g)
  <2>1. Texts \in SUBSET Edit!Fields /\ {Photo} \in SUBSET Edit!Fields
    BY DEF Edit!Fields
  <2> QED BY <1>3, <2>1, MessageIsTaken DEF Edit!msgFieldValue, Edit!msgFieldPhoto
<1>4. CASE Edit!Update(g)
  <2>1. editRun[g].pc = "update" /\ UNCHANGED <<editStore, asked>>
        /\ (Edit!Goto(g, "back") \/ Edit!Return(g))
    BY <1>4 DEF Edit!Update, Edit!At
  <2>2. "back" \in EditPcs \ {"choose", "route"}
    BY DEF EditPcs
  <2>3. Sees([editRun[g] EXCEPT !.pc = "back"])
    <3>1. [editRun[g] EXCEPT !.pc = "back"].pc = "back"
      BY <2>1, <2>2, EditGoes
    <3> QED BY <3>1 DEF Sees
  <2> QED BY <2>1, <2>2, <2>3, GoesQuietly, EditReturns
<1> QED BY <1>1, <1>2, <1>3, <1>4

\* The record grows old, or the process starts again.
LEMMA EditForgets ==
  ASSUME EditInv, Edit!Forget
  PROVE  EditInv'
<1>1. editStore' = Edit!Empty /\ editRun' = [g \in Updates |-> Edit!Rest] /\ asked' = asked
  BY DEF Edit!Forget, Edit!Clear
<1>2. EditKept' /\ editStore'.state = NoState
  BY <1>1 DEF Edit!Empty, EditRecord, EditKept, EditInv, EditTyped
<1>3. editRun' \in [Updates -> Editing] /\ \A g \in Updates : editRun'[g] = Edit!Rest /\ editRun'[g].pc = "idle"
  BY <1>1 DEF Editing, Edit!Rest
<1>4. EditTyped'
  BY <1>2, <1>3 DEF EditTyped, Equipped
<1>5. editStore'.state # "entering"
  BY <1>2, EditConstants DEF Edit!States
<1> QED BY <1>3, <1>4, <1>5 DEF EditInv, EditAlone, PromptStands, ShutFirst, Clean

\* Whoever acts, what was asked for is what the record waits for.
LEMMA EditNext == ASSUME EditInv, [Next]_vars PROVE EditInv'
<1>1. [Edit!Next]_editVars
  BY EachSteps
<1>2. CASE UNCHANGED editVars
  BY <1>2 DEF EditInv, EditTyped, EditKept, EditAlone, PromptStands, ShutFirst, Clean, Sees, editVars
<1>3. ASSUME NEW g \in Updates, Edit!Step(g) PROVE EditInv'
  BY <1>3, EditBegins, MenuTurns, EventIsChosen, FieldIsRemembered, PromptIsShown,
     ButtonsOfTheEditor, AnswersAreWritten DEF Edit!Step
<1> QED BY <1>1, <1>2, <1>3, EditForgets DEF Edit!Next

\* What the user types or sends is written to the event and the field that were asked for last,
\* whatever menus were opened, events made, prompts cancelled or records forgotten before, if
\* neither the answer's update nor the prompt's overlapped another.
THEOREM AnswersLand == Spec => []AnswerLandsWhereAsked
<1>1. EditInv => AnswerLandsWhereAsked
  <2> SUFFICES ASSUME EditInv, NEW g \in Updates, editRun[g] # Edit!Rest, editRun[g].pc = "update",
                      editRun[g].request.do \in {"text", "photo"}, editRun[g].clean, asked # None
               PROVE  editRun[g].event = asked.event /\ editRun[g].field = asked.field
    BY DEF AnswerLandsWhereAsked, Edit!AnswerLandsWhereAsked, Edit!Busy, Edit!At, Edit!Do
  <2>1. Clean(g) /\ Sees(editRun[g])
    BY DEF EditInv, Clean
  <2>2. \A h \in Updates : editRun[h].pc # "prompt"
    BY <2>1 DEF EditInv, EditAlone, Edit!Rest
  <2>3. editStore.state = "entering"
    BY <2>1 DEF Sees
  <2>4. editStore.data["event_id"] = asked.event /\ editStore.data["editing_field"] = asked.field
    BY <2>2, <2>3 DEF EditInv, PromptStands
  <2> QED BY <2>1, <2>4 DEF Sees
<1> QED BY <1>1, EditInit, EditNext, PTL DEF Spec

-----------------------------------------------------------------------------
(* The import *)

ImpRecord == [state : Imp!States \cup {NoState}, data : [{"import_payload"} -> DOMAIN Files \cup {0}]]
ImpRow == [key : Keys \ Refused, live : BOOLEAN]

\* The user's events, and whom they are of.
ImpLive == {i \in DOMAIN impEvents : impEvents[i].live}
ImpKeys == {impEvents[i].key : i \in ImpLive}

\* What a goroutine is at.
Filing == [pc : {"parsed", "keep"}, file : DOMAIN Files, clean : BOOLEAN]

Importer ==
  [pc : {"list", "replace", "keys", "rows", "done", "refused", "failed"}, mode : {"add", "replace"},
   file : DOMAIN Files, row : Nat \ {0}, left : SUBSET Nat, keys : SUBSET Keys, had : SUBSET Keys,
   clean : BOOLEAN]

Importing == {Imp!Rest} \cup Filing \cup Importer

\* It begins with the first row of its file, and is nowhere past the last.
InFile(r) ==
  /\ r.pc \in {"list", "replace", "keys"} => r.row = 1
  /\ r.pc = "rows" => r.row <= Len(Files[r.file]) + 1

ImpKept ==
  /\ impStore \in ImpRecord
  /\ impEvents \in Seq(ImpRow) /\ Len(impEvents) <= MaxEvents

ImpTyped ==
  /\ ImpKept
  /\ impRun \in [Updates -> Importing]
  /\ \A g \in Updates : InFile(impRun[g])

\* An import that overlaps nothing so far is the only update.
Unmixed(g) == impRun[g] # Imp!Rest /\ impRun[g].clean

ImpAlone == \A g, h \in Updates : Unmixed(g) /\ impRun[h] # Imp!Rest => g = h

\* What an import keeps of what there was,
Base(r) == IF r.mode = "add" THEN r.had ELSE {}

\* and the good rows among the first n of its file.
GoodUpTo(r, n) == {Files[r.file][i] : i \in 1 .. n} \ ({None} \cup Refused)

\* No two of the user's events are of one person.
NoTwins == \A i, j \in ImpLive : impEvents[i].key = impEvents[j].key => i = j

\* How far an import is that nothing overlapped.
Progress(r) ==
  /\ r.pc \in {"list", "replace"} => r.mode = "replace"
  /\ r.pc = "replace" => r.left = ImpLive
  /\ r.pc = "keys" => r.mode = "add" /\ r.had = ImpKeys
  /\ r.pc = "rows" => r.keys = ImpKeys /\ ImpKeys = Base(r) \cup GoodUpTo(r, r.row - 1)
  /\ r.pc = "done" => ImpKeys = Base(r) \cup GoodUpTo(r, Len(Files[r.file]))
  /\ r.pc \in {"rows", "done"} /\ r.mode = "replace" => NoTwins

ImpInv ==
  /\ ImpTyped /\ ImpAlone
  /\ \A g \in Updates : Unmixed(g) => Progress(impRun[g])

\* What the module assumes of its constants.
LEMMA ImpConstants ==
  /\ NoState \notin Imp!States /\ MaxEvents \in Nat /\ Refused \subseteq Keys /\ None \notin Keys
  /\ Initial \subseteq Keys \ Refused /\ IsFiniteSet(Initial) /\ Cardinality(Initial) <= MaxEvents
  /\ Cardinality(Initial) \in Nat
  /\ \A f \in DOMAIN Files : f # 0 /\ Files[f] \in Seq(Keys \cup {None}) /\ Len(Files[f]) \in Nat
<1>1. /\ Imp!IsFiniteSet(Initial) <=> IsFiniteSet(Initial)
      /\ Imp!Cardinality(Initial) = Cardinality(Initial)
  BY DEF Imp!IsFiniteSet, IsFiniteSet, Imp!Cardinality, Cardinality
<1>2. /\ NoState \notin Imp!States /\ MaxEvents \in Nat /\ Refused \subseteq Keys /\ None \notin Keys
      /\ Initial \subseteq Keys \ Refused /\ IsFiniteSet(Initial) /\ Cardinality(Initial) <= MaxEvents
      /\ \A f \in DOMAIN Files : f # 0 /\ Files[f] \in Seq(Keys \cup {None})
  BY <1>1, ConversationsAssumption DEF Imp!ImportsAssumption
<1>3. \A f \in DOMAIN Files : Len(Files[f]) \in Nat
  BY <1>2, LenProperties
<1> QED BY <1>2, <1>3, FS_CardinalityType

\* At first nobody is busy.
LEMMA ImpInit == Init => ImpInv
<1> SUFFICES ASSUME Init PROVE ImpInv
  OBVIOUS
<1> DEFINE n == Cardinality(Initial)
<1>1. /\ impStore = Imp!Empty /\ impRun = [g \in Updates |-> Imp!Rest]
      /\ impEvents \in [1 .. n -> {Imp!Event(k) : k \in Initial}]
  <2>1. Imp!Cardinality(Initial) = n
    BY DEF Imp!Cardinality, Cardinality
  <2> QED BY <2>1 DEF Init, Imp!Init
<1>2. n \in Nat /\ n <= MaxEvents /\ {Imp!Event(k) : k \in Initial} \subseteq ImpRow
  <2>1. n \in Nat /\ n <= MaxEvents /\ Initial \subseteq Keys \ Refused
    BY ImpConstants
  <2>2. \A k \in Initial : Imp!Event(k) \in ImpRow
    BY <2>1 DEF Imp!Event, ImpRow
  <2> QED BY <2>1, <2>2
<1>3. impEvents \in [1 .. n -> ImpRow]
  BY <1>1, <1>2
<1> HIDE DEF n
<1>4. impEvents \in Seq(ImpRow) /\ Len(impEvents) = n
  BY <1>2, <1>3, SeqDef, LenProperties
<1>5. ImpKept
  BY <1>1, <1>2, <1>4 DEF ImpKept, Imp!Empty, ImpRecord
<1>6. impRun \in [Updates -> Importing] /\ \A g \in Updates : impRun[g] = Imp!Rest /\ impRun[g].pc = "idle"
  BY <1>1 DEF Importing, Imp!Rest
<1> QED BY <1>5, <1>6 DEF ImpInv, ImpTyped, ImpAlone, Unmixed, InFile

\* Whoever is busy is one of its goroutines.
LEMMA ImpParts ==
  ASSUME ImpInv, NEW g \in Updates, impRun[g].pc # "idle"
  PROVE  /\ impRun[g] # Imp!Rest /\ impRun[g] \in Filing \cup Importer /\ InFile(impRun[g])
         /\ Unmixed(g) <=> impRun[g].clean
         /\ impRun[g].pc \notin {"parsed", "keep"} => impRun[g] \in Importer
<1>1. impRun[g] # Imp!Rest
  BY DEF Imp!Rest
<1>2. impRun[g] \in Filing \cup Importer /\ InFile(impRun[g])
  BY <1>1 DEF ImpInv, ImpTyped, Importing
<1> QED BY <1>1, <1>2 DEF Unmixed, Filing

\* A goroutine goes on with its work, or ends it.
LEMMA ImpOnward ==
  ASSUME ImpInv, NEW g \in Updates, impRun[g].pc # "idle", NEW r \in Importing,
         impRun' = [impRun EXCEPT ![g] = r], r # Imp!Rest => r.clean = impRun[g].clean,
         ImpKept', InFile(r), Unmixed(g) /\ r # Imp!Rest => Progress(r)'
  PROVE  ImpInv'
<1>1. impRun' \in [Updates -> Importing] /\ \A h \in Updates : impRun'[h] = IF h = g THEN r ELSE impRun[h]
  BY DEF ImpInv, ImpTyped
<1>2. ImpTyped'
  BY <1>1 DEF ImpInv, ImpTyped, InFile
<1>3. impRun[g] # Imp!Rest
  BY ImpParts
<1>4. \A h \in Updates : /\ Unmixed(h)' => Unmixed(h)
                         /\ impRun'[h] # Imp!Rest => impRun[h] # Imp!Rest
  BY <1>1, <1>3 DEF Unmixed
<1>5. ImpAlone'
  BY <1>4 DEF ImpInv, ImpAlone
<1>6. ASSUME NEW h \in Updates, Unmixed(h)' PROVE Progress(impRun[h])'
  <2>1. h = g
    BY <1>3, <1>4, <1>6 DEF ImpInv, ImpAlone
  <2>2. impRun'[h] = r /\ r # Imp!Rest /\ Unmixed(g)
    BY <1>1, <1>4, <1>6, <2>1 DEF Unmixed
  <2>3. Progress(r)'
    BY <2>2
  <2> QED BY <2>2, <2>3 DEF Progress, Base, GoodUpTo
<1> QED BY <1>2, <1>5, <1>6 DEF ImpInv

\* It goes on without a statement.
LEMMA ImpQuiet ==
  ASSUME ImpInv, NEW g \in Updates, impRun[g].pc # "idle", NEW r \in Importing,
         impRun' = [impRun EXCEPT ![g] = r], UNCHANGED impEvents, impStore' \in ImpRecord,
         r # Imp!Rest => r.clean = impRun[g].clean,
         InFile(r), Unmixed(g) /\ r # Imp!Rest => Progress(r)
  PROVE  ImpInv'
<1>1. ImpKept'
  BY DEF ImpInv, ImpTyped, ImpKept
<1>2. ImpLive' = ImpLive /\ ImpKeys' = ImpKeys /\ (NoTwins' <=> NoTwins)
  BY DEF ImpLive, ImpKeys, NoTwins
<1>3. Progress(r) => Progress(r)'
  BY <1>2 DEF Progress, Base, GoodUpTo
<1> QED BY <1>1, <1>3, ImpOnward

\* The other updates of a moment are overlapped.
LEMMA Overlapped ==
  ASSUME ImpInv, NEW h \in Updates, impRun[h] # Imp!Rest
  PROVE  /\ [impRun[h] EXCEPT !.clean = FALSE] \in Importing
         /\ [impRun[h] EXCEPT !.clean = FALSE].clean = FALSE
         /\ InFile([impRun[h] EXCEPT !.clean = FALSE])
<1>1. impRun[h] \in Filing \cup Importer /\ InFile(impRun[h])
  BY DEF ImpInv, ImpTyped, Importing
<1>2. CASE impRun[h] \in Filing
  <2>1. [impRun[h] EXCEPT !.clean = FALSE] \in Filing
    BY <1>2 DEF Filing
  <2>2. [impRun[h] EXCEPT !.clean = FALSE].clean = FALSE
    BY <1>2 DEF Filing
  <2> QED BY <2>1, <2>2 DEF Importing, InFile, Filing
<1>3. CASE impRun[h] \in Importer
  <2> DEFINE r == [impRun[h] EXCEPT !.clean = FALSE]
  <2>1. r \in Importer
    BY <1>3 DEF Importer
  <2>2. r.clean = FALSE /\ r.pc = impRun[h].pc /\ r.row = impRun[h].row /\ r.file = impRun[h].file
    BY <1>3 DEF Importer
  <2> HIDE DEF r
  <2>3. r \in Importing /\ InFile(r)
    BY <1>1, <2>1, <2>2 DEF Importing, InFile
  <2> QED BY <2>2, <2>3 DEF r
<1> QED BY <1>1, <1>2, <1>3

\* A goroutine begins, and whatever was busy has been overlapped.
LEMMA ImpBegins ==
  ASSUME ImpInv, NEW g \in Updates, impRun[g] = Imp!Rest, NEW r \in Importing, r # Imp!Rest,
         Imp!Begin(g, r), r.clean => Imp!Busy = {}, UNCHANGED <<impStore, impEvents>>,
         InFile(r), r.clean => Progress(r)
  PROVE  ImpInv'
<1>1. /\ impRun'[g] = r
      /\ \A h \in Updates : h # g => impRun'[h] = IF impRun[h] = Imp!Rest THEN Imp!Rest
                                                  ELSE [impRun[h] EXCEPT !.clean = FALSE]
  BY DEF Imp!Begin
<1>2. ASSUME NEW h \in Updates, h # g
      PROVE  /\ impRun'[h] \in Importing /\ InFile(impRun'[h]) /\ ~Unmixed(h)'
             /\ impRun'[h] # Imp!Rest => impRun[h] # Imp!Rest
  <2>1. CASE impRun[h] = Imp!Rest
    <3>1. impRun'[h] = Imp!Rest
      BY <1>1, <1>2, <2>1
    <3>2. Imp!Rest \in Importing /\ InFile(Imp!Rest)
      BY DEF Importing, InFile, Imp!Rest
    <3> QED BY <3>1, <3>2 DEF Unmixed
  <2>2. CASE impRun[h] # Imp!Rest
    BY <1>1, <1>2, <2>2, Overlapped DEF Unmixed
  <2> QED BY <2>1, <2>2
<1>3. ImpTyped'
  <2>1. impRun' \in [Updates -> Importing]
    <3>1. \A h \in Updates : impRun'[h] \in Importing
      BY <1>1, <1>2
    <3> QED BY <3>1 DEF Imp!Begin
  <2>2. \A h \in Updates : InFile(impRun'[h])
    BY <1>1, <1>2
  <2> QED BY <2>1, <2>2 DEF ImpInv, ImpTyped, ImpKept, InFile
<1>4. ImpAlone'
  <2>1. ASSUME NEW h \in Updates, Unmixed(g)', impRun'[h] # Imp!Rest PROVE h = g
    <3>1. Imp!Busy = {}
      BY <1>1, <2>1 DEF Unmixed
    <3> QED BY <1>2, <2>1, <3>1 DEF Imp!Busy
  <2> QED BY <1>2, <2>1 DEF ImpAlone
<1>5. ASSUME NEW h \in Updates, Unmixed(h)' PROVE Progress(impRun[h])'
  <2>1. h = g /\ r.clean
    BY <1>1, <1>2, <1>5 DEF Unmixed
  <2>2. ImpLive' = ImpLive /\ ImpKeys' = ImpKeys /\ (NoTwins' <=> NoTwins)
    BY DEF ImpLive, ImpKeys, NoTwins
  <2>3. Progress(r)
    BY <2>1
  <2> QED BY <1>1, <2>1, <2>2, <2>3 DEF Progress, Base, GoodUpTo
<1> QED BY <1>3, <1>4, <1>5 DEF ImpInv

\* What the rows of the table tell of who is there.
LEMMA ImpRows ==
  ASSUME ImpKept
  PROVE  /\ DOMAIN impEvents = 1 .. Len(impEvents) /\ Len(impEvents) \in Nat
         /\ \A i \in DOMAIN impEvents : impEvents[i] \in ImpRow
         /\ ImpLive \subseteq DOMAIN impEvents /\ ImpLive \in SUBSET Nat
         /\ ImpKeys \subseteq Keys \ Refused
<1>1. DOMAIN impEvents = 1 .. Len(impEvents) /\ Len(impEvents) \in Nat /\ impEvents \in [1 .. Len(impEvents) -> ImpRow]
  BY LenProperties DEF ImpKept
<1>2. \A i \in DOMAIN impEvents : impEvents[i] \in ImpRow
  BY <1>1
<1>3. ImpLive \subseteq DOMAIN impEvents /\ ImpLive \in SUBSET Nat
  BY <1>1 DEF ImpLive
<1>4. ImpKeys \subseteq Keys \ Refused
  BY <1>2, <1>3 DEF ImpKeys, ImpRow
<1> QED BY <1>1, <1>2, <1>3, <1>4

\* An event there is, is deleted or taken back.
LEMMA RowIsTurned ==
  ASSUME ImpKept, NEW i \in DOMAIN impEvents, NEW b \in BOOLEAN,
         impEvents' = [impEvents EXCEPT ![i] = [impEvents[i] EXCEPT !.live = b]]
  PROVE  /\ impEvents' \in Seq(ImpRow) /\ Len(impEvents') <= MaxEvents
         /\ DOMAIN impEvents' = DOMAIN impEvents
         /\ impEvents'[i].live = b
         /\ \A j \in DOMAIN impEvents : j # i => impEvents'[j] = impEvents[j]
<1>1. /\ DOMAIN impEvents = 1 .. Len(impEvents) /\ impEvents[i] \in ImpRow /\ impEvents \in Seq(ImpRow)
      /\ Len(impEvents) <= MaxEvents
  BY ImpRows DEF ImpKept
<1>2. [impEvents[i] EXCEPT !.live = b] \in ImpRow /\ [impEvents[i] EXCEPT !.live = b].live = b
  BY <1>1 DEF ImpRow
<1>3. /\ impEvents' \in Seq(ImpRow) /\ Len(impEvents') = Len(impEvents)
      /\ \A j \in 1 .. Len(impEvents) :
           impEvents'[j] = IF j = i THEN [impEvents[i] EXCEPT !.live = b] ELSE impEvents[j]
  BY <1>1, <1>2, ExceptSeq
<1>4. DOMAIN impEvents' = 1 .. Len(impEvents')
  BY <1>3, LenProperties
<1> QED BY <1>1, <1>2, <1>3, <1>4

\* What soft deletion leaves: one event less, if it was one.
LEMMA RowIsDeleted ==
  ASSUME ImpKept, NEW i, impEvents' = [impEvents EXCEPT ![i].live = FALSE], UNCHANGED impStore
  PROVE  ImpKept' /\ ImpLive' = ImpLive \ {i}
<1>1. CASE i \in DOMAIN impEvents
  <2>1. impEvents' = [impEvents EXCEPT ![i] = [impEvents[i] EXCEPT !.live = FALSE]]
    OBVIOUS
  <2>2. /\ impEvents' \in Seq(ImpRow) /\ Len(impEvents') <= MaxEvents
        /\ DOMAIN impEvents' = DOMAIN impEvents
        /\ impEvents'[i].live = FALSE
        /\ \A j \in DOMAIN impEvents : j # i => impEvents'[j] = impEvents[j]
    BY <1>1, <2>1, RowIsTurned
  <2>3. ImpKept'
    BY <2>2 DEF ImpKept
  <2> QED BY <2>2, <2>3 DEF ImpLive
<1>2. CASE i \notin DOMAIN impEvents
  <2>1. impEvents' = impEvents
    <3>1. impEvents \in [DOMAIN impEvents -> ImpRow]
      BY LenProperties DEF ImpKept
    <3> QED BY <1>2, <3>1
  <2> QED BY <1>2, <2>1 DEF ImpKept, ImpLive
<1> QED BY <1>1, <1>2

\* What a new row adds.
LEMMA RowIsAppended ==
  ASSUME ImpKept, NEW k \in Keys \ Refused, Len(impEvents) < MaxEvents, UNCHANGED impStore,
         impEvents' = Append(impEvents, Imp!Event(k))
  PROVE  /\ ImpKept' /\ ImpKeys' = ImpKeys \cup {k}
         /\ NoTwins /\ k \notin ImpKeys => NoTwins'
<1> DEFINE n == Len(impEvents)
<1>1. Imp!Event(k) \in ImpRow /\ Imp!Event(k).key = k /\ Imp!Event(k).live
  BY DEF Imp!Event, ImpRow
<1>2. n \in Nat /\ n < MaxEvents /\ MaxEvents \in Nat /\ DOMAIN impEvents = 1 .. n
  BY ImpRows, ImpConstants
<1>3. /\ impEvents' \in Seq(ImpRow) /\ Len(impEvents') = n + 1
      /\ \A i \in 1 .. n : impEvents'[i] = impEvents[i]
      /\ impEvents'[n + 1] = Imp!Event(k)
  BY <1>1, AppendProperties DEF ImpKept
<1>4. DOMAIN impEvents' = 1 .. n + 1
  BY <1>3, LenProperties
<1> HIDE DEF n
<1>5. ImpKept'
  BY <1>2, <1>3 DEF ImpKept
<1>6. ImpLive' = ImpLive \cup {n + 1} /\ n + 1 \notin ImpLive
  <2>1. 1 .. n + 1 = (1 .. n) \cup {n + 1} /\ n + 1 \notin 1 .. n
    BY <1>2
  <2> QED BY <1>1, <1>2, <1>3, <1>4, <2>1 DEF ImpLive
<1>7. \A i \in ImpLive : impEvents'[i] = impEvents[i]
  BY <1>2, <1>3 DEF ImpLive
<1>8. impEvents'[n + 1].key = k
  BY <1>1, <1>3
<1>9. ImpKeys' = ImpKeys \cup {k}
  BY <1>6, <1>7, <1>8 DEF ImpKeys
<1>10. ASSUME NoTwins, k \notin ImpKeys PROVE NoTwins'
  <2>1. \A i \in ImpLive : impEvents'[i].key \in ImpKeys
    BY <1>7 DEF ImpKeys
  <2>2. ASSUME NEW i \in ImpLive', NEW j \in ImpLive', impEvents'[i].key = impEvents'[j].key PROVE i = j
    <3>1. i \in ImpLive \cup {n + 1} /\ j \in ImpLive \cup {n + 1}
      BY <1>6, <2>2
    <3>2. i \in ImpLive /\ j \in ImpLive => i = j
      BY <1>7, <1>10, <2>2 DEF NoTwins
    <3>3. i = n + 1 /\ j \in ImpLive => FALSE
      BY <1>8, <1>10, <2>1, <2>2
    <3>4. j = n + 1 /\ i \in ImpLive => FALSE
      BY <1>8, <1>10, <2>1, <2>2
    <3> QED BY <3>1, <3>2, <3>3, <3>4
  <2> QED BY <2>2 DEF NoTwins
<1> QED BY <1>5, <1>9, <1>10

\* What is done to the record of the store leaves one.
LEMMA ImpRecords ==
  ASSUME ImpInv
  PROVE  /\ \A s \in Imp!States : Imp!SetState(s) => impStore' \in ImpRecord
         /\ Imp!Clear => impStore' \in ImpRecord
         /\ \A f \in DOMAIN Files : Imp!UpdateData({"import_payload"}, f) => impStore' \in ImpRecord
<1>1. impStore \in ImpRecord
  BY DEF ImpInv, ImpTyped, ImpKept
<1> QED BY <1>1 DEF Imp!SetState, Imp!Clear, Imp!Empty, Imp!UpdateData, ImpRecord

\* Nobody but the store is concerned.
LEMMA RecordOnly ==
  ASSUME ImpInv, UNCHANGED <<impEvents, impRun>>, impStore' \in ImpRecord
  PROVE  ImpInv'
<1>1. ImpTyped' /\ ImpAlone'
  BY DEF ImpInv, ImpTyped, ImpKept, ImpAlone, Unmixed, InFile
<1>2. ASSUME NEW g \in Updates, Unmixed(g)' PROVE Progress(impRun[g])'
  <2>1. Progress(impRun[g])
    BY <1>2 DEF ImpInv, Unmixed
  <2>2. ImpLive' = ImpLive /\ ImpKeys' = ImpKeys /\ (NoTwins' <=> NoTwins)
    BY DEF ImpLive, ImpKeys, NoTwins
  <2> QED BY <2>1, <2>2 DEF Progress, Base, GoodUpTo
<1> QED BY <1>1, <1>2 DEF ImpInv

\* The conversation before an import: a file comes in and is kept.
LEMMA FileComes ==
  ASSUME ImpInv, NEW g \in Updates,
         \/ Imp!Start(g) \/ Imp!Unparsable(g) \/ Imp!Parsed(g) \/ Imp!Keep(g)
         \/ \E f \in DOMAIN Files : Imp!File(g, f)
  PROVE  ImpInv'
<1>1. CASE Imp!Start(g) \/ Imp!Unparsable(g)
  <2>1. impStore' \in ImpRecord /\ UNCHANGED <<impEvents, impRun>>
    BY <1>1, ImpRecords DEF Imp!Start, Imp!Unparsable, Imp!States
  <2> QED BY <2>1, RecordOnly
<1>2. CASE Imp!Parsed(g)
  <2>1. impRun[g].pc = "parsed" /\ impStore' \in ImpRecord /\ UNCHANGED impEvents
        /\ impRun' = [impRun EXCEPT ![g].pc = "keep"]
    BY <1>2, ImpRecords DEF Imp!Parsed, Imp!At, Imp!Goto, Imp!States
  <2>2. impRun[g] \in Filing
    BY <2>1, ImpParts DEF Importer
  <2> DEFINE r == [impRun[g] EXCEPT !.pc = "keep"]
  <2>3. impRun' = [impRun EXCEPT ![g] = r]
    BY <2>1
  <2>4. r \in Importing /\ r.pc = "keep" /\ r.clean = impRun[g].clean
    BY <2>2 DEF Filing, Importing
  <2> HIDE DEF r
  <2>5. InFile(r) /\ Progress(r)
    BY <2>4 DEF InFile, Progress
  <2> QED BY <2>1, <2>3, <2>4, <2>5, ImpQuiet
<1>3. CASE Imp!Keep(g)
  <2>1. impRun[g].pc = "keep" /\ Imp!UpdateData({"import_payload"}, impRun[g].file) /\ UNCHANGED impEvents
        /\ impRun' = [impRun EXCEPT ![g] = Imp!Rest]
    BY <1>3 DEF Imp!Keep, Imp!At, Imp!Return
  <2>2. impRun[g].file \in DOMAIN Files
    BY <2>1, ImpParts DEF Importer, Filing
  <2>3. impStore' \in ImpRecord
    BY <2>1, <2>2, ImpRecords
  <2>4. Imp!Rest \in Importing /\ InFile(Imp!Rest)
    BY DEF Importing, InFile, Imp!Rest
  <2> QED BY <2>1, <2>3, <2>4, ImpQuiet
<1>4. ASSUME NEW f \in DOMAIN Files, Imp!File(g, f) PROVE ImpInv'
  <2>1. PICK r : r = [pc |-> "parsed", file |-> f, clean |-> Imp!Busy = {}]
    OBVIOUS
  <2>2. impRun[g] = Imp!Rest /\ UNCHANGED <<impStore, impEvents>> /\ Imp!Begin(g, r)
    BY <1>4, <2>1 DEF Imp!File
  <2>3. r \in Importing /\ r.pc = "parsed" /\ (r.clean => Imp!Busy = {})
    BY <2>1 DEF Importing, Filing
  <2>4. r # Imp!Rest /\ InFile(r) /\ Progress(r)
    BY <2>3 DEF InFile, Progress, Imp!Rest
  <2> QED BY <2>2, <2>3, <2>4, ImpBegins
<1> QED BY <1>1, <1>2, <1>3, <1>4

\* An import begins.
LEMMA ImportBegins ==
  ASSUME ImpInv, NEW g \in Updates, NEW mode \in {"add", "replace"}, Imp!Do(g, mode)
  PROVE  ImpInv'
<1> DEFINE f == impStore.data["import_payload"]
<1>1. CASE f = 0
  <2>1. Imp!Clear /\ UNCHANGED <<impEvents, impRun>>
    BY <1>1 DEF Imp!Do, Imp!GetData
  <2> QED BY <2>1, ImpRecords, RecordOnly
<1>2. CASE f # 0
  <2>1. f \in DOMAIN Files
    BY <1>2 DEF ImpInv, ImpTyped, ImpKept, ImpRecord
  <2>2. PICK r : r = [pc |-> IF mode = "replace" THEN "list" ELSE "keys", mode |-> mode, file |-> f, row |-> 1,
                      left |-> {}, keys |-> {}, had |-> ImpKeys, clean |-> Imp!Busy = {}]
    OBVIOUS
  <2>3. Imp!LiveKeys = ImpKeys
    BY DEF Imp!LiveKeys, Imp!LiveIds, ImpKeys, ImpLive
  <2>4. impRun[g] = Imp!Rest /\ UNCHANGED <<impStore, impEvents>> /\ Imp!Begin(g, r)
    BY <1>2, <2>2, <2>3 DEF Imp!Do, Imp!GetData
  <2>5. ImpKeys \in SUBSET Keys
    BY ImpRows DEF ImpInv, ImpTyped
  <2> HIDE DEF f
  <2>6. /\ r \in Importing /\ (r.clean => Imp!Busy = {}) /\ r.mode = mode /\ r.row = 1 /\ r.had = ImpKeys
        /\ r.pc = IF mode = "replace" THEN "list" ELSE "keys"
    <3>1. PICK pc \in {"list", "keys"} : pc = IF mode = "replace" THEN "list" ELSE "keys"
      OBVIOUS
    <3>2. PICK clean \in BOOLEAN : clean = (Imp!Busy = {})
      OBVIOUS
    <3>3. r = [pc |-> pc, mode |-> mode, file |-> f, row |-> 1, left |-> {}, keys |-> {},
               had |-> ImpKeys, clean |-> clean]
      BY <2>2, <3>1, <3>2
    <3>4. r \in Importer
      BY <2>1, <2>5, <3>3 DEF Importer
    <3> QED BY <3>1, <3>2, <3>3, <3>4 DEF Importing
  <2>7. r # Imp!Rest /\ InFile(r) /\ Progress(r)
    BY <2>6 DEF InFile, Progress, Imp!Rest
  <2> QED BY <2>4, <2>6, <2>7, ImpBegins
<1> QED BY <1>1, <1>2

\* DoImport returns, in one way or another.
LEMMA ImportReturns ==
  ASSUME ImpInv, NEW g \in Updates, impRun[g].pc \in {"list", "replace", "keys", "rows"},
         NEW pc \in {"done", "refused", "failed"}, Imp!Finish(g, pc), UNCHANGED <<impStore, impEvents>>,
         Unmixed(g) /\ pc = "done" =>
           impRun[g].pc = "rows" /\ impRun[g].row - 1 = Len(Files[impRun[g].file])
  PROVE  ImpInv'
<1> DEFINE r == [impRun[g] EXCEPT !.pc = pc, !.row = 1, !.left = {}, !.keys = {}]
<1>1. impRun[g] \in Importer /\ impRun \in [Updates -> Importing] /\ impStore \in ImpRecord
  BY ImpParts DEF ImpInv, ImpTyped, ImpKept
<1>2. impRun' = [impRun EXCEPT ![g] = r]
  BY <1>1 DEF Imp!Finish
<1>3. /\ r \in Importing /\ r.pc = pc /\ r.clean = impRun[g].clean /\ r.mode = impRun[g].mode
      /\ r.had = impRun[g].had /\ r.file = impRun[g].file
  <2>1. r \in Importer
    <3> DEFINE v == [impRun[g] EXCEPT !.pc = pc]
               w == [v EXCEPT !.row = 1]
    <3>1. v \in Importer
      BY <1>1 DEF Importer
    <3>2. r = [w EXCEPT !.left = {}, !.keys = {}]
      OBVIOUS
    <3> HIDE DEF v, r
    <3>3. w \in Importer
      <4>1. 1 \in Nat \ {0}
        OBVIOUS
      <4> QED BY <3>1, <4>1 DEF Importer
    <3> HIDE DEF w
    <3>4. [w EXCEPT !.left = {}, !.keys = {}] \in Importer
      BY <3>3 DEF Importer
    <3> QED BY <3>2, <3>4
  <2>2. /\ r.pc = pc /\ r.clean = impRun[g].clean /\ r.mode = impRun[g].mode
        /\ r.had = impRun[g].had /\ r.file = impRun[g].file
    BY <1>1 DEF Importer
  <2> HIDE DEF r
  <2> QED BY <2>1, <2>2 DEF Importing
<1> HIDE DEF r
<1>4. ASSUME Unmixed(g) PROVE Progress(r)
  <2>1. Progress(impRun[g])
    BY <1>4 DEF ImpInv
  <2>2. CASE pc = "done"
    <3>1. impRun[g].pc = "rows" /\ impRun[g].row - 1 = Len(Files[impRun[g].file])
      BY <1>4, <2>2
    <3>2. Base(r) = Base(impRun[g]) /\ \A n : GoodUpTo(r, n) = GoodUpTo(impRun[g], n)
      BY <1>3 DEF Base, GoodUpTo
    <3>3. ImpKeys = Base(r) \cup GoodUpTo(r, Len(Files[r.file]))
      BY <1>3, <2>1, <3>1, <3>2 DEF Progress
    <3>4. r.mode = "replace" => NoTwins
      BY <1>3, <2>1, <3>1 DEF Progress
    <3> QED BY <1>3, <2>2, <3>3, <3>4 DEF Progress
  <2>3. CASE pc # "done"
    BY <1>3, <2>3 DEF Progress
  <2> QED BY <2>2, <2>3
<1>5. InFile(r)
  BY <1>3 DEF InFile
<1> QED BY <1>1, <1>2, <1>3, <1>4, <1>5, ImpQuiet

\* The end of an import: the record is cleared.
LEMMA ImportEnds ==
  ASSUME ImpInv, NEW g \in Updates, Imp!End(g)
  PROVE  ImpInv'
<1>1. impRun[g].pc # "idle" /\ UNCHANGED impEvents /\ impRun' = [impRun EXCEPT ![g] = Imp!Rest] /\ Imp!Clear
  BY DEF Imp!End, Imp!Return
<1>2. Imp!Rest \in Importing /\ InFile(Imp!Rest)
  BY DEF Importing, InFile, Imp!Rest
<1> QED BY <1>1, <1>2, ImpRecords, ImpQuiet

\* Replacing: what is listed is deleted, one by one.
LEMMA EventsAreReplaced ==
  ASSUME ImpInv, NEW g \in Updates, Imp!List(g) \/ Imp!SoftDelete(g)
  PROVE  ImpInv'
<1>1. CASE Imp!List(g)
  <2> DEFINE r == [impRun[g] EXCEPT !.left = ImpLive, !.pc = "replace"]
  <2>1. impRun[g].pc = "list" /\ UNCHANGED <<impStore, impEvents>>
    BY <1>1 DEF Imp!List, Imp!At
  <2>2. /\ impRun[g] \in Importer /\ impRun \in [Updates -> Importing] /\ impStore \in ImpRecord
        /\ ImpLive \in SUBSET Nat
    BY <2>1, ImpParts, ImpRows DEF ImpInv, ImpTyped, ImpKept
  <2>3. impRun' = [impRun EXCEPT ![g] = r]
    BY <1>1, <2>2 DEF Imp!List, Imp!LiveIds, ImpLive
  <2>4. /\ r \in Importing /\ r.pc = "replace" /\ r.left = ImpLive
        /\ r.mode = impRun[g].mode /\ r.row = impRun[g].row /\ r.clean = impRun[g].clean
    BY <2>2 DEF Importing, Importer
  <2> HIDE DEF r
  <2>5. ASSUME Unmixed(g) PROVE Progress(r)
    <3>1. Progress(impRun[g])
      BY <2>5 DEF ImpInv
    <3> QED BY <2>1, <2>4, <3>1 DEF Progress
  <2>6. InFile(r)
    BY <2>1, <2>4, ImpParts DEF InFile
  <2> QED BY <2>1, <2>2, <2>3, <2>4, <2>5, <2>6, ImpQuiet
<1>2. CASE Imp!SoftDelete(g)
  <2>1. impRun[g].pc = "replace" /\ UNCHANGED impStore
    BY <1>2 DEF Imp!SoftDelete, Imp!At
  <2>2. PICK i : /\ impEvents' = [impEvents EXCEPT ![i].live = FALSE]
                 /\ impRun' = [impRun EXCEPT ![g].left = impRun[g].left \ {i}]
    BY <1>2 DEF Imp!SoftDelete, ImpInv, ImpTyped
  <2>3. impRun[g] \in Importer /\ impRun \in [Updates -> Importing]
    BY <2>1, ImpParts DEF ImpInv, ImpTyped
  <2>4. ImpKept' /\ ImpLive' = ImpLive \ {i}
    BY <2>1, <2>2, RowIsDeleted DEF ImpInv, ImpTyped
  <2>5. PICK r \in Importing :
          /\ impRun' = [impRun EXCEPT ![g] = r]
          /\ r.pc = "replace" /\ r.left = impRun[g].left \ {i}
          /\ r.mode = impRun[g].mode /\ r.row = impRun[g].row /\ r.clean = impRun[g].clean
    <3> DEFINE w == [impRun[g] EXCEPT !.left = impRun[g].left \ {i}]
    <3>1. impRun' = [impRun EXCEPT ![g] = w]
      BY <2>2, <2>3
    <3>2. /\ w \in Importing /\ w.pc = "replace" /\ w.left = impRun[g].left \ {i}
          /\ w.mode = impRun[g].mode /\ w.row = impRun[g].row /\ w.clean = impRun[g].clean
      BY <2>1, <2>3 DEF Importing, Importer
    <3> HIDE DEF w
    <3> QED BY <3>1, <3>2
  <2>6. ASSUME Unmixed(g) PROVE Progress(r)'
    <3>1. Progress(impRun[g])
      BY <2>6 DEF ImpInv
    <3> QED BY <2>1, <2>4, <2>5, <3>1 DEF Progress
  <2>7. InFile(r)
    BY <2>1, <2>5, ImpParts DEF InFile
  <2> QED BY <2>1, <2>4, <2>5, <2>6, <2>7, ImpOnward
<1> QED BY <1>1, <1>2

\* Nobody is there who is of no row, and nobody two of none.
LEMMA NobodyLeft ==
  ASSUME ImpLive = {}
  PROVE  ImpKeys = {} /\ NoTwins
BY DEF ImpKeys, NoTwins

\* The keys are collected: of whom the user had, or of nobody.
LEMMA KeysAreCollected ==
  ASSUME ImpInv, NEW g \in Updates, Imp!CollectKeys(g)
  PROVE  ImpInv'
<1> DEFINE r == [impRun[g] EXCEPT !.keys = ImpKeys, !.pc = "rows"]
<1>1. /\ UNCHANGED <<impStore, impEvents>>
      /\ impRun[g].pc = "keys" \/ (impRun[g].pc = "replace" /\ impRun[g].left = {})
  BY DEF Imp!CollectKeys, Imp!At
<1>2. /\ impRun[g] \in Importer /\ impRun \in [Updates -> Importing] /\ impStore \in ImpRecord
      /\ ImpKeys \in SUBSET Keys
  BY <1>1, ImpParts, ImpRows DEF ImpInv, ImpTyped, ImpKept
<1>3. Imp!LiveKeys = ImpKeys
  BY DEF Imp!LiveKeys, Imp!LiveIds, ImpKeys, ImpLive
<1>4. impRun' = [impRun EXCEPT ![g] = r]
  BY <1>2, <1>3 DEF Imp!CollectKeys, Imp!DupKeys
<1>5. /\ r \in Importing /\ r.pc = "rows" /\ r.keys = ImpKeys /\ r.file = impRun[g].file
      /\ r.mode = impRun[g].mode /\ r.had = impRun[g].had /\ r.row = impRun[g].row
      /\ r.clean = impRun[g].clean
  BY <1>2 DEF Importing, Importer
<1> HIDE DEF r
<1>6. r.row = 1 /\ InFile(r)
  <2>1. r.row = 1
    BY <1>1, <1>5, ImpParts DEF InFile
  <2>2. Len(Files[r.file]) \in Nat
    BY <1>2, <1>5, ImpConstants DEF Importer
  <2> QED BY <1>5, <2>1, <2>2 DEF InFile
<1>7. ASSUME Unmixed(g) PROVE Progress(r)
  <2>1. Progress(impRun[g])
    BY <1>7 DEF ImpInv
  <2>3. GoodUpTo(r, r.row - 1) = {}
    BY <1>6 DEF GoodUpTo
  <2>4. ImpKeys = Base(r) /\ (r.mode = "replace" => NoTwins)
    BY <1>1, <1>5, <2>1, NobodyLeft DEF Progress, Base
  <2> QED BY <1>5, <2>3, <2>4 DEF Progress
<1> QED BY <1>1, <1>2, <1>4, <1>5, <1>6, <1>7, ImpQuiet

\* One row further: its person is good, or is none the table would take.
LEMMA OneRowFurther ==
  ASSUME ImpInv, NEW g \in Updates, impRun[g].pc = "rows", Imp!More(g)
  PROVE  /\ impRun[g].file \in DOMAIN Files /\ impRun[g].row \in Nat \ {0}
         /\ impRun[g].row <= Len(Files[impRun[g].file]) /\ Len(Files[impRun[g].file]) \in Nat
         /\ Imp!Row(g) \in Keys \cup {None}
         /\ GoodUpTo(impRun[g], impRun[g].row)
              = GoodUpTo(impRun[g], impRun[g].row - 1) \cup ({Imp!Row(g)} \ ({None} \cup Refused))
<1>1. impRun[g] \in Importer
  BY ImpParts
<1>2. impRun[g].file \in DOMAIN Files /\ impRun[g].row \in Nat \ {0} /\ Len(Files[impRun[g].file]) \in Nat
  BY <1>1, ImpConstants DEF Importer
<1>3. impRun[g].row <= Len(Files[impRun[g].file])
  BY DEF Imp!More
<1>4. Imp!Row(g) \in Keys \cup {None}
  <2>1. Files[impRun[g].file] \in Seq(Keys \cup {None})
    BY <1>2, ImpConstants
  <2>2. impRun[g].row \in 1 .. Len(Files[impRun[g].file])
    BY <1>2, <1>3
  <2> QED BY <2>1, <2>2, ElementOfSeq DEF Imp!Row
<1>5. 1 .. impRun[g].row = (1 .. impRun[g].row - 1) \cup {impRun[g].row}
  BY <1>2
<1> QED BY <1>2, <1>3, <1>4, <1>5 DEF GoodUpTo, Imp!Row

\* A row is passed over: its person is there, or there is none.
LEMMA RowIsPassedOver ==
  ASSUME ImpInv, NEW g \in Updates, Imp!PassOver(g)
  PROVE  ImpInv'
<1> DEFINE r == [impRun[g] EXCEPT !.row = impRun[g].row + 1]
<1>1. /\ impRun[g].pc = "rows" /\ Imp!More(g) /\ UNCHANGED <<impStore, impEvents>>
      /\ Imp!Row(g) = None \/ Imp!Row(g) \in impRun[g].keys
  BY DEF Imp!PassOver, Imp!At
<1>2. impRun[g] \in Importer /\ impRun \in [Updates -> Importing] /\ impStore \in ImpRecord
  BY <1>1, ImpParts DEF ImpInv, ImpTyped, ImpKept
<1>3. impRun' = [impRun EXCEPT ![g] = r]
  BY <1>2 DEF Imp!PassOver
<1>4. impRun[g].row \in Nat \ {0} /\ impRun[g].row <= Len(Files[impRun[g].file]) /\ Len(Files[impRun[g].file]) \in Nat
  BY <1>1, OneRowFurther
<1>5. /\ r \in Importing /\ r.pc = "rows" /\ r.keys = impRun[g].keys /\ r.file = impRun[g].file
      /\ r.mode = impRun[g].mode /\ r.had = impRun[g].had /\ r.row = impRun[g].row + 1
      /\ r.clean = impRun[g].clean
  <2>1. impRun[g].row + 1 \in Nat \ {0}
    BY <1>4
  <2> QED BY <1>1, <1>2, <2>1 DEF Importing, Importer
<1> HIDE DEF r
<1>6. InFile(r)
  BY <1>4, <1>5 DEF InFile
<1>7. ASSUME Unmixed(g) PROVE Progress(r)
  <2>1. Progress(impRun[g])
    BY <1>7 DEF ImpInv
  <2>2. /\ impRun[g].keys = ImpKeys /\ ImpKeys = Base(impRun[g]) \cup GoodUpTo(impRun[g], impRun[g].row - 1)
        /\ (impRun[g].mode = "replace" => NoTwins)
    BY <1>1, <2>1 DEF Progress
  <2>3. ImpKeys = Base(impRun[g]) \cup GoodUpTo(impRun[g], impRun[g].row)
    BY <1>1, <2>2, OneRowFurther
  <2>4. r.row - 1 = impRun[g].row
    BY <1>4, <1>5
  <2>5. Base(r) = Base(impRun[g]) /\ GoodUpTo(r, r.row - 1) = GoodUpTo(impRun[g], impRun[g].row)
    BY <1>5, <2>4 DEF Base, GoodUpTo
  <2> QED BY <1>5, <2>2, <2>3, <2>5 DEF Progress
<1> QED BY <1>1, <1>2, <1>3, <1>5, <1>6, <1>7, ImpQuiet

\* A row is created: its person is a new one.
LEMMA RowIsCreated ==
  ASSUME ImpInv, NEW g \in Updates, Imp!Create(g)
  PROVE  ImpInv'
<1>1. /\ impRun[g].pc = "rows" /\ Imp!More(g) /\ UNCHANGED impStore /\ Len(impEvents) < MaxEvents
      /\ impEvents' = Append(impEvents, Imp!Event(Imp!Row(g)))
      /\ Imp!Row(g) \notin {None} \cup impRun[g].keys \cup Refused
  BY DEF Imp!Create, Imp!At
<1>2. impRun[g] \in Importer /\ impRun \in [Updates -> Importing]
  BY <1>1, ImpParts DEF ImpInv, ImpTyped
<1>3. impRun[g].row \in Nat \ {0} /\ impRun[g].row <= Len(Files[impRun[g].file]) /\ Len(Files[impRun[g].file]) \in Nat
  BY <1>1, OneRowFurther
<1>4. Imp!Row(g) \in Keys \ Refused /\ Imp!Row(g) \notin impRun[g].keys
  BY <1>1, OneRowFurther
<1>5. /\ ImpKept' /\ ImpKeys' = ImpKeys \cup {Imp!Row(g)}
      /\ NoTwins /\ Imp!Row(g) \notin ImpKeys => NoTwins'
  <2>1. ImpKept
    BY DEF ImpInv, ImpTyped
  <2> QED BY <1>1, <1>4, <2>1, RowIsAppended
<1>6. PICK r \in Importing :
        /\ impRun' = [impRun EXCEPT ![g] = r]
        /\ r.pc = "rows" /\ r.keys = impRun[g].keys \cup {Imp!Row(g)} /\ r.file = impRun[g].file
        /\ r.mode = impRun[g].mode /\ r.had = impRun[g].had /\ r.row = impRun[g].row + 1
        /\ r.clean = impRun[g].clean
  <2> DEFINE w == [impRun[g] EXCEPT !.row = impRun[g].row + 1, !.keys = impRun[g].keys \cup {Imp!Row(g)}]
  <2>1. impRun[g].row + 1 \in Nat \ {0} /\ impRun[g].keys \cup {Imp!Row(g)} \in SUBSET Keys
    <3>1. impRun[g].keys \in SUBSET Keys
      BY <1>2 DEF Importer
    <3> QED BY <1>3, <1>4, <3>1
  <2>2. impRun' = [impRun EXCEPT ![g] = w]
    BY <1>2 DEF Imp!Create
  <2>3. /\ w \in Importing
        /\ w.pc = "rows" /\ w.keys = impRun[g].keys \cup {Imp!Row(g)} /\ w.file = impRun[g].file
        /\ w.mode = impRun[g].mode /\ w.had = impRun[g].had /\ w.row = impRun[g].row + 1
        /\ w.clean = impRun[g].clean
    BY <1>1, <1>2, <2>1 DEF Importing, Importer
  <2> HIDE DEF w
  <2> QED BY <2>2, <2>3
<1>7. InFile(r)
  BY <1>3, <1>6 DEF InFile
<1>8. ASSUME Unmixed(g) PROVE Progress(r)'
  <2>1. Progress(impRun[g])
    BY <1>8 DEF ImpInv
  <2>2. /\ impRun[g].keys = ImpKeys /\ ImpKeys = Base(impRun[g]) \cup GoodUpTo(impRun[g], impRun[g].row - 1)
        /\ (impRun[g].mode = "replace" => NoTwins)
    BY <1>1, <2>1 DEF Progress
  <2>3. ImpKeys' = Base(impRun[g]) \cup GoodUpTo(impRun[g], impRun[g].row)
    <3>1. GoodUpTo(impRun[g], impRun[g].row)
            = GoodUpTo(impRun[g], impRun[g].row - 1) \cup ({Imp!Row(g)} \ ({None} \cup Refused))
      BY <1>1, OneRowFurther
    <3>2. {Imp!Row(g)} \ ({None} \cup Refused) = {Imp!Row(g)}
      BY <1>1
    <3> QED BY <1>5, <2>2, <3>1, <3>2
  <2>4. r.row - 1 = impRun[g].row
    BY <1>3, <1>6
  <2>5. Base(r) = Base(impRun[g]) /\ GoodUpTo(r, r.row - 1) = GoodUpTo(impRun[g], impRun[g].row)
    BY <1>6, <2>4 DEF Base, GoodUpTo
  <2>6. ImpKeys' = Base(r) \cup GoodUpTo(r, r.row - 1)
    BY <2>3, <2>5
  <2>7. r.keys = ImpKeys' /\ (r.mode = "replace" => NoTwins')
    BY <1>4, <1>5, <1>6, <2>2
  <2> QED BY <1>6, <2>6, <2>7 DEF Progress, Base, GoodUpTo
<1> QED BY <1>1, <1>5, <1>6, <1>7, <1>8, ImpOnward

\* The rows are done, or one of them is refused, or a statement fails.
LEMMA ImportStops ==
  ASSUME ImpInv, NEW g \in Updates, Imp!CreateFails(g) \/ Imp!AllRows(g) \/ Imp!Fail(g)
  PROVE  ImpInv'
<1>1. CASE Imp!CreateFails(g) \/ Imp!Fail(g)
  <2>1. PICK pc \in {"refused", "failed"} : Imp!Finish(g, pc)
    BY <1>1 DEF Imp!CreateFails, Imp!Fail
  <2>2. impRun[g].pc \in {"list", "replace", "keys", "rows"} /\ UNCHANGED <<impStore, impEvents>>
    BY <1>1 DEF Imp!CreateFails, Imp!Fail, Imp!At
  <2>3. pc \in {"done", "refused", "failed"} /\ pc # "done"
    OBVIOUS
  <2> QED BY <2>1, <2>2, <2>3, ImportReturns
<1>2. CASE Imp!AllRows(g)
  <2>1. /\ impRun[g].pc = "rows" /\ ~Imp!More(g) /\ Imp!Finish(g, "done")
        /\ UNCHANGED <<impStore, impEvents>>
    BY <1>2 DEF Imp!AllRows, Imp!At
  <2>2. impRun[g] \in Importer /\ InFile(impRun[g])
    BY <2>1, ImpParts
  <2>3. impRun[g].row \in Nat \ {0} /\ Len(Files[impRun[g].file]) \in Nat
    BY <2>2, ImpConstants DEF Importer
  <2>4. impRun[g].row - 1 = Len(Files[impRun[g].file])
    BY <2>1, <2>2, <2>3 DEF Imp!More, InFile
  <2> QED BY <2>1, <2>4, ImportReturns
<1> QED BY <1>1, <1>2

\* Another handler deletes an event, or takes it back: whatever is busy has been overlapped.
LEMMA OthersHandle ==
  ASSUME ImpInv, NEW i \in DOMAIN impEvents, Imp!OtherHandler(i)
  PROVE  ImpInv'
<1>1. /\ impEvents' = [impEvents EXCEPT ![i].live = ~impEvents[i].live] /\ UNCHANGED impStore
      /\ impRun' = [h \in Updates |-> IF impRun[h] = Imp!Rest THEN Imp!Rest ELSE [impRun[h] EXCEPT !.clean = FALSE]]
  BY DEF Imp!OtherHandler
<1>2. ImpKept
  BY DEF ImpInv, ImpTyped
<1>3. PICK b \in BOOLEAN : b = ~impEvents[i].live
  OBVIOUS
<1>4. impEvents' = [impEvents EXCEPT ![i] = [impEvents[i] EXCEPT !.live = b]]
  BY <1>1, <1>3
<1>5. ImpKept'
  BY <1>1, <1>2, <1>4, RowIsTurned DEF ImpKept
<1>6. ASSUME NEW h \in Updates
      PROVE  impRun'[h] \in Importing /\ InFile(impRun'[h]) /\ ~Unmixed(h)'
  <2>1. CASE impRun[h] = Imp!Rest
    <3>1. impRun'[h] = Imp!Rest
      BY <1>1, <2>1
    <3>2. Imp!Rest \in Importing /\ InFile(Imp!Rest)
      BY DEF Importing, InFile, Imp!Rest
    <3> QED BY <3>1, <3>2 DEF Unmixed
  <2>2. CASE impRun[h] # Imp!Rest
    <3>1. impRun'[h] = [impRun[h] EXCEPT !.clean = FALSE]
      BY <1>1, <2>2
    <3> QED BY <2>2, <3>1, Overlapped DEF Unmixed
  <2> QED BY <2>1, <2>2
<1>7. impRun' \in [Updates -> Importing]
  <2>1. \A h \in Updates : impRun'[h] \in Importing
    BY <1>6
  <2> QED BY <1>1, <2>1
<1>8. ImpTyped'
  <2>1. \A h \in Updates : InFile(impRun'[h])
    BY <1>6
  <2> QED BY <1>5, <1>7, <2>1 DEF ImpTyped, InFile
<1> QED BY <1>6, <1>8 DEF ImpInv, ImpAlone

\* The process starts again.
LEMMA ImpRestarts ==
  ASSUME ImpInv, Imp!Restart
  PROVE  ImpInv'
<1>1. impStore' \in ImpRecord /\ impEvents' = impEvents /\ impRun' = [g \in Updates |-> Imp!Rest]
  BY ImpRecords DEF Imp!Restart
<1>2. ImpKept'
  BY <1>1 DEF ImpInv, ImpTyped, ImpKept
<1>3. impRun' \in [Updates -> Importing] /\ \A g \in Updates : impRun'[g] = Imp!Rest /\ impRun'[g].pc = "idle"
  BY <1>1 DEF Importing, Imp!Rest
<1> QED BY <1>2, <1>3 DEF ImpInv, ImpTyped, ImpAlone, Unmixed, InFile

\* Whoever acts, an import that nothing overlaps gets on.
LEMMA ImpNext == ASSUME ImpInv, [Next]_vars PROVE ImpInv'
<1>1. [Imp!Next]_impVars
  BY EachSteps
<1>2. CASE UNCHANGED impVars
  <2>1. impStore' \in ImpRecord /\ UNCHANGED <<impEvents, impRun>>
    BY <1>2 DEF impVars, ImpInv, ImpTyped, ImpKept
  <2> QED BY <2>1, RecordOnly
<1>3. CASE Imp!Cancel
  BY <1>3, ImpRecords, RecordOnly DEF Imp!Cancel
<1>4. ASSUME NEW g \in Updates, Imp!Step(g) PROVE ImpInv'
  BY <1>4, FileComes, ImportBegins, ImportEnds, EventsAreReplaced, KeysAreCollected, RowIsPassedOver,
     RowIsCreated, ImportStops DEF Imp!Step
<1> QED BY <1>1, <1>2, <1>3, <1>4, OthersHandle, ImpRestarts DEF Imp!Next

\* Without twins there are as many events as people.
LEMMA TwinsCounted ==
  ASSUME ImpKept, NoTwins
  PROVE  Cardinality(ImpLive) = Cardinality(ImpKeys)
<1> DEFINE of == [i \in ImpLive |-> impEvents[i].key]
<1>1. IsFiniteSet(ImpLive)
  <2>1. Len(impEvents) \in Nat /\ ImpLive \subseteq 1 .. Len(impEvents)
    BY ImpRows
  <2>2. IsFiniteSet(1 .. Len(impEvents))
    BY <2>1, FS_Interval
  <2> QED BY <2>1, <2>2, FS_Subset
<1>2. of \in [ImpLive -> ImpKeys] /\ \A i, j \in ImpLive : of[i] = of[j] => i = j
  BY DEF ImpKeys, NoTwins
<1>3. \A k \in ImpKeys : \E i \in ImpLive : of[i] = k
  BY DEF ImpKeys
<1> HIDE DEF of
<1>4. of \in Bijection(ImpLive, ImpKeys)
  BY <1>2, <1>3 DEF Bijection, Injection, IsInjective, Surjection
<1> QED BY <1>1, <1>4, FS_Bijection DEF ExistsBijection

\* An import that came to the end of its file, and that no other update and no deletion
\* overlapped, leaves exactly its good rows and whom it was to keep; and none of them twice
\* where it was to replace what there was.
THEOREM ImportsAreExact == Spec => []ImportIsExact
<1>1. ImpInv => ImportIsExact
  <2> SUFFICES ASSUME ImpInv, NEW g \in Updates, impRun[g] # Imp!Rest, impRun[g].pc = "done", impRun[g].clean
               PROVE  Imp!FileArrived(g)
    BY DEF ImportIsExact, Imp!ImportIsExact, Imp!Busy, Imp!At
  <2>1. ImpKept /\ Progress(impRun[g]) /\ impRun[g] \in Importer
    BY ImpParts DEF ImpInv, ImpTyped, Unmixed
  <2>2. Imp!LiveKeys = ImpKeys /\ Imp!LiveIds = ImpLive
    BY DEF Imp!LiveKeys, Imp!LiveIds, ImpKeys, ImpLive
  <2>3. Imp!Good(g) = GoodUpTo(impRun[g], Len(Files[impRun[g].file]))
    <3>1. DOMAIN Files[impRun[g].file] = 1 .. Len(Files[impRun[g].file])
      BY <2>1, ImpConstants, LenProperties DEF Importer
    <3> QED BY <3>1 DEF Imp!Good, GoodUpTo
  <2>4. ImpKeys = Base(impRun[g]) \cup GoodUpTo(impRun[g], Len(Files[impRun[g].file]))
    BY <2>1 DEF Progress
  <2>5. Imp!Good(g) \subseteq ImpKeys
        /\ ImpKeys = Imp!Good(g) \cup (IF impRun[g].mode = "add" THEN impRun[g].had ELSE {})
    BY <2>3, <2>4 DEF Base
  <2>6. impRun[g].mode = "replace" => Imp!Cardinality(ImpLive) = Imp!Cardinality(ImpKeys)
    <3>1. impRun[g].mode = "replace" => Cardinality(ImpLive) = Cardinality(ImpKeys)
      BY <2>1, TwinsCounted DEF Progress
    <3>2. Imp!Cardinality(ImpLive) = Cardinality(ImpLive) /\ Imp!Cardinality(ImpKeys) = Cardinality(ImpKeys)
      BY DEF Imp!Cardinality, Cardinality
    <3> QED BY <3>1, <3>2
  <2> QED BY <2>2, <2>5, <2>6 DEF Imp!FileArrived
<1> QED BY <1>1, ImpInit, ImpNext, PTL DEF Spec

-----------------------------------------------------------------------------
(* Types *)

\* The clock of the reporter stops at its bound.
ErrBound == clock <= LastMoment

\* A rule is of an event that has a row, or of all of them, and its id is one of those there are.
RulesScope ==
  /\ DOMAIN rules \subseteq RuleIds /\ live \subseteq known /\ known \subseteq FewEvents
  /\ \A i \in DOMAIN rules : rules[i].of \in known \cup {Global}

\* The reporter's clock is read off by all its steps, and moved by one.
LEMMA ErrBoundKept ==
  ASSUME ErrInv, ErrBound, [Next]_vars
  PROVE  ErrBound'
<1>1. [Err!Next]_errVars
  BY EachSteps
<1>2. LastMoment \in Nat /\ clock \in Nat
  BY ConversationsAssumption DEF Err!ErrorReporterAssumption, ErrInv
<1>3. CASE Err!Tick
  BY <1>2, <1>3 DEF Err!Tick, ErrBound
<1>4. CASE clock' = clock
  BY <1>4 DEF ErrBound
<1>5. ASSUME NEW g \in Updates, NEW s \in Signatures, Err!Report(g, s) PROVE clock' = clock
  BY <1>5 DEF Err!Report
<1>6. ASSUME NEW g \in Updates, Err!ReadClock(g) \/ Err!NotifyAdmins(g) PROVE clock' = clock
  BY <1>6 DEF Err!ReadClock, Err!NotifyAdmins
<1>7. UNCHANGED errVars \/ Err!Restart => clock' = clock
  BY DEF errVars, Err!Restart
<1> QED BY <1>1, <1>3, <1>4, <1>5, <1>6, <1>7 DEF Err!Next

\* An entry ends an hour after the clock of its report, so no later than the bound allows.
LEMMA ErrTyped ==
  ASSUME ErrInv, ErrBound
  PROVE  Err!TypeOK
<1>1. LastMoment \in Nat /\ Window \in Nat /\ clock \in Nat /\ None \notin Nat
  BY ConversationsAssumption DEF Err!ErrorReporterAssumption, ErrInv
<1>2. ASSUME NEW s \in Signatures
      PROVE  /\ told[s] \in 0 .. LastMoment \cup {None}
             /\ nextReport[s] \in 0 .. LastMoment + Window \cup {None}
  <2>1. told[s] \in Nat \cup {None} /\ nextReport[s] \in Nat \cup {None}
    BY DEF ErrInv
  <2>2. told[s] # None => told[s] <= clock
    BY DEF ErrInv
  <2>3. nextReport[s] # None => told[s] # None /\ nextReport[s] = told[s] + Window
    BY DEF ErrInv
  <2> QED BY <1>1, <2>1, <2>2, <2>3 DEF ErrBound
<1>3. \A g \in Updates : Err!At(g, "lock") => errRun[g].at <= clock
  BY DEF ErrInv, Err!At
<1>4. nextReport \in [Signatures -> 0 .. LastMoment + Window \cup {None}]
      /\ told \in [Signatures -> 0 .. LastMoment \cup {None}]
  BY <1>2 DEF ErrInv
<1> QED BY <1>3, <1>4 DEF Err!TypeOK

\* What the steps of a goroutine of the rules do to the table.
LEMMA RulesScopeKept ==
  ASSUME RulesInv, RulesScope, [Next]_vars
  PROVE  RulesScope'
<1>1. [Rul!Next]_rulVars
  BY EachSteps
<1>2. ASSUME UNCHANGED <<live, known>>, DOMAIN rules' \subseteq DOMAIN rules,
             \A i \in DOMAIN rules' : rules'[i].of = rules[i].of
      PROVE  RulesScope'
  BY <1>2 DEF RulesScope
<1>3. CASE UNCHANGED rulVars
  BY <1>2, <1>3 DEF rulVars
<1>4. ASSUME NEW e \in FewEvents, Rul!Trash(e) PROVE RulesScope'
  BY <1>4 DEF Rul!Trash, RulesScope
<1>5. ASSUME NEW e \in FewEvents, Rul!Purge(e) PROVE RulesScope'
  <2>1. /\ live' = live /\ known' = known \ {e} /\ e \notin live
        /\ DOMAIN rules' = DOMAIN rules \ Rul!Of(e) /\ \A i \in DOMAIN rules' : rules'[i] = rules[i]
    BY <1>5 DEF Rul!Purge
  <2>2. \A i \in DOMAIN rules' : rules'[i].of \in known \cup {Global} /\ rules'[i].of # e
    BY <2>1 DEF RulesScope, Rul!Of
  <2> QED BY <2>1, <2>2 DEF RulesScope
<1>6. ASSUME NEW g \in Updates, Rul!Create(g) PROVE RulesScope'
  <2>1. CASE UNCHANGED <<rules, lastId>>
    BY <1>2, <1>6, <2>1 DEF Rul!Create
  <2>2. CASE ~UNCHANGED <<rules, lastId>>
    <3>1. /\ lastId + 1 \in RuleIds /\ UNCHANGED <<live, known>> /\ rulesRun[g].of \in known \cup {Global}
          /\ rules' = [i \in DOMAIN rules \cup {lastId + 1} |->
                         IF i = lastId + 1 THEN [of |-> rulesRun[g].of, enabled |-> TRUE] ELSE rules[i]]
      BY <1>6, <2>2 DEF Rul!Create
    <3>2. DOMAIN rules' \subseteq RuleIds /\ \A i \in DOMAIN rules' : rules'[i].of \in known \cup {Global}
      BY <3>1 DEF RulesScope
    <3> QED BY <3>1, <3>2 DEF RulesScope
  <2> QED BY <2>1, <2>2
<1>7. ASSUME NEW g \in Updates, Rul!Toggle(g) \/ Rul!SetTime(g) PROVE RulesScope'
  <2>1. /\ UNCHANGED <<live, known>> /\ DOMAIN rules' = DOMAIN rules
        /\ \A i \in DOMAIN rules : i # rulesRun[g].id => rules'[i] = rules[i]
    BY <1>7 DEF Rul!Toggle, Rul!SetTime, Rul!Write
  <2>2. ASSUME NEW i \in DOMAIN rules, i = rulesRun[g].id PROVE rules'[i].of = rules[i].of
    <3>1. rules[i] \in RuleRow
      BY DEF RulesInv
    <3>2. CASE Rul!Toggle(g)
      <4>1. rules'[i] = [rules[i] EXCEPT !.enabled = ~@]
        BY <2>2, <3>2 DEF Rul!Toggle, Rul!Write
      <4> QED BY <3>1, <4>1 DEF RuleRow
    <3>3. CASE Rul!SetTime(g)
      <4>1. rulesRun[g].pc = "time" /\ rules'[i] = rulesRun[g].row
        BY <2>2, <3>3 DEF Rul!SetTime, Rul!Write, Rul!At
      <4> QED BY <2>2, <4>1 DEF RulesInv
    <3> QED BY <1>7, <3>2, <3>3
  <2> QED BY <1>2, <2>1, <2>2
<1>8. ASSUME NEW g \in Updates, Rul!Delete(g) PROVE RulesScope'
  <2>1. /\ UNCHANGED <<live, known>> /\ DOMAIN rules' = DOMAIN rules \ {rulesRun[g].id}
        /\ \A i \in DOMAIN rules' : rules'[i] = rules[i]
    BY <1>8 DEF Rul!Delete
  <2> QED BY <1>2, <2>1
<1>9. CASE UNCHANGED <<rules, live, known>>
  BY <1>2, <1>9
<1>10. ASSUME NEW g \in Updates, Rul!Step(g) PROVE RulesScope'
  <2>1. \/ UNCHANGED <<rules, live, known>>
        \/ Rul!Create(g) \/ Rul!Toggle(g) \/ Rul!SetTime(g) \/ Rul!Delete(g)
    BY <1>10 DEF Rul!Step, Rul!Count, Rul!GetOwned, Rul!Owned, Rul!Stop
  <2> QED BY <1>6, <1>7, <1>8, <1>9, <2>1
<1> QED BY <1>1, <1>3, <1>4, <1>5, <1>10 DEF Rul!Next

\* The invariants of the conversations are about the types of their variables, too.
LEMMA DialoguesTyped ==
  /\ AccInv => Acc!TypeOK
  /\ EditInv => Edit!TypeOK
  /\ ImpInv => Imp!TypeOK
  /\ BcInv => Bc!TypeOK
  /\ TemplatesInv => Tpl!TypeOK
  /\ RulesInv /\ RulesScope => Rul!TypeOK
<1>1. ASSUME AccInv PROVE Acc!TypeOK
  <2>1. \A g \in Acc!Busy : accRun[g] \in Serving
    BY <1>1 DEF AccInv, AccTyped, Acc!Busy
  <2>2. accStore.state \in Acc!States \cup {NoState} /\ accRow \in Acc!Rows \cup {None} /\ accRaced \in BOOLEAN
    BY <1>1 DEF AccInv, AccTyped, AccRecord, AccRows
  <2> QED BY <2>1, <2>2 DEF Acc!TypeOK, Serving, AccRows
<1>2. ASSUME EditInv PROVE Edit!TypeOK
  <2>1. \A g \in Edit!Busy : editRun[g] \in Editor /\ Equipped(editRun[g])
    BY <1>2 DEF EditInv, EditTyped, Edit!Busy, Editing
  <2>2. \A g \in Edit!Busy :
          /\ editRun[g].request \in Edit!Requests
          /\ Edit!At(g, "update") => editRun[g].event \in Events /\ editRun[g].field \in Edit!Fields
    BY <2>1 DEF Editor, Equipped, Edit!At
  <2>3. EditKept
    BY <1>2 DEF EditInv, EditTyped
  <2> QED BY <2>2, <2>3 DEF EditKept, EditRecord, Edit!TypeOK, Edit!EventId, Edit!EditingField, Edit!GetData
<1>3. ASSUME ImpInv PROVE Imp!TypeOK
  <2>1. ImpKept /\ \A g \in Updates : InFile(impRun[g])
    BY <1>3 DEF ImpInv, ImpTyped
  <2>2. \A i \in DOMAIN impEvents : impEvents[i].key \in Keys \ Refused
    BY <2>1, ImpRows DEF ImpRow
  <2>3. \A g \in Imp!Busy : impRun[g].pc = "rows" => impRun[g].row <= Len(Files[impRun[g].file]) + 1
    BY <2>1 DEF InFile, Imp!Busy
  <2>4. impStore.state \in Imp!States \cup {NoState} /\ Imp!GetData("import_payload") \in DOMAIN Files \cup {0}
    BY <2>1 DEF ImpKept, ImpRecord, Imp!GetData
  <2> QED BY <2>1, <2>2, <2>3, <2>4 DEF ImpKept, Imp!TypeOK
<1>4. ASSUME BcInv PROVE Bc!TypeOK
  BY <1>4 DEF BcInv, BcTyped, BcKept, BcRecord, Bc!TypeOK, Bc!GetData, Bc!Busy
<1>5. ASSUME TemplatesInv PROVE Tpl!TypeOK
  <2>1. \A g \in Tpl!Busy : tplRun[g] \in Making
    BY <1>5 DEF TemplatesInv, Tpl!Busy
  <2> QED BY <1>5, <2>1 DEF TemplatesInv, TplRecord, TplRow, Making, Tpl!TypeOK, Tpl!GetData
<1>6. ASSUME RulesInv, RulesScope PROVE Rul!TypeOK
  <2>1. \A i \in DOMAIN rules : i <= lastId
    BY <1>6 DEF RulesInv
  <2> QED BY <1>6, <2>1 DEF RulesScope, Rul!TypeOK
<1> QED BY <1>1, <1>2, <1>3, <1>4, <1>5, <1>6

\* In every scene, what its module keeps is of its type: the record of the store holds what
\* its buttons and texts put there, whoever is busy works on what it has read, and ids,
\* counts and clocks are within their bounds.
THEOREM ConversationsTyped == Spec => []TypeOK
<1>1. Init => ErrBound /\ RulesScope
  <2>1. Init => clock = 0 /\ rules = [i \in {} |-> {}] /\ live = FewEvents /\ known = FewEvents
    BY DEF Init, Err!Init, Rul!Init
  <2>2. LastMoment \in Nat
    BY ConversationsAssumption DEF Err!ErrorReporterAssumption
  <2> QED BY <2>1, <2>2 DEF ErrBound, RulesScope
<1>2. EvP!Spec => []EvP!TypeOK
  <2>1. EvP!Spec => []EvP!RowsInv
    BY RowsAssumption, EvP!RowsStayCoherent
  <2>2. EvP!RowsInv => EvP!TypeOK
    BY DEF EvP!RowsInv
  <2> QED BY <2>1, <2>2, PTL
<1>3. EvP!TypeOK => Ev!TypeOK
  BY DEF EvP!TypeOK, EvP!Row, EvP!Calendars, Ev!TypeOK, Ev!Row, Ev!Calendars
<1> DEFINE Typed == /\ scene \in Scenes /\ AccInv /\ EditInv /\ ImpInv /\ BcInv /\ TemplatesInv
                    /\ ErrInv /\ ErrBound /\ RulesInv /\ RulesScope
<1>4. Init => Typed
  <2>1. Init => scene \in Scenes
    BY DEF Init
  <2> QED BY <2>1, <1>1, AccInit, EditInit, ImpInit, BcInit, TemplatesInit, ErrInit, RulesInit
<1>5. Typed /\ [Next]_vars => Typed'
  <2>1. [Next]_vars => scene' = scene
    BY DEF Next, vars, AccountStep, EditStep, RowsStep, ImportStep, BroadcastStep, TemplatesStep,
           RulesStep, ErrorsStep, OthersStandStill
  <2> QED BY <2>1, AccNext, EditNext, ImpNext, BcNext, TemplatesNext, ErrNext, ErrBoundKept, RulesNext, RulesScopeKept
<1>6. Typed /\ Ev!TypeOK => TypeOK
  <2> SUFFICES ASSUME Typed, Ev!TypeOK PROVE TypeOK
    OBVIOUS
  <2>1. /\ Acc!TypeOK /\ Edit!TypeOK /\ Ev!TypeOK /\ Imp!TypeOK /\ Bc!TypeOK /\ Tpl!TypeOK
        /\ Rul!TypeOK /\ Err!TypeOK
    BY DialoguesTyped, ErrTyped
  <2>2. CASE scene = "account"
    BY <2>1, <2>2 DEF TypeOK
  <2>3. CASE scene = "edit"
    BY <2>1, <2>3 DEF TypeOK
  <2>4. CASE scene = "rows"
    BY <2>1, <2>4 DEF TypeOK
  <2>5. CASE scene = "import"
    BY <2>1, <2>5 DEF TypeOK
  <2>6. CASE scene = "broadcast"
    BY <2>1, <2>6 DEF TypeOK
  <2>7. CASE scene = "templates"
    BY <2>1, <2>7 DEF TypeOK
  <2>8. CASE scene = "rules"
    BY <2>1, <2>8 DEF TypeOK
  <2>9. CASE scene = "errors"
    BY <2>1, <2>9 DEF TypeOK
  <2> QED BY <2>2, <2>3, <2>4, <2>5, <2>6, <2>7, <2>8, <2>9 DEF Scenes
<1> HIDE DEF Typed
<1>7. Spec => []Typed
  BY <1>4, <1>5, PTL DEF Spec
<1>8. Spec => []Ev!TypeOK
  BY <1>2, <1>3, RowsBehaviour, PTL
<1> QED BY <1>6, <1>7, <1>8, PTL
=============================================================================
