---------------------------- MODULE AgentFlowProofs ----------------------------
(***************************************************************************)
(* AgentTurn implements GatedFlow: each step of a turn, of the customer    *)
(* and of the world is a step of the gated walk or leaves it where it is,  *)
(* however many tools the model calls in a round.                          *)
(***************************************************************************)
EXTENDS AgentTurnProofs

\* What GatedFlow sees of a conversation.
state == IF turn.phase \in Running THEN DeriveState(turn.current) ELSE "NONE"
memory == {DeriveState(browser), DeriveState(conversation)}
gate == IF turn.phase \in {"calling", "charging"} THEN turn.gate ELSE "NONE"

\* While the model is asked, the state has left the round's gate only where a
\* webhook has settled the payment since.
GateIsState ==
    turn.phase = "asking" =>
        \/ turn.gate = DeriveState(turn.current)
        \/ /\ turn.gate = "EXECUTING_PAYMENT"
           /\ DeriveState(turn.current) \in {"PAYMENT_FAILED", "TERMINAL"}

-----------------------------------------------------------------------------
(* How the states of ids move with the tables. *)

\* Ids whose rows keep their status keep their state.
LEMMA StateStays ==
    ASSUME NEW ids,
           ids.payment # 0 => payments'[ids.payment].status = payments[ids.payment].status,
           ids.cart # 0 => carts'[ids.cart].status = carts[ids.cart].status,
           ids.intent # 0 => intents'[ids.intent].status = intents[ids.intent].status
    PROVE  DeriveState(ids)' = DeriveState(ids)
<1>1. CASE ids.payment # 0
  BY <1>1 DEF DeriveState, PaymentState
<1>2. CASE ids.payment = 0 /\ ids.cart # 0
  BY <1>2 DEF DeriveState, CartState
<1>3. CASE ids.payment = 0 /\ ids.cart = 0 /\ ids.intent # 0
  BY <1>3 DEF DeriveState, IntentState
<1>4. CASE ids.payment = 0 /\ ids.cart = 0 /\ ids.intent = 0
  BY <1>4 DEF DeriveState
<1> QED
  BY <1>1, <1>2, <1>3, <1>4

\* The ids that are kept, and the rows they name.
LEMMA KnownRows ==
    ASSUME AInv, NEW ids \in {browser, conversation, turn.current}
    PROVE  /\ ids \in Ids
           /\ ids.payment # 0 =>
                 /\ ids.payment \in PaymentIds /\ Committed(ids.payment)
                 /\ ids.payment \notin turn.flushed
                 /\ payments[ids.payment].cart = ids.cart /\ ids.cart \in CartIds
           /\ ids.cart # 0 =>
                 /\ ids.cart \in CartIds /\ carts[ids.cart].status # "none"
                 /\ carts[ids.cart].intent = ids.intent /\ ids.intent \in IntentIds
                 /\ intents[ids.intent].status = "confirmed"
           /\ ids.intent # 0 =>
                 ids.intent \in IntentIds /\ intents[ids.intent].status # "none"
<1>1. ids \in Ids /\ NamesOne(ids) /\ RowsFit /\ FlushedFit
  BY TurnTypes DEF AInv, ATypeOK, KnownIds, IdsNameOnePurchase, NamesOne
<1>2. /\ ids.intent # 0 => ids.intent \in IntentIds
      /\ ids.cart # 0 => ids.cart \in CartIds
      /\ ids.payment # 0 => ids.payment \in PaymentIds
  BY <1>1 DEF Ids
<1>3. ASSUME ids.payment # 0
      PROVE  /\ Committed(ids.payment) /\ ids.payment \notin turn.flushed
             /\ payments[ids.payment].cart = ids.cart /\ ids.cart \in CartIds
  <2>1. Committed(ids.payment) /\ payments[ids.payment].cart = ids.cart
    BY <1>1, <1>3 DEF NamesOne
  <2>2. payments[ids.payment].status \notin {"none", "uncommitted"}
    BY <2>1 DEF Committed, ResolvedStatus
  <2> QED
    BY <1>1, <1>2, <1>3, <2>1, <2>2 DEF RowsFit, FlushedFit
<1>4. ASSUME ids.cart # 0
      PROVE  /\ carts[ids.cart].status # "none"
             /\ carts[ids.cart].intent = ids.intent /\ ids.intent \in IntentIds
             /\ intents[ids.intent].status = "confirmed"
  <2>1. carts[ids.cart].status # "none" /\ carts[ids.cart].intent = ids.intent
    BY <1>1, <1>4 DEF NamesOne
  <2> QED
    BY <1>1, <1>2, <1>4, <2>1 DEF RowsFit
<1>5. ids.intent # 0 => intents[ids.intent].status # "none"
  BY <1>1 DEF NamesOne
<1> QED
  BY <1>1, <1>2, <1>3, <1>4, <1>5

\* The states of the ids after a step.
LEMMA StatesAfter ==
    ASSUME NEW ids
    PROVE  /\ browser' = ids => DeriveState(browser)' = DeriveState(ids)'
           /\ conversation' = ids => DeriveState(conversation)' = DeriveState(ids)'
           /\ turn'.current = ids => DeriveState(turn.current)' = DeriveState(ids)'
BY DEF DeriveState, PaymentState, CartState, IntentState

\* What GatedFlow sees after a step.
LEMMA ViewAfter ==
    /\ turn'.phase \in Running => state' = DeriveState(turn.current)'
    /\ turn'.phase \notin Running => state' = "NONE" /\ gate' = "NONE"
    /\ memory' = {DeriveState(browser)', DeriveState(conversation)'}
    /\ turn'.phase \in {"calling", "charging"} => gate' = turn'.gate
    /\ turn'.phase \notin {"calling", "charging"} => gate' = "NONE"
BY DEF state, memory, gate, Running

-----------------------------------------------------------------------------
(* The steps of GatedFlow, said of its view. *)

\* Nothing is seen to happen.
LEMMA SeesNothing ==
    ASSUME state' = state, memory' = memory, gate' = gate
    PROVE  [Gated!GNext]_Gated!gvars
BY DEF Gated!gvars, state, memory, gate

\* A tool of the gate takes the turn where an edge of the gate leads, and what is
\* remembered with it.
LEMMA SeesTool ==
    ASSUME NEW move \in Gated!ToolMoves \cup Gated!Repeats,
           state # "NONE", gate = move[1], gate' = gate, state' = move[2],
           \A s \in memory' : s \in memory \/ (s = move[2] /\ move[1] \in memory)
    PROVE  Gated!GNext
<1>1. memory' \subseteq memory \cup Gated!Along(move)
  BY DEF Gated!Along, memory
<1>2. Gated!CallGatedTool
  BY <1>1 DEF Gated!CallGatedTool, state, memory, gate
<1> QED
  BY <1>2 DEF Gated!GNext

\* The webhook settles the payment of the turn or of what is remembered.
LEMMA SeesWebhook ==
    ASSUME NEW move \in Gated!Settlements, gate' = gate,
           state' = state \/ (state = move[1] /\ state' = move[2]),
           \A s \in memory' : s \in memory \/ (s = move[2] /\ move[1] \in memory)
    PROVE  Gated!GNext
<1>1. memory' \subseteq memory \cup Gated!Along(move)
  BY DEF Gated!Along, memory
<1>2. Gated!Settle
  BY <1>1 DEF Gated!Settle, state, memory
<1> QED
  BY <1>2 DEF Gated!GNext, gate

\* A round offers the tools of the state, or of the one the webhook has just ended.
LEMMA SeesOpen ==
    ASSUME state # "NONE", gate = "NONE", state' = state, memory' = memory,
           gate' = state \/ <<gate', state>> \in Gated!Settlements
    PROVE  Gated!GNext
BY DEF Gated!GNext, Gated!OpenRound, state, memory, gate

\* A round is over.
LEMMA SeesClose ==
    ASSUME gate # "NONE", gate' = "NONE", state' = state, memory' = memory
    PROVE  Gated!GNext
BY DEF Gated!GNext, Gated!CloseRound, state, memory, gate

\* A turn begins in a state that is remembered.
LEMMA SeesStart ==
    ASSUME state = "NONE", state' \in memory, memory' = memory, gate' = gate
    PROVE  Gated!GNext
BY DEF Gated!GNext, Gated!StartTurn, state, memory, gate

\* A turn ends, remembered or not.
LEMMA SeesEnd ==
    ASSUME state # "NONE", state' = "NONE", memory' \subseteq memory \cup {state},
           gate' = "NONE"
    PROVE  Gated!GNext
BY DEF Gated!GNext, Gated!EndTurn, state, memory, gate

\* Between turns, one of the remembered states is forgotten.
LEMMA SeesRecall ==
    ASSUME state = "NONE", state' = state, memory' \subseteq memory, gate' = gate
    PROVE  Gated!GNext
BY DEF Gated!GNext, Gated!Recall, state, memory, gate

\* Between turns, the customer starts over.
LEMMA SeesStartOver ==
    ASSUME state = "NONE", state' = state, memory' = {"DRAFTING_INTENT"}, gate' = gate
    PROVE  Gated!GNext
BY DEF Gated!GNext, Gated!StartOver, state, memory, gate

-----------------------------------------------------------------------------
(* The steps of AgentTurn. *)

\* Rows that are new, uncommitted or only cleared of their session move no ids.
LEMMA QuietTables ==
    ASSUME AInv,
           \A i \in IntentIds : intents[i].status # "none" =>
              intents'[i].status = intents[i].status,
           \A c \in CartIds : carts[c].status # "none" => carts'[c].status = carts[c].status,
           \A p \in PaymentIds : Committed(p) => payments'[p].status = payments[p].status
    PROVE  \A ids \in {browser, conversation, turn.current} :
              DeriveState(ids)' = DeriveState(ids)
<1> SUFFICES ASSUME NEW ids \in {browser, conversation, turn.current}
             PROVE  DeriveState(ids)' = DeriveState(ids)
  OBVIOUS
<1>1. /\ ids.payment # 0 => ids.payment \in PaymentIds /\ Committed(ids.payment)
      /\ ids.cart # 0 => ids.cart \in CartIds /\ carts[ids.cart].status # "none"
      /\ ids.intent # 0 => ids.intent \in IntentIds /\ intents[ids.intent].status # "none"
  BY KnownRows
<1> QED
  BY <1>1, StateStays

\* A step that moves no ids, keeps the gate and neither begins nor ends a turn is not
\* seen; with another gate only the gate is.
LEMMA QuietStep ==
    ASSUME \A ids \in {browser, conversation, turn.current} :
              DeriveState(ids)' = DeriveState(ids),
           browser' = browser, conversation' = conversation,
           \/ turn'.phase \in Running /\ turn.phase \in Running /\ turn'.current = turn.current
           \/ turn'.phase \notin Running /\ turn.phase \notin Running
    PROVE  /\ memory' = memory /\ state' = state
           /\ gate' = gate => [Gated!GNext]_Gated!gvars
<1>1. DeriveState(browser)' = DeriveState(browser)
  BY StatesAfter
<1>2. DeriveState(conversation)' = DeriveState(conversation)
  BY StatesAfter
<1>3. turn'.current = turn.current => DeriveState(turn.current)' = DeriveState(turn.current)
  BY StatesAfter
<1>4. memory' = memory
  BY <1>1, <1>2, ViewAfter DEF memory
<1>5. state' = state
  BY <1>3, ViewAfter DEF state
<1> QED
  BY <1>4, <1>5, SeesNothing

\* The steps of the turn that move no ids: a round opens, closes, or makes a call
\* that comes to nothing.
LEMMA QuietTurnSteps ==
    ASSUME AInv, GateIsState,
           \/ ModelCallsTools \/ EndRound \/ CallWithoutEffect \/ ChargeErrorSwallowed
           \/ LoseAnswer
           \/ \E p \in PaymentIds : StartPayment(p)
    PROVE  [Gated!GNext]_Gated!gvars
<1>0. turn \in Turn /\ turn.gate \in AgentState
  BY TurnTypes DEF AInv, ATypeOK
<1>1. /\ browser' = browser /\ conversation' = conversation
      /\ \/ turn'.phase \in Running /\ turn.phase \in Running /\ turn'.current = turn.current
         \/ turn'.phase \notin Running /\ turn.phase \notin Running
  <2>2. CASE ModelCallsTools \/ EndRound \/ ChargeErrorSwallowed
    BY <1>0, <2>2
    DEF ModelCallsTools, EndRound, NextRound, ChargeErrorSwallowed, Turn, Running
  <2>3. CASE CallWithoutEffect
    BY <1>0, <2>3 DEF CallWithoutEffect, Called, Turn, Running
  <2>4. CASE LoseAnswer
    BY <2>4 DEF LoseAnswer, NoTurn, Running
  <2>5. CASE \E p \in PaymentIds : StartPayment(p)
    BY <1>0, <2>5 DEF StartPayment, Offered, Turn, Running
  <2> QED
    BY <2>2, <2>3, <2>4, <2>5
<1>2. /\ intents' = intents /\ carts' = carts
      /\ \A p \in PaymentIds : Committed(p) => payments'[p].status = payments[p].status
  <2>1. CASE \E p \in PaymentIds : StartPayment(p)
    <3>1. PICK p \in PaymentIds : StartPayment(p)
      BY <2>1
    <3>2. /\ payments[p].status = "none" /\ intents' = intents /\ carts' = carts
          /\ \A q \in PaymentIds : q # p => payments'[q] = payments[q]
      BY <3>1 DEF AInv, ATypeOK, MTypeOK, StartPayment, FlushPayment, IsNextId
    <3> QED
      BY <3>2 DEF Committed, ResolvedStatus
  <2>2. CASE ~ \E p \in PaymentIds : StartPayment(p)
    BY <2>2
    DEF ModelCallsTools, EndRound, NextRound, ChargeErrorSwallowed, CallWithoutEffect, LoseAnswer,
        mvars
  <2> QED
    BY <2>1, <2>2
<1>3. \A ids \in {browser, conversation, turn.current} : DeriveState(ids)' = DeriveState(ids)
  BY <1>2, QuietTables
<1>4. /\ memory' = memory /\ state' = state
      /\ gate' = gate => [Gated!GNext]_Gated!gvars
  BY <1>1, <1>3, QuietStep
<1>5. CASE ModelCallsTools
  <2>1. turn.phase = "asking" /\ turn'.phase = "calling" /\ turn'.gate = turn.gate
    BY <1>0, <1>5 DEF ModelCallsTools, Turn
  <2>2. state = DeriveState(turn.current) /\ gate = "NONE" /\ gate' = turn.gate
    BY <2>1, ViewAfter DEF state, gate, Running
  <2>3. state # "NONE"
    BY <2>2, StateTypes DEF AgentState
  <2>4. gate' = state \/ <<gate', state>> \in Gated!Settlements
    BY <2>1, <2>2 DEF GateIsState, Gated!Settlements
  <2> QED
    BY <1>4, <2>2, <2>3, <2>4, SeesOpen
<1>6. CASE EndRound
  <2>1. turn.phase = "calling" /\ turn'.phase \in {"asking", "ending"}
    BY <1>0, <1>6 DEF EndRound, NextRound, Turn
  <2>2. gate # "NONE" /\ gate' = "NONE"
    BY <1>0, <2>1, ViewAfter DEF gate, AgentState
  <2> QED
    BY <1>4, <2>2, SeesClose
<1>7. CASE CallWithoutEffect
  <2>1. turn.phase = "calling" /\ turn'.phase = "calling" /\ turn'.gate = turn.gate
    BY <1>0, <1>7 DEF CallWithoutEffect, Called, Turn
  <2> QED
    BY <1>4, <2>1, ViewAfter DEF gate
<1>8. CASE ChargeErrorSwallowed \/ \E p \in PaymentIds : StartPayment(p)
  <2>1. /\ turn.phase \in {"calling", "charging"} /\ turn'.phase \in {"calling", "charging"}
        /\ turn'.gate = turn.gate
    BY <1>0, <1>8 DEF ChargeErrorSwallowed, StartPayment, Offered, Turn
  <2> QED
    BY <1>4, <2>1, ViewAfter DEF gate
<1>9. CASE LoseAnswer
  <2>1. turn.phase = "answered" /\ turn'.phase = "idle"
    BY <1>9 DEF LoseAnswer, NoTurn
  <2> QED
    BY <1>4, <2>1, ViewAfter DEF gate
<1> QED
  BY <1>5, <1>6, <1>7, <1>8, <1>9

\* A message and the end of a turn begin and end the walk; between turns the browser
\* catches up or starts over.
LEMMA TurnBoundaries ==
    ASSUME AInv,
           \/ SendMessage \/ AppendTurn \/ TurnDies \/ DeliverAnswer
           \/ LoadConversation \/ StartOver
    PROVE  [Gated!GNext]_Gated!gvars
<1>1. \A p \in PaymentIds : Committed(p) => payments'[p].status = payments[p].status
  <2>1. CASE UNCHANGED mvars
    BY <2>1 DEF mvars
  <2>2. CASE AppendTurn \/ TurnDies
    <3>1. PICK status \in {"pending", "absent"} : payments' = SettleFlushed(status)
      BY <2>2 DEF AppendTurn, TurnDies
    <3>2. \A p \in PaymentIds : Committed(p) => payments[p].status # "uncommitted"
      BY DEF Committed, ResolvedStatus
    <3> QED
      BY <3>1, <3>2, SettledRows
  <2> QED
    BY <2>1, <2>2 DEF SendMessage, DeliverAnswer, LoadConversation, StartOver
<1>2. intents' = intents /\ carts' = carts
  BY DEF SendMessage, AppendTurn, TurnDies, DeliverAnswer, LoadConversation, StartOver, mvars
<1>3. \A ids \in {browser, conversation, turn.current} : DeriveState(ids)' = DeriveState(ids)
  BY <1>1, <1>2, QuietTables
<1>4. browser' = browser => DeriveState(browser)' = DeriveState(browser)
  BY <1>3, StatesAfter
<1>5. conversation' = conversation => DeriveState(conversation)' = DeriveState(conversation)
  BY <1>3, StatesAfter
<1>6. CASE SendMessage
  <2>1. /\ turn.phase \notin Running /\ turn'.phase \in Running /\ turn'.current = browser
        /\ browser' = browser /\ conversation' = conversation
    BY <1>6 DEF SendMessage, NoTurn, Running
  <2>2. DeriveState(turn.current)' = DeriveState(browser)
    BY <1>3, <2>1, StatesAfter
  <2>3. state = "NONE" /\ state' \in memory /\ memory' = memory
    BY <1>4, <1>5, <2>1, <2>2, ViewAfter DEF state, memory
  <2>4. gate = "NONE" /\ gate' = "NONE"
    BY <1>6, <2>1, ViewAfter DEF SendMessage, gate, Running
  <2> QED
    BY <2>3, <2>4, SeesStart
<1>7. CASE AppendTurn \/ TurnDies
  <2>1. /\ turn.phase \in Running /\ turn'.phase \notin Running
        /\ browser' = browser
        /\ conversation' = conversation \/ conversation' = turn.current
    <3>1. CASE AppendTurn
      BY <3>1 DEF AppendTurn, NoTurn, Running
    <3>2. CASE TurnDies
      BY <3>2 DEF TurnDies, NoTurn, Running
    <3> QED
      BY <1>7, <3>1, <3>2
  <2>2. conversation' = turn.current =>
          DeriveState(conversation)' = DeriveState(turn.current)
    BY <1>3, StatesAfter
  <2>3. state = DeriveState(turn.current) /\ state' = "NONE"
        /\ memory' \subseteq memory \cup {state}
    BY <1>4, <1>5, <2>1, <2>2, ViewAfter DEF state, memory
  <2>4. state # "NONE"
    BY <2>3, StateTypes DEF AgentState
  <2> QED
    BY <2>1, <2>3, <2>4, ViewAfter, SeesEnd
<1>8. CASE DeliverAnswer
  <2>1. /\ turn.phase = "answered" /\ turn'.phase \notin Running
        /\ conversation' = conversation /\ conversation = turn.current
    BY <1>8 DEF DeliverAnswer, NoTurn, Running, AInv, TurnFits
  <2>2. browser' = turn.current
    <3>1. /\ browser.intent # 0 => turn.current.intent # 0
          /\ browser.cart # 0 => turn.current.cart # 0
          /\ browser.payment # 0 => turn.current.payment # 0
      BY <2>1 DEF AInv, TurnFits
    <3>2. /\ Kept(turn.current.intent, browser.intent) = turn.current.intent
          /\ Kept(turn.current.cart, browser.cart) = turn.current.cart
          /\ Kept(turn.current.payment, browser.payment) = turn.current.payment
      BY <3>1 DEF Kept
    <3>3. browser \in Ids /\ turn.current \in Ids
      BY TurnTypes DEF AInv, ATypeOK
    <3>4. turn.current = [intent |-> turn.current.intent, cart |-> turn.current.cart,
                          payment |-> turn.current.payment]
      BY <3>3 DEF Ids
    <3> QED
      BY <1>8, <3>2, <3>4 DEF DeliverAnswer
  <2>3. DeriveState(browser)' = DeriveState(conversation)
    BY <1>3, <2>1, <2>2, StatesAfter
  <2>4. /\ state = "NONE" /\ state' = state /\ memory' \subseteq memory
        /\ gate' = gate
    BY <1>5, <2>1, <2>3, ViewAfter DEF state, memory, gate, Running
  <2> QED
    BY <2>4, SeesRecall
<1>9. CASE LoadConversation
  <2>1. /\ turn.phase \notin Running /\ turn'.phase \notin Running
        /\ conversation' = conversation /\ browser' = conversation
    BY <1>9 DEF LoadConversation, Running
  <2>2. DeriveState(browser)' = DeriveState(conversation)
    BY <1>3, <2>1, StatesAfter
  <2>3. /\ state = "NONE" /\ state' = state /\ memory' \subseteq memory
        /\ gate' = gate
    BY <1>5, <2>1, <2>2, ViewAfter DEF state, memory, gate, Running
  <2> QED
    BY <2>3, SeesRecall
<1>10. CASE StartOver
  <2>1. /\ turn.phase \notin Running /\ turn'.phase \notin Running
        /\ conversation' = NoIds /\ browser' = NoIds
    BY <1>10 DEF StartOver, Running
  <2>2. DeriveState(browser)' = "DRAFTING_INTENT" /\ DeriveState(conversation)' = "DRAFTING_INTENT"
    BY <2>1 DEF DeriveState, NoIds
  <2>3. /\ state = "NONE" /\ state' = state /\ memory' = {"DRAFTING_INTENT"}
        /\ gate' = gate
    BY <2>1, <2>2, ViewAfter DEF state, memory, gate, Running
  <2> QED
    BY <2>3, SeesStartOver
<1> QED
  BY <1>6, <1>7, <1>8, <1>9, <1>10

\* What is remembered moves when the ids do.
LEMMA MemoryMoves ==
    ASSUME NEW from, NEW to, browser' = browser, conversation' = conversation,
           \A ids \in {browser, conversation} :
              \/ DeriveState(ids)' = DeriveState(ids)
              \/ DeriveState(ids) = from /\ DeriveState(ids)' = to
    PROVE  \A s \in memory' : s \in memory \/ (s = to /\ from \in memory)
<1>1. DeriveState(browser)' \in {DeriveState(browser), to}
      /\ (DeriveState(browser)' # DeriveState(browser) =>
            DeriveState(browser)' = to /\ DeriveState(browser) = from)
  BY StatesAfter
<1>2. DeriveState(conversation)' \in {DeriveState(conversation), to}
      /\ (DeriveState(conversation)' # DeriveState(conversation) =>
            DeriveState(conversation)' = to /\ DeriveState(conversation) = from)
  BY StatesAfter
<1> QED
  BY <1>1, <1>2, ViewAfter DEF memory

\* The gate a tool is called under.
LEMMA ToolStates ==
    ASSUME AInv, NEW tool, Offered(tool)
    PROVE  /\ state = DeriveState(turn.current) /\ state # "NONE"
           /\ gate = turn.gate /\ gate \in AgentState
           /\ tool \in TOOLS_BY_STATE[gate]
<1>1. turn.phase = "calling" /\ turn.gate \in AgentState /\ tool \in TOOLS_BY_STATE[turn.gate]
  BY TurnTypes DEF AInv, Offered
<1>2. state = DeriveState(turn.current) /\ gate = turn.gate
  BY <1>1 DEF state, gate, Running
<1> QED
  BY <1>1, <1>2, StateTypes DEF AgentState

\* propose_intent: a first draft, or another one.
LEMMA ProposeIntentMoves ==
    ASSUME AInv, NEW i \in IntentIds, NEW b, ProposeIntent(i, b)
    PROVE  [Gated!GNext]_Gated!gvars
<1>1. /\ gate \in {"DRAFTING_INTENT", "AWAITING_INTENT_OK"}
      /\ gate = turn.gate /\ state # "NONE"
  BY ToolStates DEF ProposeIntent, TOOLS_BY_STATE, AgentState
<1>2. /\ ATypeOK /\ TurnFits /\ turn.phase = "calling"
      /\ turn' = [turn EXCEPT !.current = [turn.current EXCEPT !.intent = i],
                              !.calls = turn.calls - 1]
      /\ browser' = browser /\ conversation' = conversation
      /\ intents[i].status = "none"
      /\ intents' = [intents EXCEPT ![i] = [status |-> "draft", budget |-> b, signed |-> FALSE]]
      /\ carts' = carts /\ payments' = payments
  BY DEF AInv, ProposeIntent, Called, CreateDraftIntent, IsNextId, Offered, ATypeOK, Turn
<1>3. /\ intents'[i].status = "draft" /\ i # 0
      /\ \A j \in IntentIds : j # i => intents'[j] = intents[j]
  BY <1>2 DEF ATypeOK, MTypeOK, IntentIds
<1>4. /\ turn'.phase = "calling" /\ turn'.current.intent = i /\ turn'.gate = turn.gate
      /\ turn'.current.cart = 0 /\ turn'.current.payment = 0
  <2>1. turn \in Turn /\ turn.current \in Ids
    BY <1>2, TurnTypes DEF ATypeOK
  <2>2. turn.current.cart = 0 /\ turn.current.payment = 0
    BY <1>2, Callable DEF ProposeIntent
  <2> QED
    BY <1>2, <2>1, <2>2 DEF Turn, Ids
<1>5. \A ids \in {browser, conversation, turn.current} : DeriveState(ids)' = DeriveState(ids)
  BY <1>2, <1>3, QuietTables
<1>6. memory' = memory
  BY <1>2, <1>5, StatesAfter, ViewAfter DEF memory
<1>7. state' = "AWAITING_INTENT_OK"
  <2>1. DeriveState(turn.current)' = "AWAITING_INTENT_OK"
    BY <1>3, <1>4 DEF DeriveState, IntentState
  <2> QED
    BY <1>4, <2>1, ViewAfter DEF Running
<1>8. gate' = gate
  BY <1>1, <1>4, ViewAfter
<1>9. <<gate, "AWAITING_INTENT_OK">> \in Gated!ToolMoves \cup Gated!Repeats
  BY <1>1 DEF Gated!ToolMoves, Gated!Repeats
<1> QED
  BY <1>1, <1>6, <1>7, <1>8, <1>9, SeesTool

\* confirm_intent: the intent is signed, or expires and stays unconfirmed.
LEMMA ConfirmIntentMoves ==
    ASSUME AInv, ConfirmIntent
    PROVE  [Gated!GNext]_Gated!gvars
<1> DEFINE i == turn.current.intent
           from == "AWAITING_INTENT_OK"
           to == "BUILDING_CART"
<1>1. /\ gate = from /\ gate = turn.gate
      /\ state = DeriveState(turn.current) /\ state # "NONE"
  BY ToolStates DEF ConfirmIntent, TOOLS_BY_STATE, AgentState
<1>2. /\ ATypeOK /\ TurnFits /\ RowsFit /\ turn.phase = "calling"
      /\ turn' = [turn EXCEPT !.current = turn.current, !.calls = turn.calls - 1]
      /\ browser' = browser /\ conversation' = conversation
      /\ intents[i].status = "draft"
      /\ carts' = carts /\ payments' = payments
  BY DEF AInv, ConfirmIntent, Called, ExpireIntent, SignIntent, Offered
<1>3. i \in IntentIds
  BY <1>2, Callable DEF ConfirmIntent
<1>4. PICK new \in {"confirmed", "expired"} :
        /\ intents'[i].status = new
        /\ \A j \in IntentIds : j # i => intents'[j] = intents[j]
  <2>1. CASE i \in stale
    <3>1. intents' = [intents EXCEPT ![i].status = "expired"]
      BY <2>1 DEF ConfirmIntent, ExpireIntent
    <3> QED
      BY <1>2, <1>3, <3>1 DEF ATypeOK, MTypeOK, IntentRow
  <2>2. CASE i \notin stale
    <3>1. intents' = [intents EXCEPT ![i].status = "confirmed", ![i].signed = TRUE]
      BY <2>2 DEF ConfirmIntent, SignIntent
    <3> QED
      BY <1>2, <1>3, <3>1 DEF ATypeOK, MTypeOK, IntentRow
  <2> QED
    BY <2>1, <2>2
<1>5. turn'.phase = "calling" /\ turn'.current = turn.current /\ turn'.gate = turn.gate
  BY <1>2 DEF ATypeOK, Turn
<1>6. ASSUME NEW ids \in {browser, conversation, turn.current}
      PROVE  \/ DeriveState(ids)' = DeriveState(ids)
             \/ new = "confirmed" /\ DeriveState(ids) = from /\ DeriveState(ids)' = to
  <2>1. /\ ids.cart # 0 => intents[ids.intent].status = "confirmed" /\ ids.intent \in IntentIds
        /\ ids.intent # 0 => ids.intent \in IntentIds
        /\ ids.payment # 0 => ids.cart \in CartIds
    BY KnownRows
  <2>2. CASE ids.intent # i
    BY <1>2, <1>4, <2>1, <2>2, StateStays
  <2>3. CASE ids.intent = i
    <3>1. ids.cart = 0 /\ ids.payment = 0 /\ i # 0
      BY <1>2, <1>3, <2>1, <2>3 DEF IntentIds, CartIds
    <3>2. DeriveState(ids) = from
      BY <1>2, <2>3, <3>1 DEF DeriveState, IntentState
    <3>3. DeriveState(ids)' = IF new = "confirmed" THEN to ELSE from
      BY <1>4, <2>3, <3>1 DEF DeriveState, IntentState
    <3> QED
      BY <1>4, <3>2, <3>3
  <2> QED
    BY <2>2, <2>3
<1>7. state' = DeriveState(turn.current)'
  BY <1>5, ViewAfter DEF Running
<1>8. /\ DeriveState(turn.current) = from
      /\ DeriveState(turn.current)' = IF new = "confirmed" THEN to ELSE from
  <2>1. i # 0 /\ turn.current.cart = 0 /\ turn.current.payment = 0
    BY <1>2, <1>3, KnownRows DEF IntentIds, CartIds
  <2> QED
    BY <1>2, <1>4, <1>5, <2>1 DEF DeriveState, IntentState
<1>9. \A s \in memory' : s \in memory \/ (s = to /\ from \in memory)
  BY <1>2, <1>6, MemoryMoves
<1>10. CASE new = "confirmed"
  <2>1. <<from, to>> \in Gated!ToolMoves \cup Gated!Repeats
    BY DEF Gated!ToolMoves
  <2>2. gate' = gate
    BY <1>1, <1>5, ViewAfter
  <2> QED
    BY <1>1, <1>7, <1>8, <1>9, <1>10, <2>1, <2>2, SeesTool
<1>11. CASE new = "expired"
  <2>1. DeriveState(browser)' = DeriveState(browser)
        /\ DeriveState(conversation)' = DeriveState(conversation)
    BY <1>2, <1>6, <1>11, StatesAfter
  <2>2. memory' = memory
    BY <2>1, ViewAfter DEF memory
  <2>3. gate' = gate
    BY <1>1, <1>5, ViewAfter
  <2> QED
    BY <1>1, <1>7, <1>8, <1>11, <2>2, <2>3, SeesNothing
<1> QED
  BY <1>10, <1>11

\* propose_cart: a first draft, or another one.
LEMMA ProposeCartMoves ==
    ASSUME AInv, NEW c \in CartIds, NEW total, ProposeCart(c, total)
    PROVE  [Gated!GNext]_Gated!gvars
<1>1. /\ gate \in {"BUILDING_CART", "AWAITING_CART_OK"}
      /\ gate = turn.gate /\ state # "NONE"
  BY ToolStates DEF ProposeCart, TOOLS_BY_STATE, AgentState
<1>2. /\ ATypeOK /\ TurnFits /\ turn.phase = "calling"
      /\ turn' = [turn EXCEPT !.current = [turn.current EXCEPT !.cart = c],
                              !.calls = turn.calls - 1]
      /\ browser' = browser /\ conversation' = conversation
      /\ carts[c].status = "none"
      /\ carts' = [carts EXCEPT ![c] = [status |-> "draft", intent |-> turn.current.intent,
                                        total |-> total, signed |-> FALSE]]
      /\ intents' = intents /\ payments' = payments
  BY DEF AInv, ProposeCart, Called, CreateDraftCart, IsNextId, Offered, ATypeOK, Turn
<1>3. /\ carts'[c].status = "draft" /\ c # 0
      /\ \A d \in CartIds : d # c => carts'[d] = carts[d]
  BY <1>2 DEF ATypeOK, MTypeOK, CartIds
<1>4. /\ turn'.phase = "calling" /\ turn'.gate = turn.gate
      /\ turn'.current.cart = c /\ turn'.current.payment = 0
  <2>1. turn \in Turn /\ turn.current \in Ids
    BY <1>2, TurnTypes DEF ATypeOK
  <2>2. turn.current.payment = 0
    BY <1>2, Callable DEF ProposeCart
  <2> QED
    BY <1>2, <2>1, <2>2 DEF Turn, Ids
<1>5. \A ids \in {browser, conversation, turn.current} : DeriveState(ids)' = DeriveState(ids)
  BY <1>2, <1>3, QuietTables
<1>6. memory' = memory
  BY <1>2, <1>5, StatesAfter, ViewAfter DEF memory
<1>7. state' = "AWAITING_CART_OK"
  <2>1. DeriveState(turn.current)' = "AWAITING_CART_OK"
    BY <1>3, <1>4 DEF DeriveState, CartState
  <2> QED
    BY <1>4, <2>1, ViewAfter DEF Running
<1>8. gate' = gate
  BY <1>1, <1>4, ViewAfter
<1>9. <<gate, "AWAITING_CART_OK">> \in Gated!ToolMoves \cup Gated!Repeats
  BY <1>1 DEF Gated!ToolMoves, Gated!Repeats
<1> QED
  BY <1>1, <1>6, <1>7, <1>8, <1>9, SeesTool

\* confirm_cart: whoever remembers the cart, and no payment, moves along.
LEMMA ConfirmCartMoves ==
    ASSUME AInv, ConfirmCart
    PROVE  [Gated!GNext]_Gated!gvars
<1> DEFINE c == turn.current.cart
           from == "AWAITING_CART_OK"
           to == "EXECUTING_PAYMENT"
<1>1. gate = from /\ gate = turn.gate /\ state # "NONE"
  BY SMTT(30), ToolStates DEF ConfirmCart, TOOLS_BY_STATE, AgentState
<1>2. /\ ATypeOK /\ TurnFits /\ turn.phase = "calling"
      /\ turn' = [turn EXCEPT !.current = turn.current, !.calls = turn.calls - 1]
      /\ browser' = browser /\ conversation' = conversation
      /\ carts[c].status = "draft"
      /\ carts' = [carts EXCEPT ![c].status = "confirmed", ![c].signed = TRUE]
      /\ intents' = intents /\ payments' = payments
  BY DEF AInv, ConfirmCart, Called, CartConfirmable, SignCart, Offered
<1>3. c \in CartIds /\ c # 0 /\ turn.current.payment = 0
  <2>1. c \in CartIds /\ c # 0
    BY <1>2, Callable DEF ConfirmCart, CartIds
  <2>2. turn.current.payment = 0
    BY <1>1, <1>2 DEF TurnFits, GateFits, Running
  <2> QED
    BY <2>1, <2>2
<1>4. carts'[c].status = "confirmed" /\ \A d \in CartIds : d # c => carts'[d] = carts[d]
  BY <1>2, <1>3 DEF ATypeOK, MTypeOK, CartRow
<1>5. turn'.phase = "calling" /\ turn'.current = turn.current /\ turn'.gate = turn.gate
  BY <1>2 DEF ATypeOK, Turn
<1>6. ASSUME NEW ids \in {browser, conversation, turn.current}
      PROVE  \/ DeriveState(ids)' = DeriveState(ids)
             \/ DeriveState(ids) = from /\ DeriveState(ids)' = to
  <2>1. ids.cart # 0 => ids.cart \in CartIds
    BY KnownRows
  <2>2. CASE ids.payment # 0
    BY <1>2, <2>2 DEF DeriveState, PaymentState
  <2>3. CASE ids.payment = 0 /\ ids.cart = c
    BY <1>2, <1>3, <1>4, <2>3 DEF DeriveState, CartState
  <2>4. CASE ids.payment = 0 /\ ids.cart # c
    BY <1>2, <1>4, <2>1, <2>4, StateStays
  <2> QED
    BY <2>2, <2>3, <2>4
<1>7. state' = to
  <2>1. DeriveState(turn.current)' = to
    BY <1>3, <1>4, <1>5 DEF DeriveState, CartState
  <2> QED
    BY <1>5, <2>1, ViewAfter DEF Running
<1>8. \A s \in memory' : s \in memory \/ (s = to /\ from \in memory)
  BY <1>2, <1>6, MemoryMoves
<1>9. <<from, to>> \in Gated!ToolMoves \cup Gated!Repeats
  BY DEF Gated!ToolMoves
<1>10. gate' = gate
  BY <1>1, <1>5, ViewAfter
<1> QED
  BY <1>1, <1>7, <1>8, <1>9, <1>10, SeesTool

\* create_payment and retry_payment: a payment is pending, whatever became of the
\* one before it.
LEMMA ChargedMoves ==
    ASSUME AInv, NEW p \in PaymentIds, Charged(p)
    PROVE  [Gated!GNext]_Gated!gvars
<1>1. /\ ATypeOK /\ TurnFits /\ turn.phase = "charging"
      /\ turn' = [turn EXCEPT !.phase = "calling", !.current.payment = p,
                              !.calls = turn.calls - 1, !.flushed = {}]
      /\ browser' = browser /\ conversation' = conversation
      /\ p \in turn.flushed /\ payments' = SettleFlushed("pending")
      /\ intents' = intents /\ carts' = carts
  BY DEF AInv, Charged, ATypeOK, Turn
<1>2. /\ turn'.phase = "calling" /\ turn'.gate = turn.gate
      /\ turn'.current.payment = p /\ p # 0
  <2>1. turn \in Turn /\ turn.current \in Ids
    BY <1>1, TurnTypes DEF ATypeOK
  <2> QED
    BY <1>1, <2>1 DEF Turn, Ids, PaymentIds
<1>3. payments'[p].status = "pending"
      /\ \A q \in PaymentIds : Committed(q) => payments'[q].status = payments[q].status
  <2>1. \A q \in PaymentIds : Committed(q) => payments[q].status # "uncommitted"
    BY DEF Committed, ResolvedStatus
  <2> QED
    BY <1>1, <2>1, SettledRows
<1>4. gate \in {"EXECUTING_PAYMENT", "PAYMENT_FAILED"} /\ gate = turn.gate /\ state # "NONE"
  <2>1. turn.gate \in {"EXECUTING_PAYMENT", "PAYMENT_FAILED"}
    BY <1>1 DEF TurnFits
  <2>2. state = DeriveState(turn.current) /\ gate = turn.gate
    BY <1>1 DEF state, gate, Running
  <2> QED
    BY <2>1, <2>2, StateTypes DEF AgentState
<1>5. \A ids \in {browser, conversation, turn.current} : DeriveState(ids)' = DeriveState(ids)
  BY <1>1, <1>3, QuietTables
<1>6. memory' = memory
  BY <1>1, <1>5, StatesAfter, ViewAfter DEF memory
<1>7. state' = "EXECUTING_PAYMENT"
  <2>1. DeriveState(turn.current)' = "EXECUTING_PAYMENT"
    BY <1>2, <1>3 DEF DeriveState, PaymentState
  <2> QED
    BY <1>2, <2>1, ViewAfter DEF Running
<1>8. gate' = gate
  BY <1>2, <1>4, ViewAfter
<1>9. <<gate, "EXECUTING_PAYMENT">> \in Gated!ToolMoves \cup Gated!Repeats
  BY <1>4 DEF Gated!ToolMoves, Gated!Repeats
<1> QED
  BY <1>4, <1>6, <1>7, <1>8, <1>9, SeesTool

\* cancel_payment: whoever remembers the payment moves along.
LEMMA CancelMoves ==
    ASSUME AInv, CancelFailedPayment
    PROVE  [Gated!GNext]_Gated!gvars
<1> DEFINE p == turn.current.payment
           from == "PAYMENT_FAILED"
           to == "TERMINAL"
<1>1. gate = from /\ gate = turn.gate /\ state # "NONE"
  BY ToolStates DEF CancelFailedPayment, TOOLS_BY_STATE, AgentState
<1>2. /\ ATypeOK /\ TurnFits /\ turn.phase = "calling"
      /\ turn' = [turn EXCEPT !.calls = turn.calls - 1, !.flushed = {}]
      /\ browser' = browser /\ conversation' = conversation
      /\ payments[p].status = "failed"
      /\ payments' = [SettleFlushed("pending") EXCEPT ![p].status = "cancelled"]
      /\ intents' = intents /\ carts' = carts
  BY DEF AInv, CancelFailedPayment, Offered, ATypeOK, Turn
<1>3. p \in PaymentIds /\ p # 0
  BY <1>2, Callable DEF CancelFailedPayment, PaymentIds
<1>4. /\ payments'[p].status = "cancelled"
      /\ \A q \in PaymentIds : q # p /\ Committed(q) => payments'[q].status = payments[q].status
  <2>1. SettleFlushed("pending") \in [PaymentIds -> PaymentRow]
    BY <1>2, SettledTypes DEF PaymentStatus
  <2>2. \A q \in PaymentIds : q # p => payments'[q] = SettleFlushed("pending")[q]
    BY <1>2, <1>3, <2>1
  <2>3. payments'[p].status = "cancelled"
    BY <1>2, <1>3, <2>1 DEF PaymentRow
  <2>4. \A q \in PaymentIds : Committed(q) => payments[q].status # "uncommitted"
    BY DEF Committed, ResolvedStatus
  <2> QED
    BY <2>2, <2>3, <2>4, SettledRows
<1>5. turn'.phase = "calling" /\ turn'.current = turn.current /\ turn'.gate = turn.gate
  BY <1>2 DEF ATypeOK, Turn
<1>6. ASSUME NEW ids \in {browser, conversation, turn.current}
      PROVE  \/ DeriveState(ids)' = DeriveState(ids)
             \/ DeriveState(ids) = from /\ DeriveState(ids)' = to
  <2>1. ids.payment # 0 => ids.payment \in PaymentIds /\ Committed(ids.payment)
    BY KnownRows
  <2>2. CASE ids.payment = p
    BY <1>2, <1>3, <1>4, <2>2 DEF DeriveState, PaymentState
  <2>3. CASE ids.payment # p
    BY <1>2, <1>4, <2>1, <2>3, StateStays
  <2> QED
    BY <2>2, <2>3
<1>7. state' = to
  <2>1. DeriveState(turn.current)' = to
    BY <1>3, <1>4, <1>5 DEF DeriveState, PaymentState
  <2> QED
    BY <1>5, <2>1, ViewAfter DEF Running
<1>8. \A s \in memory' : s \in memory \/ (s = to /\ from \in memory)
  BY <1>2, <1>6, MemoryMoves
<1>9. <<from, to>> \in Gated!ToolMoves \cup Gated!Repeats
  BY DEF Gated!ToolMoves
<1>10. gate' = gate
  BY <1>1, <1>5, ViewAfter
<1> QED
  BY <1>1, <1>7, <1>8, <1>9, <1>10, SeesTool

\* The webhook settles the payment wherever it is remembered.
LEMMA WebhookMoves ==
    ASSUME AInv, UNCHANGED <<browser, conversation, turn>>,
           NEW event \in DOMAIN EventStatus, NEW p \in PaymentIds, ProcessWebhook(event, p)
    PROVE  [Gated!GNext]_Gated!gvars
<1> DEFINE from == "EXECUTING_PAYMENT"
           to == IF event = "captured" THEN "TERMINAL" ELSE "PAYMENT_FAILED"
<1>1. browser' = browser /\ conversation' = conversation /\ turn' = turn /\ ATypeOK
  BY DEF AInv
<1>4. gate' = gate
  BY <1>1, ViewAfter DEF gate
<1>2. CASE payments[p].status # "pending"
  <2>1. intents' = intents /\ carts' = carts /\ payments' = payments
    BY <1>2 DEF ProcessWebhook, mvars
  <2>2. \A ids \in {browser, conversation, turn.current} : DeriveState(ids)' = DeriveState(ids)
    BY <2>1, QuietTables
  <2> QED
    BY <1>1, <1>4, <2>2, QuietStep
<1>3. CASE payments[p].status = "pending"
  <2>1. /\ intents' = intents /\ carts' = carts
        /\ payments' = [payments EXCEPT ![p].status = EventStatus[event], ![p].verified = TRUE]
    BY <1>3 DEF ProcessWebhook
  <2>2. /\ payments'[p].status = (IF event = "captured" THEN "executed" ELSE "failed")
        /\ \A q \in PaymentIds : q # p => payments'[q] = payments[q]
    <3>1. EventStatus[event] = IF event = "captured" THEN "executed" ELSE "failed"
      BY DEF EventStatus
    <3> QED
      BY <1>1, <2>1, <3>1 DEF ATypeOK, MTypeOK, PaymentRow
  <2>3. p # 0
    BY DEF PaymentIds
  <2>4. ASSUME NEW ids \in {browser, conversation, turn.current}
        PROVE  \/ DeriveState(ids)' = DeriveState(ids)
               \/ DeriveState(ids) = from /\ DeriveState(ids)' = to
    <3>1. ids.payment # 0 => ids.payment \in PaymentIds
      BY KnownRows
    <3>2. CASE ids.payment = p
      BY <1>3, <2>2, <2>3, <3>2 DEF DeriveState, PaymentState
    <3>3. CASE ids.payment # p
      BY <2>1, <2>2, <3>1, <3>3, StateStays
    <3> QED
      BY <3>2, <3>3
  <2>5. \A s \in memory' : s \in memory \/ (s = to /\ from \in memory)
    BY <1>1, <2>4, MemoryMoves
  <2>6. state' = state \/ (state = from /\ state' = to)
    <3>1. CASE turn.phase \in Running
      <4>1. DeriveState(turn.current)' = DeriveState(turn.current)
            \/ (DeriveState(turn.current) = from /\ DeriveState(turn.current)' = to)
        BY <1>1, <2>4, StatesAfter
      <4> QED
        BY <1>1, <3>1, <4>1, ViewAfter DEF state
    <3>2. CASE turn.phase \notin Running
      BY <1>1, <3>2, ViewAfter DEF state
    <3> QED
      BY <3>1, <3>2
  <2>7. <<from, to>> \in Gated!Settlements
    BY DEF Gated!Settlements
  <2> HIDE DEF to, from
  <2> QED
    BY <1>4, <2>5, <2>6, <2>7, SeesWebhook
<1> QED
  BY <1>2, <1>3

\* The clock and the attempts at the gateway are not seen.
LEMMA OutsideMovesNothing ==
    ASSUME AInv, UNCHANGED <<browser, conversation, turn>>,
           UNCHANGED <<intents, carts, payments>>
    PROVE  [Gated!GNext]_Gated!gvars
<1>1. \A ids \in {browser, conversation, turn.current} : DeriveState(ids)' = DeriveState(ids)
  BY QuietTables
<1>2. gate' = gate
  BY ViewAfter DEF gate
<1> QED
  BY <1>1, <1>2, QuietStep

-----------------------------------------------------------------------------
(* The refinement. *)

\* Before the first message the walk is at its start.
LEMMA FlowInitially ==
    ASSUME AInit
    PROVE  Gated!GInit /\ GateIsState
<1>1. turn.phase = "idle" /\ browser = NoIds /\ conversation = NoIds
  BY DEF AInit, NoTurn
<1>2. DeriveState(NoIds) = "DRAFTING_INTENT"
  BY DEF DeriveState, NoIds
<1> QED
  BY <1>1, <1>2 DEF Gated!GInit, Gated!FInit, GateIsState, Running

\* Every step is one of the walk, or is not seen.
LEMMA FlowStep ==
    ASSUME AInv, GateIsState, [ANext]_avars
    PROVE  [Gated!GNext]_Gated!gvars
<1>1. CASE CallTool
  BY <1>1, QuietTurnSteps, ProposeIntentMoves, ConfirmIntentMoves, ProposeCartMoves,
     ConfirmCartMoves, ChargedMoves, CancelMoves
  DEF CallTool
<1>2. CASE TurnStep /\ ~CallTool
  BY <1>2, QuietTurnSteps, TurnBoundaries DEF TurnStep
<1>3. CASE Customer
  BY <1>3, TurnBoundaries DEF Customer
<1>4. CASE World
  <2>1. UNCHANGED <<browser, conversation, turn>>
    BY <1>4 DEF World
  <2>2. CASE \E event \in DOMAIN EventStatus, p \in PaymentIds : ProcessWebhook(event, p)
    BY <2>1, <2>2, WebhookMoves
  <2>3. CASE ~ \E event \in DOMAIN EventStatus, p \in PaymentIds : ProcessWebhook(event, p)
    <3>1. UNCHANGED <<intents, carts, payments>>
      BY <1>4, <2>3 DEF World, OutliveTTL, PayFails, PaySucceeds
    <3> QED
      BY <2>1, <3>1, OutsideMovesNothing
  <2> QED
    BY <2>2, <2>3
<1>5. CASE UNCHANGED avars
  BY <1>5, OutsideMovesNothing DEF avars
<1> QED
  BY <1>1, <1>2, <1>3, <1>4, <1>5 DEF ANext

\* While the model is asked nothing but the webhook moves the state.
LEMMA GateStays ==
    ASSUME GateIsState, turn.phase = "asking",
           turn'.gate = turn.gate, turn'.current = turn.current,
           \/ DeriveState(turn.current)' = DeriveState(turn.current)
           \/ /\ DeriveState(turn.current) = "EXECUTING_PAYMENT"
              /\ DeriveState(turn.current)' \in {"PAYMENT_FAILED", "TERMINAL"}
    PROVE  GateIsState'
BY DEF GateIsState

\* The steps of the turn derive the gate anew before the model is asked.
LEMMA GateIsStateInTurn ==
    ASSUME AInv, GateIsState, TurnStep \/ Customer
    PROVE  GateIsState'
<1>1. turn \in Turn
  BY DEF AInv, ATypeOK
<1>2. CASE EndRound
  <2>1. /\ turn'.gate = DeriveState(turn.current) /\ turn'.current = turn.current
        /\ intents' = intents /\ carts' = carts /\ payments' = payments
    BY <1>1, <1>2 DEF EndRound, NextRound, mvars, Turn
  <2>2. DeriveState(turn.current)' = DeriveState(turn.current)
    BY <2>1 DEF DeriveState, PaymentState, CartState, IntentState
  <2> QED
    BY <2>1, <2>2 DEF GateIsState
<1>3. CASE SendMessage
  <2>1. /\ turn'.gate = DeriveState(browser) /\ turn'.current = browser
        /\ intents' = intents /\ carts' = carts /\ payments' = payments
    BY <1>3 DEF SendMessage, NoTurn, mvars
  <2>2. DeriveState(turn.current)' = DeriveState(browser)
    BY <2>1 DEF DeriveState, PaymentState, CartState, IntentState
  <2> QED
    BY <2>1, <2>2 DEF GateIsState
<1>4. CASE CallTool \/ ModelCallsTools
  <2>1. turn'.phase # "asking"
    <3>1. CASE ModelCallsTools \/ ChargeErrorSwallowed \/ \E p \in PaymentIds : Charged(p)
      BY <1>1, <3>1 DEF ModelCallsTools, ChargeErrorSwallowed, Charged, Turn
    <3>2. CASE CancelFailedPayment \/ \E p \in PaymentIds : StartPayment(p)
      BY <1>1, <3>2 DEF CancelFailedPayment, StartPayment, Offered, Turn
    <3>3. CASE \/ CallWithoutEffect \/ ConfirmIntent \/ ConfirmCart
               \/ \E i \in IntentIds, b \in Budgets \cup {NoBudget} : ProposeIntent(i, b)
               \/ \E c \in CartIds, t \in CartTotals : ProposeCart(c, t)
      <4>1. turn.phase = "calling" /\ \E ids : Called(ids)
        BY <3>3 DEF CallWithoutEffect, ConfirmIntent, ConfirmCart, ProposeIntent, ProposeCart,
                    Offered
      <4> QED
        BY <1>1, <4>1 DEF Called, Turn
    <3> QED
      BY <1>4, <3>1, <3>2, <3>3 DEF CallTool
  <2> QED
    BY <2>1 DEF GateIsState
<1>5. CASE \/ AppendTurn \/ TurnDies \/ DeliverAnswer \/ LoseAnswer
           \/ LoadConversation \/ StartOver
  <2>1. turn'.phase # "asking"
    <3>1. CASE AppendTurn
      BY <3>1 DEF AppendTurn, NoTurn
    <3>2. CASE TurnDies \/ DeliverAnswer \/ LoseAnswer
      BY <3>2 DEF TurnDies, DeliverAnswer, LoseAnswer, NoTurn
    <3>3. CASE LoadConversation \/ StartOver
      BY <3>3 DEF LoadConversation, StartOver
    <3> QED
      BY <1>5, <3>1, <3>2, <3>3
  <2> QED
    BY <2>1 DEF GateIsState
<1> QED
  BY <1>2, <1>3, <1>4, <1>5 DEF TurnStep, Customer

\* The world moves the state of a turn only as the gate allows.
LEMMA GateIsStateInWorld ==
    ASSUME AInv, GateIsState, World \/ UNCHANGED avars
    PROVE  GateIsState'
<1>1. turn' = turn /\ browser' = browser /\ conversation' = conversation
  BY DEF World, avars
<1>2. \/ DeriveState(turn.current)' = DeriveState(turn.current)
      \/ /\ DeriveState(turn.current) = "EXECUTING_PAYMENT"
         /\ DeriveState(turn.current)' \in {"PAYMENT_FAILED", "TERMINAL"}
  <2>1. CASE UNCHANGED <<intents, carts, payments>>
    BY <1>1, <2>1 DEF DeriveState, PaymentState, CartState, IntentState
  <2>2. CASE \E event \in DOMAIN EventStatus, p \in PaymentIds :
                ProcessWebhook(event, p) /\ payments[p].status = "pending"
    <3> DEFINE ids == turn.current
    <3>1. PICK event \in DOMAIN EventStatus, p \in PaymentIds :
            /\ payments[p].status = "pending"
            /\ intents' = intents /\ carts' = carts
            /\ payments' = [payments EXCEPT ![p].status = EventStatus[event],
                                            ![p].verified = TRUE]
      BY <2>2 DEF ProcessWebhook
    <3>2. EventStatus[event] \in {"executed", "failed"}
      BY DEF EventStatus
    <3>3. /\ payments'[p].status \in {"executed", "failed"}
          /\ \A q \in PaymentIds : q # p => payments'[q] = payments[q]
      BY <3>1, <3>2 DEF AInv, ATypeOK, MTypeOK, PaymentRow
    <3>4. ids.payment # 0 => ids.payment \in PaymentIds
      BY KnownRows
    <3>5. CASE ids.payment = p
      <4>1. p # 0
        BY DEF PaymentIds
      <4> QED
        BY <1>1, <3>1, <3>3, <3>5, <4>1 DEF DeriveState, PaymentState
    <3>6. CASE ids.payment # p
      <4>1. DeriveState(ids)' = DeriveState(ids)
        BY <1>1, <3>1, <3>3, <3>4, <3>6 DEF DeriveState, PaymentState, CartState, IntentState
      <4> QED
        BY <4>1
    <3> QED
      BY <3>5, <3>6
  <2> QED
    BY <2>1, <2>2 DEF World, OutliveTTL, PayFails, PaySucceeds, ProcessWebhook, mvars, avars
<1>3. CASE turn.phase = "asking"
  BY <1>1, <1>2, <1>3, GateStays
<1>4. CASE turn.phase # "asking"
  BY <1>1, <1>4 DEF GateIsState
<1> QED
  BY <1>3, <1>4

\* With any number of tool calls in a round, every call ends where an edge of the
\* round's gate leads, and each round is gated by the state its turn is in: GatedFlow,
\* whatever answers are lost and turns die, and however the webhook comes in between.
THEOREM FollowsTheGate == ASpec => ImplementsGatedFlow
<1>1. AInit => Gated!GInit /\ GateIsState
  BY FlowInitially
<1>2. AInv /\ GateIsState /\ [ANext]_avars => GateIsState' /\ [Gated!GNext]_Gated!gvars
  BY FlowStep, GateIsStateInTurn, GateIsStateInWorld DEF ANext
<1>3. ASpec => []AInv
  BY AgentInvariance
<1> QED
  BY <1>1, <1>2, <1>3, PTL DEF ASpec, ImplementsGatedFlow, Gated!GSpec

=============================================================================
