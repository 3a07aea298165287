---------------------------- MODULE AgentTurnProofs ----------------------------
(***************************************************************************)
(* Proofs about AgentTurn for every number of rows, rounds and tool calls, *)
(* and all budgets and totals.                                             *)
(***************************************************************************)
EXTENDS AgentTurn, MandatesProofs

-----------------------------------------------------------------------------
(* The inductive invariant. *)

\* The rows of the tables rest on one another, and a row once confirmed stays.
RowsFit ==
    /\ \A i \in IntentIds : intents[i].signed <=> intents[i].status = "confirmed"
    /\ \A c \in CartIds : carts[c].status # "none" =>
          carts[c].intent \in IntentIds /\ intents[carts[c].intent].status = "confirmed"
    /\ \A c \in CartIds : carts[c].status = "confirmed" =>
          carts[c].signed /\ WithinBudget(carts[c].total, intents[carts[c].intent].budget)
    /\ \A p \in PaymentIds : payments[p].status # "none" =>
          /\ payments[p].cart \in CartIds
          /\ carts[payments[p].cart].status = "confirmed"
          /\ payments[p].amount = carts[payments[p].cart].total

\* Payment rows are inserted one after the other.
PaymentsInOrder ==
    \A p, q \in PaymentIds :
        payments[q].status # "none" /\ p < q => payments[p].status # "none"

\* The uncommitted rows are those of the session; the one being charged is the
\* newest and is for the cart of the turn.
FlushedFit ==
    /\ \A p \in PaymentIds : payments[p].status = "uncommitted" <=> p \in turn.flushed
    /\ turn.phase = "charging" =>
          \A p \in turn.flushed :
              (\A q \in turn.flushed : q <= p) => payments[p].cart = turn.current.cart

\* What a set of ids can be when the round's gate was derived as it was.
GateFits(gate, ids) ==
    /\ gate \in {"DRAFTING_INTENT", "AWAITING_INTENT_OK"} => ids.cart = 0 /\ ids.payment = 0
    /\ gate # "DRAFTING_INTENT" => ids.intent # 0
    /\ gate \in {"BUILDING_CART", "AWAITING_CART_OK"} => ids.payment = 0
    /\ gate \in {"AWAITING_CART_OK", "EXECUTING_PAYMENT", "PAYMENT_FAILED"} => ids.cart # 0
    /\ gate = "PAYMENT_FAILED" => ids.payment # 0

\* A turn only adds ids to those it was sent, and an answer's ids are stored.
TurnFits ==
    /\ turn.phase \in Running => GateFits(turn.gate, turn.current)
    /\ turn.phase = "charging" => turn.gate \in {"EXECUTING_PAYMENT", "PAYMENT_FAILED"}
    /\ turn.phase # "idle" =>
          /\ browser.intent # 0 => turn.current.intent # 0
          /\ browser.cart # 0 => turn.current.cart # 0
          /\ browser.payment # 0 => turn.current.payment # 0
    /\ turn.phase = "answered" => conversation = turn.current
    /\ turn.phase \in {"idle", "answered"} => turn.flushed = {}

\* A turn that goes on has a round left, and a charge is part of a call.
WorkLeft ==
    /\ turn.phase \in {"asking", "calling", "charging"} => turn.round < MaxRounds
    /\ turn.phase = "charging" => turn.calls > 0

\* A row of a mandate's log.
Row(from, to, actor) == [from |-> from, to |-> to, actor |-> actor]

\* With turns one after the other, a mandate's status says what its log is.
IntentPath(status) ==
    CASE status = "draft" -> <<Row("none", "draft", "customer")>>
      [] status = "confirmed" ->
            <<Row("none", "draft", "customer"), Row("draft", "confirmed", "customer")>>
      [] status = "expired" ->
            <<Row("none", "draft", "customer"), Row("draft", "expired", "system")>>
      [] OTHER -> <<>>

\* As for an intent, the log of a cart.
CartPath(status) ==
    CASE status = "draft" -> <<Row("none", "draft", "customer")>>
      [] status = "confirmed" ->
            <<Row("none", "draft", "customer"), Row("draft", "confirmed", "customer")>>
      [] OTHER -> <<>>

\* As for an intent, the log of a payment.
PaymentPath(status) ==
    CASE status = "pending" -> <<Row("none", "pending", "system")>>
      [] status \in {"executed", "failed"} ->
            <<Row("none", "pending", "system"), Row("pending", status, "system")>>
      [] status = "cancelled" ->
            <<Row("none", "pending", "system"), Row("pending", "failed", "system"),
              Row("failed", "cancelled", "user")>>
      [] OTHER -> <<>>

\* The exception is a payment whose error was swallowed: pending without a log,
\* but also without a charge.
LogsFit ==
    /\ \A i \in IntentIds : audit[<<"intent", i>>] = IntentPath(intents[i].status)
    /\ \A c \in CartIds : audit[<<"cart", c>>] = CartPath(carts[c].status)
    /\ \A p \in PaymentIds :
          \/ audit[<<"payment", p>>] = PaymentPath(payments[p].status)
          \/ /\ payments[p].status = "pending" /\ charge[p] = "none"
             /\ audit[<<"payment", p>>] = <<>>

\* Only a committed payment has a charge that a customer can pay, and only such a
\* charge brings an event; what has resolved a payment is one of them.
EventsFit ==
    /\ \A p \in PaymentIds : charge[p] # "none" => Committed(p)
    /\ \A e \in events : charge[e[2]] # "none"
    /\ ResolvedOnSignedEvent

\* The inductive invariant.
AInv ==
    /\ ATypeOK
    /\ RowsFit
    /\ PaymentsInOrder
    /\ FlushedFit
    /\ TurnFits
    /\ WorkLeft
    /\ IdsNameOnePurchase
    /\ EventsFit
    /\ LogsFit

-----------------------------------------------------------------------------
(* Types. *)

\* What a turn holds.
LEMMA TurnTypes ==
    ASSUME ATypeOK
    PROVE  /\ turn.phase \in {"idle", "answered"} \cup Running
           /\ turn.request \in Ids /\ turn.current \in Ids
           /\ turn.gate \in AgentState
           /\ turn.round \in 0..MaxRounds /\ turn.calls \in 0..MaxCalls
           /\ turn.flushed \subseteq PaymentIds
BY DEF ATypeOK, Turn

\* No turn is one of the turns.
LEMMA NoTurnTypes == NoTurn \in Turn /\ NoIds \in Ids
BY RoundsAssumption DEF NoTurn, NoIds, Turn, Ids, AgentState

\* Whatever ids are known, they are in some state.
LEMMA StateTypes ==
    ASSUME NEW ids
    PROVE  DeriveState(ids) \in AgentState
BY DEF DeriveState, PaymentState, CartState, IntentState, AgentState

\* The rows of a session that commits or is rolled back.
LEMMA SettledTypes ==
    ASSUME ATypeOK, NEW status \in PaymentStatus
    PROVE  SettleFlushed(status) \in [PaymentIds -> PaymentRow]
BY ZenonT(60) DEF ATypeOK, MTypeOK, SettleFlushed, PaymentRow

\* A tool call leaves well-typed ids behind.
LEMMA CalledTypes ==
    ASSUME ATypeOK, NEW ids \in Ids, Called(ids), turn.calls > 0
    PROVE  turn' \in Turn
<1>1. turn.calls - 1 \in 0..MaxCalls
  BY TurnTypes, RoundsAssumption
<1>2. turn' = [turn EXCEPT !.current = ids, !.calls = turn.calls - 1]
  BY DEF Called
<1>3. turn \in Turn
  BY DEF ATypeOK
<1> QED
  BY <1>1, <1>2, <1>3 DEF Turn

\* The steps of the turn alone leave it well typed.
LEMMA TurnStepTypes ==
    ASSUME ATypeOK, WorkLeft,
           \/ SendMessage \/ ModelCallsTools \/ EndRound \/ ChargeErrorSwallowed
           \/ AppendTurn \/ TurnDies \/ DeliverAnswer \/ LoseAnswer
    PROVE  turn' \in Turn
<1> USE TurnTypes, NoTurnTypes, RoundsAssumption
<1>0. turn \in Turn /\ browser \in Ids
  BY DEF ATypeOK
<1>1. CASE SendMessage
  BY <1>0, <1>1, StateTypes DEF SendMessage, Turn, Running
<1>2. CASE ModelCallsTools
  <2>1. PICK n \in 1..MaxCalls : turn' = [turn EXCEPT !.phase = "calling", !.calls = n]
    BY <1>2 DEF ModelCallsTools
  <2>2. n \in 0..MaxCalls
    OBVIOUS
  <2> QED
    BY <1>0, <2>1, <2>2 DEF Turn, Running
<1>3. CASE EndRound
  <2>1. turn.round + 1 \in 0..MaxRounds
    BY <1>3 DEF EndRound, NextRound, WorkLeft
  <2> QED
    BY ZenonT(60), <1>0, <1>3, <2>1, StateTypes DEF EndRound, NextRound, Turn, Running
<1>4. CASE ChargeErrorSwallowed
  <2>1. turn.calls - 1 \in 0..MaxCalls
    BY <1>4 DEF ChargeErrorSwallowed, WorkLeft
  <2> QED
    BY <1>0, <1>4, <2>1 DEF ChargeErrorSwallowed, Turn, Running
<1>5. CASE AppendTurn
  BY <1>5 DEF AppendTurn, Turn
<1>6. CASE TurnDies \/ DeliverAnswer \/ LoseAnswer
  BY <1>6 DEF TurnDies, DeliverAnswer, LoseAnswer
<1> QED
  BY <1>1, <1>2, <1>3, <1>4, <1>5, <1>6

-----------------------------------------------------------------------------
(* The ids, the gate and the tables. *)

\* A set of ids that names committed rows of one purchase.
NamesOne(ids) ==
    /\ ids.payment # 0 => Committed(ids.payment) /\ payments[ids.payment].cart = ids.cart
    /\ ids.cart # 0 => carts[ids.cart].status # "none" /\ carts[ids.cart].intent = ids.intent
    /\ ids.intent # 0 => intents[ids.intent].status # "none"

\* No row that other transactions read goes away or turns to another purchase.
TablesGrow ==
    /\ \A i \in IntentIds : intents[i].status # "none" => intents'[i].status # "none"
    /\ \A c \in CartIds : carts[c].status # "none" =>
          carts'[c].status # "none" /\ carts'[c].intent = carts[c].intent
    /\ \A p \in PaymentIds : Committed(p) =>
          Committed(p)' /\ payments'[p].cart = payments[p].cart

\* Ids that name one purchase go on naming it.
LEMMA NamesStay ==
    ASSUME TablesGrow
    PROVE  \A ids \in Ids : NamesOne(ids) => NamesOne(ids)'
<1> SUFFICES ASSUME NEW ids \in Ids, NamesOne(ids)
             PROVE  NamesOne(ids)'
  OBVIOUS
<1>1. /\ ids.intent # 0 => ids.intent \in IntentIds
      /\ ids.cart # 0 => ids.cart \in CartIds
      /\ ids.payment # 0 => ids.payment \in PaymentIds
  BY DEF Ids
<1>2. ASSUME ids.payment # 0
      PROVE  Committed(ids.payment)' /\ payments'[ids.payment].cart = ids.cart
  <2>1. Committed(ids.payment) /\ payments[ids.payment].cart = ids.cart
    BY <1>2 DEF NamesOne
  <2> QED
    BY <1>1, <1>2, <2>1 DEF TablesGrow
<1>3. ASSUME ids.cart # 0
      PROVE  carts'[ids.cart].status # "none" /\ carts'[ids.cart].intent = ids.intent
  BY <1>1, <1>3 DEF NamesOne, TablesGrow
<1>4. ids.intent # 0 => intents'[ids.intent].status # "none"
  BY <1>1 DEF NamesOne, TablesGrow
<1> QED
  BY <1>2, <1>3, <1>4 DEF NamesOne

\* Where ids are copied from one place to another, they name one purchase there.
LEMMA NamesKept ==
    ASSUME ATypeOK, IdsNameOnePurchase, TablesGrow, NamesOne(turn.current)',
           browser' \in KnownIds \cup {NoIds}, conversation' \in KnownIds \cup {NoIds},
           turn'.request \in KnownIds \cup {NoIds}
    PROVE  IdsNameOnePurchase'
<1>1. \A ids \in KnownIds : ids \in Ids /\ NamesOne(ids)
  BY DEF KnownIds, ATypeOK, Turn, IdsNameOnePurchase, NamesOne
<1>2. NoIds \in Ids /\ NamesOne(NoIds)
  BY NoTurnTypes DEF NamesOne, NoIds
<1>3. \A ids \in KnownIds \cup {NoIds} : NamesOne(ids)'
  BY <1>1, <1>2, NamesStay
<1>4. ASSUME NEW ids \in KnownIds'
      PROVE  NamesOne(ids)'
  <2>1. CASE ids = turn'.current
    BY <2>1 DEF NamesOne, Committed
  <2>2. CASE ids # turn'.current
    <3>1. ids \in {browser', conversation', turn'.request}
      BY <1>4, <2>2 DEF KnownIds
    <3> QED
      BY <1>3, <3>1
  <2> QED
    BY <2>1, <2>2
<1> QED
  BY <1>4 DEF IdsNameOnePurchase, NamesOne

\* A turn whose ids stay the same goes on naming its purchase.
LEMMA CurrentKept ==
    ASSUME ATypeOK, IdsNameOnePurchase, TablesGrow, turn'.current = turn.current
    PROVE  NamesOne(turn.current)'
<1>1. turn.current \in Ids /\ NamesOne(turn.current)
  BY TurnTypes DEF IdsNameOnePurchase, KnownIds, NamesOne
<1>2. \A ids \in Ids : NamesOne(ids) => NamesOne(ids)'
  BY NamesStay
<1> QED
  BY <1>1, <1>2 DEF NamesOne, Committed

\* The ids of the turn name one purchase, and its tools find the rows they need.
LEMMA Callable ==
    ASSUME ATypeOK, TurnFits
    PROVE  /\ Offered("propose_intent") => turn.current.cart = 0 /\ turn.current.payment = 0
           /\ Offered("confirm_intent") => turn.current.intent \in IntentIds
           /\ Offered("propose_cart") =>
                 turn.current.intent \in IntentIds /\ turn.current.payment = 0
           /\ Offered("confirm_cart") => turn.current.cart \in CartIds
           /\ Offered("create_payment") => turn.current.cart \in CartIds
           /\ Offered("retry_payment") => turn.current.cart \in CartIds
           /\ Offered("cancel_payment") => turn.current.payment \in PaymentIds
<1>1. ASSUME NEW tool, Offered(tool)
      PROVE  GateFits(turn.gate, turn.current) /\ tool \in TOOLS_BY_STATE[turn.gate]
  BY <1>1 DEF Offered, TurnFits, Running
<1>2. turn.gate \in AgentState
  BY TurnTypes
<1>3. /\ turn.current.intent \in IntentIds \cup {0}
      /\ turn.current.cart \in CartIds \cup {0}
      /\ turn.current.payment \in PaymentIds \cup {0}
  BY TurnTypes DEF Ids
<1>4. Offered("propose_intent") => turn.gate \in {"DRAFTING_INTENT", "AWAITING_INTENT_OK"}
  BY <1>1, <1>2 DEF TOOLS_BY_STATE, AgentState
<1>5. Offered("confirm_intent") => turn.gate = "AWAITING_INTENT_OK"
  BY <1>1, <1>2 DEF TOOLS_BY_STATE, AgentState
<1>6. Offered("propose_cart") => turn.gate \in {"BUILDING_CART", "AWAITING_CART_OK"}
  BY <1>1, <1>2 DEF TOOLS_BY_STATE, AgentState
<1>7. Offered("confirm_cart") => turn.gate = "AWAITING_CART_OK"
  BY <1>1, <1>2 DEF TOOLS_BY_STATE, AgentState
<1>8. Offered("create_payment") => turn.gate = "EXECUTING_PAYMENT"
  BY <1>1, <1>2 DEF TOOLS_BY_STATE, AgentState
<1>9. Offered("retry_payment") => turn.gate = "PAYMENT_FAILED"
  BY <1>1, <1>2 DEF TOOLS_BY_STATE, AgentState
<1>10. Offered("cancel_payment") => turn.gate = "PAYMENT_FAILED"
  BY <1>1, <1>2 DEF TOOLS_BY_STATE, AgentState
<1> QED
  BY <1>1, <1>3, <1>4, <1>5, <1>6, <1>7, <1>8, <1>9, <1>10 DEF GateFits

\* A gate derived from ids that name one purchase fits them.
LEMMA DerivedGateFits ==
    ASSUME NEW ids \in Ids, RowsFit, ATypeOK, NamesOne(ids)
    PROVE  GateFits(DeriveState(ids), ids)
<1>1. ASSUME ids.payment # 0
      PROVE  /\ DeriveState(ids) \in {"TERMINAL", "PAYMENT_FAILED", "EXECUTING_PAYMENT"}
             /\ ids.cart \in CartIds
  <2>1. DeriveState(ids) \in {"TERMINAL", "PAYMENT_FAILED", "EXECUTING_PAYMENT"}
    BY <1>1 DEF DeriveState, PaymentState
  <2>2. ids.payment \in PaymentIds
    BY <1>1 DEF Ids
  <2>3. payments[ids.payment].status # "none" /\ payments[ids.payment].cart = ids.cart
    BY <1>1 DEF NamesOne, Committed, ResolvedStatus
  <2> QED
    BY <2>1, <2>2, <2>3 DEF RowsFit
<1>2. ids.cart # 0 => ids.cart \in CartIds /\ ids.intent \in IntentIds
  BY DEF NamesOne, RowsFit, Ids
<1>3. 0 \notin IntentIds /\ 0 \notin CartIds
  BY DEF IntentIds, CartIds
<1>4. ids.payment = 0 /\ ids.cart # 0 =>
        DeriveState(ids) \in {"EXECUTING_PAYMENT", "AWAITING_CART_OK"}
  BY DEF DeriveState, CartState
<1>5. ids.payment = 0 /\ ids.cart = 0 /\ ids.intent # 0 =>
        DeriveState(ids) \in {"BUILDING_CART", "AWAITING_INTENT_OK"}
  BY DEF DeriveState, IntentState
<1>6. ids.payment = 0 /\ ids.cart = 0 /\ ids.intent = 0 =>
        DeriveState(ids) = "DRAFTING_INTENT"
  BY DEF DeriveState
<1> QED
  BY <1>1, <1>2, <1>3, <1>4, <1>5, <1>6 DEF GateFits

-----------------------------------------------------------------------------
(* Steps that leave the tables alone. *)

\* When no table changes, what is said of the tables alone stays true.
LEMMA TablesAlone ==
    ASSUME AInv, UNCHANGED mvars
    PROVE  /\ MTypeOK' /\ RowsFit' /\ PaymentsInOrder' /\ EventsFit' /\ LogsFit'
           /\ TablesGrow
           /\ turn'.flushed = turn.flushed =>
                 \A p \in PaymentIds : payments'[p].status = "uncommitted" <=> p \in turn'.flushed
<1>1. MTypeOK'
  BY DEF AInv, ATypeOK, MTypeOK, mvars
<1>2. RowsFit'
  BY DEF AInv, RowsFit, mvars
<1>3. PaymentsInOrder'
  BY DEF AInv, PaymentsInOrder, mvars
<1>4. EventsFit'
  BY DEF AInv, EventsFit, ResolvedOnSignedEvent, Committed, mvars
<1>5. LogsFit'
  BY DEF AInv, LogsFit, mvars
<1>6. TablesGrow
  BY DEF TablesGrow, Committed, mvars
<1>7. turn'.flushed = turn.flushed =>
        \A p \in PaymentIds : payments'[p].status = "uncommitted" <=> p \in turn'.flushed
  BY DEF AInv, FlushedFit, mvars
<1> QED
  BY <1>1, <1>2, <1>3, <1>4, <1>5, <1>6, <1>7

\* A message is sent with the browser's ids, and the gate is derived from them.
LEMMA SendMessageKeeps ==
    ASSUME AInv, SendMessage
    PROVE  AInv'
<1>1. UNCHANGED mvars /\ ATypeOK /\ WorkLeft /\ TurnFits /\ RowsFit /\ turn.phase = "idle"
  BY DEF AInv, SendMessage
<1>2. /\ turn'.phase = "asking" /\ turn'.flushed = {} /\ turn'.round = 0
      /\ turn'.request = browser /\ turn'.current = browser
      /\ turn'.gate = DeriveState(browser)
      /\ browser' = browser /\ conversation' = conversation
  BY DEF SendMessage, NoTurn
<1>3. browser \in Ids /\ NamesOne(browser)
  BY DEF AInv, ATypeOK, IdsNameOnePurchase, KnownIds, NamesOne
<1>4. TablesGrow /\ turn.flushed = {}
  BY <1>1, TablesAlone DEF TurnFits
<1>5. ATypeOK'
  BY <1>1, <1>2, TablesAlone, TurnStepTypes DEF ATypeOK
<1>6. TurnFits'
  <2>1. GateFits(turn'.gate, turn'.current)
    BY <1>1, <1>2, <1>3, DerivedGateFits
  <2> QED
    BY <1>2, <2>1 DEF TurnFits
<1>7. WorkLeft'
  BY <1>2, RoundsAssumption DEF WorkLeft
<1>8. IdsNameOnePurchase'
  <2>1. NamesOne(browser)'
    BY <1>3, <1>1, <1>2 DEF NamesOne, mvars, Committed
  <2>2. NamesOne(turn.current)'
    BY <1>2, <2>1 DEF NamesOne, Committed
  <2> QED
    BY <1>1, <1>2, <1>4, <2>2, NamesKept DEF AInv, KnownIds
<1>9. FlushedFit'
  BY <1>1, <1>2, <1>4, TablesAlone DEF FlushedFit
<1> QED
  BY <1>1, <1>5, <1>6, <1>7, <1>8, <1>9, TablesAlone DEF AInv

\* The rounds of a turn leave its ids alone.
LEMMA RoundStepsKeep ==
    ASSUME AInv, ModelCallsTools \/ EndRound \/ ChargeErrorSwallowed
    PROVE  AInv'
<1>1. UNCHANGED mvars /\ ATypeOK /\ WorkLeft /\ TurnFits /\ RowsFit /\ turn.phase \in Running
  BY DEF AInv, ModelCallsTools, EndRound, NextRound, ChargeErrorSwallowed, Running
<1>2. /\ turn'.phase \in Running /\ turn'.phase # "charging"
      /\ turn'.flushed = turn.flushed
      /\ turn'.request = turn.request /\ turn'.current = turn.current
      /\ turn'.gate \in {turn.gate, DeriveState(turn.current)}
      /\ browser' = browser /\ conversation' = conversation
  BY DEF ModelCallsTools, EndRound, NextRound, ChargeErrorSwallowed, Running, AInv, ATypeOK, Turn
<1>3. turn.current \in Ids /\ NamesOne(turn.current)
  BY DEF AInv, ATypeOK, Turn, IdsNameOnePurchase, KnownIds, NamesOne
<1>4. TablesGrow
  BY <1>1, TablesAlone
<1>5. ATypeOK'
  BY <1>1, <1>2, TablesAlone, TurnStepTypes DEF ATypeOK
<1>6. TurnFits'
  <2>1. GateFits(turn'.gate, turn'.current)
    BY <1>1, <1>2, <1>3, DerivedGateFits DEF TurnFits
  <2> QED
    BY <1>1, <1>2, <2>1 DEF TurnFits, Running
<1>7. WorkLeft'
  <2>1. turn'.phase # "ending" => turn'.round < MaxRounds
    <3>1. CASE ModelCallsTools \/ ChargeErrorSwallowed
      BY <1>1, <3>1 DEF ModelCallsTools, ChargeErrorSwallowed, WorkLeft, ATypeOK, Turn
    <3>2. CASE EndRound
      BY <1>1, <3>2, TurnTypes, RoundsAssumption
      DEF EndRound, NextRound, WorkLeft, ATypeOK, Turn
    <3> QED
      BY <3>1, <3>2
  <2> QED
    BY <1>2, <2>1 DEF WorkLeft
<1>8. IdsNameOnePurchase'
  <2>1. NamesOne(turn.current)'
    BY <1>1, <1>2, <1>3 DEF NamesOne, mvars, Committed
  <2> QED
    BY <1>1, <1>2, <1>4, <2>1, NamesKept DEF AInv, KnownIds
<1>9. FlushedFit'
  BY <1>1, <1>2, TablesAlone DEF FlushedFit
<1> QED
  BY <1>1, <1>5, <1>6, <1>7, <1>8, <1>9, TablesAlone DEF AInv

\* A call that changes nothing is counted.
LEMMA CallWithoutEffectKeeps ==
    ASSUME AInv, CallWithoutEffect
    PROVE  AInv'
<1>1. UNCHANGED mvars /\ ATypeOK /\ WorkLeft /\ TurnFits /\ turn.phase = "calling"
  BY DEF AInv, CallWithoutEffect
<1>2. /\ turn'.phase = "calling" /\ turn'.round = turn.round
      /\ turn'.flushed = turn.flushed
      /\ turn'.request = turn.request /\ turn'.current = turn.current
      /\ turn'.gate = turn.gate
      /\ browser' = browser /\ conversation' = conversation
  BY DEF CallWithoutEffect, Called, AInv, ATypeOK, Turn
<1>3. turn.current \in Ids /\ NamesOne(turn.current)
  BY DEF AInv, ATypeOK, Turn, IdsNameOnePurchase, KnownIds, NamesOne
<1>4. TablesGrow
  BY <1>1, TablesAlone
<1>5. ATypeOK'
  BY <1>1, <1>2, <1>3, TablesAlone, CalledTypes DEF ATypeOK, CallWithoutEffect
<1>6. TurnFits' /\ WorkLeft'
  BY <1>1, <1>2 DEF TurnFits, WorkLeft, Running
<1>7. IdsNameOnePurchase'
  <2>1. NamesOne(turn.current)'
    BY <1>1, <1>2, <1>3 DEF NamesOne, mvars, Committed
  <2> QED
    BY <1>1, <1>2, <1>4, <2>1, NamesKept DEF AInv, KnownIds
<1>8. FlushedFit'
  BY <1>1, <1>2, TablesAlone DEF FlushedFit
<1> QED
  BY <1>1, <1>5, <1>6, <1>7, <1>8, TablesAlone DEF AInv

\* Between turns the browser takes over ids that are known, or none.
LEMMA BetweenTurnsKeeps ==
    ASSUME AInv, DeliverAnswer \/ LoseAnswer \/ LoadConversation \/ StartOver
    PROVE  AInv'
<1>1. /\ UNCHANGED mvars /\ ATypeOK /\ WorkLeft /\ TurnFits
      /\ turn.phase \in {"idle", "answered"} /\ turn.flushed = {}
  BY DEF AInv, DeliverAnswer, LoseAnswer, LoadConversation, StartOver, TurnFits
<1>2. DeliverAnswer => browser' = turn.current
  <2>1. ASSUME DeliverAnswer
        PROVE  browser' = turn.current
    <3>1. /\ browser.intent # 0 => turn.current.intent # 0
          /\ browser.cart # 0 => turn.current.cart # 0
          /\ browser.payment # 0 => turn.current.payment # 0
      BY <1>1, <2>1 DEF DeliverAnswer, TurnFits
    <3>2. browser \in Ids /\ turn.current \in Ids
      BY <1>1, TurnTypes DEF ATypeOK
    <3>3. /\ Kept(turn.current.intent, browser.intent) = turn.current.intent
          /\ Kept(turn.current.cart, browser.cart) = turn.current.cart
          /\ Kept(turn.current.payment, browser.payment) = turn.current.payment
      BY <3>1 DEF Kept
    <3>4. turn.current = [intent |-> turn.current.intent, cart |-> turn.current.cart,
                          payment |-> turn.current.payment]
      BY <3>2 DEF Ids
    <3> QED
      BY <2>1, <3>3, <3>4 DEF DeliverAnswer
  <2> QED
    BY <2>1
<1>3. /\ browser' \in KnownIds \cup {NoIds} /\ conversation' \in KnownIds \cup {NoIds}
      /\ turn' = NoTurn \/ (turn' = turn /\ turn.phase = "idle")
  BY <1>2 DEF DeliverAnswer, LoseAnswer, LoadConversation, StartOver, KnownIds
<1>4. /\ turn'.phase = "idle" /\ turn'.flushed = {}
      /\ turn'.request \in KnownIds \cup {NoIds} /\ turn'.current \in KnownIds \cup {NoIds}
      /\ turn' \in Turn
  BY <1>1, <1>3, NoTurnTypes DEF NoTurn, KnownIds, ATypeOK
<1>5. TablesGrow
  BY <1>1, TablesAlone
<1>6. ATypeOK'
  <2>1. \A ids \in KnownIds \cup {NoIds} : ids \in Ids
    BY <1>1, TurnTypes, NoTurnTypes DEF KnownIds, ATypeOK
  <2> QED
    BY <1>1, <1>3, <1>4, <2>1, TablesAlone DEF ATypeOK
<1>7. TurnFits' /\ WorkLeft'
  BY <1>4 DEF TurnFits, WorkLeft, Running
<1>8. IdsNameOnePurchase'
  <2>1. \A ids \in KnownIds \cup {NoIds} : ids \in Ids /\ NamesOne(ids)
    BY <1>1, TurnTypes, NoTurnTypes
    DEF KnownIds, ATypeOK, AInv, IdsNameOnePurchase, NamesOne, NoIds
  <2>2. \A ids \in KnownIds \cup {NoIds} : NamesOne(ids)'
    BY <1>5, <2>1, NamesStay
  <2>3. NamesOne(turn.current)'
    BY <1>4, <2>2 DEF NamesOne, Committed
  <2> QED
    BY <1>1, <1>3, <1>4, <1>5, <2>3, NamesKept DEF AInv
<1>9. FlushedFit'
  BY <1>1, <1>4, TablesAlone DEF FlushedFit
<1> QED
  BY <1>1, <1>6, <1>7, <1>8, <1>9, TablesAlone DEF AInv

-----------------------------------------------------------------------------
(* The tools. *)

\* A new intent is nobody's yet: no cart rests on it.
LEMMA ProposeIntentKeeps ==
    ASSUME AInv, NEW i \in IntentIds, NEW b \in Budgets \cup {NoBudget}, ProposeIntent(i, b)
    PROVE  AInv'
<1> DEFINE m == <<"intent", i>>
           log == <<Row("none", "draft", "customer")>>
<1>1. ATypeOK /\ MTypeOK /\ WorkLeft /\ TurnFits /\ RowsFit /\ LogsFit /\ turn.phase = "calling"
  BY DEF AInv, ATypeOK, ProposeIntent, Offered
<1>2. /\ intents[i].status = "none"
      /\ intents' = [intents EXCEPT ![i] = [status |-> "draft", budget |-> b, signed |-> FALSE]]
      /\ UNCHANGED <<carts, payments, stale, charge, events>>
      /\ RecordTransition("intent", i, "none", "draft", "customer", 0)
  BY DEF ProposeIntent, CreateDraftIntent, IsNextId
<1>3. /\ m \in MandateKeys
      /\ audit[m] = <<>> /\ Len(audit[m]) = 0
  BY <1>1, <1>2, KeyTypes DEF LogsFit, IntentPath
<1>4. audit'[m] = log /\ \A n \in MandateKeys : n # m => audit'[n] = audit[n]
  <2>1. RecordTransition("intent", i, "none", "draft", "customer", Len(audit[m]))
    BY <1>2, <1>3
  <2>2. LoggedLast("intent", i, "none", "draft", "customer")
    BY <1>1, <1>3, <2>1, RecordedLast, LoggedTypes
  <2> QED
    BY <1>3, <2>2 DEF LoggedLast, Row
<1>5. /\ intents'[i].status = "draft" /\ intents'[i].signed = FALSE
      /\ \A j \in IntentIds : j # i => intents'[j] = intents[j]
  BY <1>1, <1>2 DEF MTypeOK
<1>6. turn.current.cart = 0 /\ turn.current.payment = 0 /\ turn.calls > 0
  BY <1>1, Callable DEF ProposeIntent, Offered
<1>7. /\ turn'.phase = "calling" /\ turn'.round = turn.round /\ turn'.gate = turn.gate
      /\ turn'.flushed = turn.flushed /\ turn'.request = turn.request
      /\ turn'.current = [turn.current EXCEPT !.intent = i]
      /\ browser' = browser /\ conversation' = conversation
  BY <1>1 DEF ProposeIntent, Called, ATypeOK, Turn
<1>8. /\ turn'.current \in Ids /\ turn'.current.intent = i
      /\ turn'.current.cart = 0 /\ turn'.current.payment = 0
      /\ i # 0
  BY <1>1, <1>6, <1>7, TurnTypes DEF Ids, IntentIds
<1>9. TablesGrow
  BY <1>2, <1>5 DEF TablesGrow, Committed
<1>10. ATypeOK'
  <2>1. intents' \in [IntentIds -> IntentRow]
    BY <1>1, <1>2 DEF MTypeOK, IntentRow, IntentStatus
  <2>2. audit' \in [MandateKeys -> Seq(AuditRow)]
    BY <1>1, <1>2, <1>3, RecordTransitionFacts DEF LoggedStatus
  <2>3. turn' \in Turn
    BY <1>1, <1>6, <1>7, <1>8, CalledTypes DEF ProposeIntent
  <2> QED
    BY <1>1, <1>2, <1>7, <2>1, <2>2, <2>3 DEF ATypeOK, MTypeOK
<1>11. RowsFit'
  <2>1. \A j \in IntentIds : intents'[j].signed <=> intents'[j].status = "confirmed"
    BY <1>1, <1>5 DEF RowsFit
  <2>2. \A j \in IntentIds : intents[j].status = "confirmed" => intents'[j] = intents[j]
    BY <1>2, <1>5
  <2>3. \A c \in CartIds : carts[c].status # "none" =>
           carts[c].intent \in IntentIds /\ intents'[carts[c].intent] = intents[carts[c].intent]
    BY <1>1, <2>2 DEF RowsFit
  <2> QED
    BY <1>1, <1>2, <2>1, <2>3 DEF RowsFit, CartRow, CartStatus
<1>12. PaymentsInOrder' /\ FlushedFit' /\ EventsFit'
  BY <1>2, <1>7
  DEF AInv, PaymentsInOrder, FlushedFit, EventsFit, ResolvedOnSignedEvent, Committed
<1>13. TurnFits' /\ WorkLeft'
  BY <1>1, <1>6, <1>7, <1>8 DEF TurnFits, GateFits, WorkLeft, Running
<1>14. IdsNameOnePurchase'
  <2>1. NamesOne(turn.current)'
    BY <1>5, <1>8 DEF NamesOne
  <2> QED
    BY <1>1, <1>7, <1>9, <2>1, NamesKept DEF AInv, KnownIds
<1>15. LogsFit'
  <2>1. IntentPath("draft") = log
    BY DEF IntentPath
  <2> HIDE DEF log
  <2>2. ASSUME NEW j \in IntentIds
        PROVE  audit'[<<"intent", j>>] = IntentPath(intents'[j].status)
    <3>1. CASE j = i
      BY <1>4, <1>5, <2>1, <3>1
    <3>2. CASE j # i
      <4>1. audit'[<<"intent", j>>] = audit[<<"intent", j>>]
        BY <1>4, <3>2, KeyTypes
      <4> QED
        BY <1>1, <1>5, <3>2, <4>1 DEF LogsFit
    <3> QED
      BY <3>1, <3>2
  <2> QED
    BY <1>1, <1>2, <1>4, <2>2, KeyTypes DEF LogsFit
<1> QED
  BY <1>10, <1>11, <1>12, <1>13, <1>14, <1>15 DEF AInv

\* No cart rests on an intent that can still be confirmed or expire.
LEMMA ConfirmIntentKeeps ==
    ASSUME AInv, ConfirmIntent
    PROVE  AInv'
<1> DEFINE i == turn.current.intent
           m == <<"intent", i>>
<1>1. /\ ATypeOK /\ MTypeOK /\ WorkLeft /\ TurnFits /\ RowsFit /\ LogsFit
      /\ turn.phase = "calling" /\ turn.calls > 0
  BY DEF AInv, ATypeOK, ConfirmIntent, Offered
<1>2. i \in IntentIds /\ m \in MandateKeys /\ intents[i].status = "draft"
  BY <1>1, Callable, KeyTypes DEF ConfirmIntent
<1>3. PICK new \in {"confirmed", "expired"}, actor \in {"customer", "system"} :
        /\ \A j \in IntentIds : j # i => intents'[j] = intents[j]
        /\ intents'[i].status = new /\ intents'[i].budget = intents[i].budget
        /\ intents'[i].signed <=> new = "confirmed"
        /\ intents' \in [IntentIds -> IntentRow]
        /\ UNCHANGED <<carts, payments, stale, charge, events>>
        /\ IntentPath(new) = <<Row("none", "draft", "customer"), Row("draft", new, actor)>>
        /\ RecordTransition("intent", i, "draft", new, actor, Len(audit[m]))
  <2>1. intents[i] \in IntentRow /\ intents[i].signed = FALSE
    BY <1>1, <1>2 DEF MTypeOK, RowsFit, IntentRow
  <2>2. CASE i \in stale
    <3>1. ExpireIntent(i, Len(audit[m]))
      BY <2>2 DEF ConfirmIntent
    <3>2. /\ \A j \in IntentIds : j # i => intents'[j] = intents[j]
          /\ intents'[i] = [intents[i] EXCEPT !.status = "expired"]
      BY <1>1, <1>2, <3>1 DEF ExpireIntent, MTypeOK
    <3>3. intents'[i].status = "expired" /\ intents'[i].budget = intents[i].budget
          /\ intents'[i].signed = FALSE
      BY <2>1, <3>2 DEF IntentRow
    <3>4. intents' \in [IntentIds -> IntentRow]
      BY <1>1, <1>2, <2>1, <3>1 DEF ExpireIntent, MTypeOK, IntentRow, IntentStatus
    <3>5. IntentPath("expired") =
            <<Row("none", "draft", "customer"), Row("draft", "expired", "system")>>
      BY DEF IntentPath
    <3> QED
      BY <3>1, <3>2, <3>3, <3>4, <3>5 DEF ExpireIntent
  <2>3. CASE i \notin stale
    <3>1. SignIntent(i, Len(audit[m]))
      BY <2>3 DEF ConfirmIntent
    <3>2. /\ \A j \in IntentIds : j # i => intents'[j] = intents[j]
          /\ intents'[i] = [intents[i] EXCEPT !.status = "confirmed", !.signed = TRUE]
      BY <1>1, <1>2, <3>1 DEF SignIntent, MTypeOK
    <3>3. intents'[i].status = "confirmed" /\ intents'[i].budget = intents[i].budget
          /\ intents'[i].signed = TRUE
      BY <2>1, <3>2 DEF IntentRow
    <3>4. intents' \in [IntentIds -> IntentRow]
      <4>1. intents'[i] \in IntentRow
        BY <2>1, <3>2 DEF IntentRow, IntentStatus
      <4>2. intents' = [j \in IntentIds |-> intents'[j]]
        BY <1>1, <3>1 DEF SignIntent, MTypeOK
      <4> QED
        BY <1>1, <3>2, <4>1, <4>2 DEF MTypeOK
    <3>5. IntentPath("confirmed") =
            <<Row("none", "draft", "customer"), Row("draft", "confirmed", "customer")>>
      BY DEF IntentPath
    <3> QED
      BY <3>1, <3>2, <3>3, <3>4, <3>5 DEF SignIntent
  <2> QED
    BY <2>2, <2>3
<1>4. /\ audit'[m] = IntentPath(new)
      /\ \A n \in MandateKeys : n # m => audit'[n] = audit[n]
  <2>1. LoggedLast("intent", i, "draft", new, actor)
    BY <1>1, <1>2, <1>3, RecordedLast, LoggedTypes
  <2>2. audit[m] = <<Row("none", "draft", "customer")>>
    BY <1>1, <1>2 DEF LogsFit, IntentPath
  <2>3. /\ audit'[m] = Append(audit[m], Row("draft", new, actor))
        /\ \A n \in MandateKeys : n # m => audit'[n] = audit[n]
    BY <2>1 DEF LoggedLast, Row
  <2> QED
    BY <1>3, <2>2, <2>3, ShortLogs
<1>5. /\ turn'.phase = "calling" /\ turn'.round = turn.round /\ turn'.gate = turn.gate
      /\ turn'.flushed = turn.flushed /\ turn'.request = turn.request
      /\ turn'.current = turn.current /\ turn' \in Turn
      /\ browser' = browser /\ conversation' = conversation
  BY <1>1, TurnTypes, CalledTypes DEF ConfirmIntent, Called, ATypeOK, Turn
<1>6. TablesGrow
  BY <1>3 DEF TablesGrow, Committed
<1>7. ATypeOK'
  <2>1. audit' \in [MandateKeys -> Seq(AuditRow)]
    BY <1>1, <1>2, <1>3, LoggedTypes, RecordTransitionFacts, LenProperties DEF MTypeOK
  <2> QED
    BY <1>1, <1>3, <1>5, <2>1 DEF ATypeOK, MTypeOK
<1>8. RowsFit'
  <2>1. \A j \in IntentIds : intents'[j].signed <=> intents'[j].status = "confirmed"
    BY <1>1, <1>3 DEF RowsFit
  <2>2. \A j \in IntentIds : intents[j].status = "confirmed" => intents'[j] = intents[j]
    BY <1>2, <1>3
  <2>3. \A c \in CartIds : carts[c].status # "none" =>
           carts[c].intent \in IntentIds /\ intents'[carts[c].intent] = intents[carts[c].intent]
    BY <1>1, <2>2 DEF RowsFit
  <2> QED
    BY <1>1, <1>3, <2>1, <2>3 DEF RowsFit, CartRow, CartStatus
<1>9. PaymentsInOrder' /\ FlushedFit' /\ EventsFit'
  BY <1>3, <1>5
  DEF AInv, PaymentsInOrder, FlushedFit, EventsFit, ResolvedOnSignedEvent, Committed
<1>10. TurnFits' /\ WorkLeft'
  BY <1>1, <1>5 DEF TurnFits, WorkLeft, Running
<1>11. IdsNameOnePurchase'
  BY <1>1, <1>5, <1>6, CurrentKept, NamesKept DEF AInv, KnownIds
<1>12. LogsFit'
  <2>1. \A j \in IntentIds : j # i => audit'[<<"intent", j>>] = audit[<<"intent", j>>]
    BY <1>4, KeyTypes
  <2>2. ASSUME NEW j \in IntentIds
        PROVE  audit'[<<"intent", j>>] = IntentPath(intents'[j].status)
    <3>1. CASE j = i
      BY <1>3, <1>4, <3>1
    <3>2. CASE j # i
      BY <1>1, <1>3, <2>1, <3>2 DEF LogsFit
    <3> QED
      BY <3>1, <3>2
  <2> QED
    BY <1>1, <1>3, <1>4, <2>2, KeyTypes DEF LogsFit
<1> QED
  BY <1>7, <1>8, <1>9, <1>10, <1>11, <1>12 DEF AInv

\* A cart is drafted on the confirmed intent of the turn.
LEMMA ProposeCartKeeps ==
    ASSUME AInv, NEW c \in CartIds, NEW total \in CartTotals, ProposeCart(c, total)
    PROVE  AInv'
<1> DEFINE i == turn.current.intent
           m == <<"cart", c>>
<1>1. /\ ATypeOK /\ MTypeOK /\ WorkLeft /\ TurnFits /\ RowsFit /\ LogsFit
      /\ turn.phase = "calling" /\ turn.calls > 0
  BY DEF AInv, ATypeOK, ProposeCart, Offered
<1>2. i \in IntentIds /\ turn.current.payment = 0 /\ m \in MandateKeys /\ c # 0
  BY <1>1, Callable, KeyTypes DEF ProposeCart, CartIds
<1>3. /\ intents[i].status = "confirmed" /\ carts[c].status = "none"
      /\ carts' = [carts EXCEPT ![c] = [status |-> "draft", intent |-> i,
                                        total |-> total, signed |-> FALSE]]
      /\ UNCHANGED <<intents, payments, stale, charge, events>>
      /\ RecordTransition("cart", c, "none", "draft", "customer", 0)
  BY DEF ProposeCart, CreateDraftCart, IsNextId
<1>4. /\ carts'[c].status = "draft" /\ carts'[c].intent = i
      /\ \A d \in CartIds : d # c => carts'[d] = carts[d]
      /\ carts' \in [CartIds -> CartRow]
  BY <1>1, <1>2, <1>3 DEF MTypeOK, CartRow, CartStatus
<1>5. /\ audit'[m] = CartPath("draft")
      /\ \A n \in MandateKeys : n # m => audit'[n] = audit[n]
  <2>1. audit[m] = <<>> /\ Len(audit[m]) = 0
    BY <1>1, <1>3 DEF LogsFit, CartPath
  <2>2. RecordTransition("cart", c, "none", "draft", "customer", Len(audit[m]))
    BY <1>3, <2>1
  <2>3. LoggedLast("cart", c, "none", "draft", "customer")
    BY <1>1, <1>2, <2>2, RecordedLast, LoggedTypes
  <2>4. /\ audit'[m] = Append(audit[m], Row("none", "draft", "customer"))
        /\ \A n \in MandateKeys : n # m => audit'[n] = audit[n]
    BY <2>3 DEF LoggedLast, Row
  <2>5. CartPath("draft") = <<Row("none", "draft", "customer")>>
    BY DEF CartPath
  <2> QED
    BY <2>1, <2>4, <2>5, ShortLogs
<1>6. /\ turn'.phase = "calling" /\ turn'.round = turn.round /\ turn'.gate = turn.gate
      /\ turn'.flushed = turn.flushed /\ turn'.request = turn.request
      /\ turn'.current = [turn.current EXCEPT !.cart = c]
      /\ browser' = browser /\ conversation' = conversation
  BY <1>1 DEF ProposeCart, Called, ATypeOK, Turn
<1>7. /\ turn'.current \in Ids /\ turn'.current.intent = i
      /\ turn'.current.cart = c /\ turn'.current.payment = 0
      /\ turn' \in Turn
  <2>1. /\ turn'.current \in Ids /\ turn'.current.intent = i
        /\ turn'.current.cart = c /\ turn'.current.payment = 0
    BY <1>1, <1>2, <1>6, TurnTypes DEF Ids
  <2> QED
    BY <1>1, <1>6, <2>1, CalledTypes DEF ProposeCart
<1>8. TablesGrow
  BY <1>3, <1>4 DEF TablesGrow, Committed
<1>9. ATypeOK'
  <2>1. audit' \in [MandateKeys -> Seq(AuditRow)]
    BY <1>1, <1>2, <1>3, RecordTransitionFacts DEF LoggedStatus
  <2> QED
    BY <1>1, <1>3, <1>4, <1>6, <1>7, <2>1 DEF ATypeOK, MTypeOK
<1>10. RowsFit'
  <2>1. \A d \in CartIds : carts[d].status = "confirmed" => carts'[d] = carts[d]
    BY <1>3, <1>4
  <2>2. \A p \in PaymentIds : payments[p].status # "none" =>
           /\ payments[p].cart \in CartIds
           /\ carts'[payments[p].cart] = carts[payments[p].cart]
           /\ carts'[payments[p].cart].status = "confirmed"
    BY <1>1, <2>1 DEF RowsFit
  <2>3. \A d \in CartIds : carts'[d].status # "none" =>
           carts'[d].intent \in IntentIds /\ intents[carts'[d].intent].status = "confirmed"
    BY <1>1, <1>2, <1>3, <1>4 DEF RowsFit
  <2>4. \A d \in CartIds : carts'[d].status = "confirmed" => carts'[d] = carts[d]
    BY <1>4
  <2> QED
    BY <1>1, <1>3, <2>2, <2>3, <2>4 DEF RowsFit
<1>11. PaymentsInOrder' /\ EventsFit'
  BY <1>3 DEF AInv, PaymentsInOrder, EventsFit, ResolvedOnSignedEvent, Committed
<1>12. FlushedFit'
  BY <1>3, <1>6 DEF AInv, FlushedFit
<1>13. TurnFits' /\ WorkLeft'
  <2>1. turn.phase \in Running /\ turn.gate \in {"BUILDING_CART", "AWAITING_CART_OK"}
    BY <1>1, TurnTypes DEF ProposeCart, Offered, TOOLS_BY_STATE, AgentState, Running
  <2>2. GateFits(turn'.gate, turn'.current)
    BY <1>1, <1>2, <1>6, <1>7, <2>1 DEF TurnFits, GateFits
  <2> QED
    BY <1>1, <1>2, <1>6, <1>7, <2>2 DEF TurnFits, WorkLeft
<1>14. IdsNameOnePurchase'
  <2>1. NamesOne(turn.current)'
    BY <1>2, <1>3, <1>4, <1>7 DEF NamesOne
  <2> QED
    BY <1>1, <1>6, <1>8, <2>1, NamesKept DEF AInv, KnownIds
<1>15. LogsFit'
  <2>1. \A d \in CartIds : d # c => audit'[<<"cart", d>>] = audit[<<"cart", d>>]
    BY <1>5, KeyTypes
  <2>2. ASSUME NEW d \in CartIds
        PROVE  audit'[<<"cart", d>>] = CartPath(carts'[d].status)
    <3>1. CASE d = c
      BY <1>4, <1>5, <3>1
    <3>2. CASE d # c
      BY <1>1, <1>4, <2>1, <3>2 DEF LogsFit
    <3> QED
      BY <3>1, <3>2
  <2> QED
    BY <1>1, <1>3, <1>5, <2>2, KeyTypes DEF LogsFit
<1> QED
  BY <1>9, <1>10, <1>11, <1>12, <1>13, <1>14, <1>15 DEF AInv

\* No payment is for a cart that can still be confirmed.
LEMMA ConfirmCartKeeps ==
    ASSUME AInv, ConfirmCart
    PROVE  AInv'
<1> DEFINE c == turn.current.cart
           m == <<"cart", c>>
<1>1. /\ ATypeOK /\ MTypeOK /\ WorkLeft /\ TurnFits /\ RowsFit /\ LogsFit
      /\ turn.phase = "calling" /\ turn.calls > 0
  BY DEF AInv, ATypeOK, ConfirmCart, Offered
<1>2. c \in CartIds /\ m \in MandateKeys
  BY SMTT(30), <1>1, Callable, KeyTypes DEF ConfirmCart
<1>3. /\ carts[c].status = "draft"
      /\ WithinBudget(carts[c].total, intents[carts[c].intent].budget)
      /\ carts' = [carts EXCEPT ![c].status = "confirmed", ![c].signed = TRUE]
      /\ UNCHANGED <<intents, payments, stale, charge, events>>
      /\ RecordTransition("cart", c, "draft", "confirmed", "customer", Len(audit[m]))
  BY SMTT(30) DEF ConfirmCart, CartConfirmable, SignCart
<1>4. /\ carts'[c] = [carts[c] EXCEPT !.status = "confirmed", !.signed = TRUE]
      /\ \A d \in CartIds : d # c => carts'[d] = carts[d]
  BY <1>1, <1>2, <1>3 DEF MTypeOK
<1>5. /\ carts'[c].status = "confirmed" /\ carts'[c].signed = TRUE
      /\ carts'[c].intent = carts[c].intent /\ carts'[c].total = carts[c].total
      /\ carts'[c] \in CartRow
  <2>1. carts[c] \in CartRow
    BY <1>1, <1>2 DEF MTypeOK
  <2> QED
    BY <1>4, <2>1 DEF CartRow, CartStatus
<1>6. carts' \in [CartIds -> CartRow]
  <2>1. carts' = [d \in CartIds |-> carts'[d]]
    BY <1>1, <1>3 DEF MTypeOK
  <2> QED
    BY SMTT(30), <1>1, <1>4, <1>5, <2>1 DEF MTypeOK
<1>7. /\ audit'[m] = CartPath("confirmed")
      /\ \A n \in MandateKeys : n # m => audit'[n] = audit[n]
  <2>1. audit[m] = <<Row("none", "draft", "customer")>>
    BY SMTT(30), <1>1, <1>2, <1>3 DEF LogsFit, CartPath
  <2>2. LoggedLast("cart", c, "draft", "confirmed", "customer")
    BY <1>1, <1>2, <1>3, RecordedLast, LoggedTypes
  <2>3. /\ audit'[m] = Append(audit[m], Row("draft", "confirmed", "customer"))
        /\ \A n \in MandateKeys : n # m => audit'[n] = audit[n]
    BY <2>2 DEF LoggedLast, Row
  <2>4. CartPath("confirmed") =
          <<Row("none", "draft", "customer"), Row("draft", "confirmed", "customer")>>
    BY DEF CartPath
  <2> QED
    BY SMTT(30), <2>1, <2>3, <2>4, ShortLogs
<1>8. /\ turn'.phase = "calling" /\ turn'.round = turn.round /\ turn'.gate = turn.gate
      /\ turn'.flushed = turn.flushed /\ turn'.request = turn.request
      /\ turn'.current = turn.current /\ turn' \in Turn
      /\ browser' = browser /\ conversation' = conversation
  BY ZenonT(60), <1>1, TurnTypes, CalledTypes DEF ConfirmCart, Called, ATypeOK, Turn
<1>9. TablesGrow
  BY ZenonT(60), <1>3, <1>4, <1>5 DEF TablesGrow, Committed
<1>10. ATypeOK'
  <2>1. audit' \in [MandateKeys -> Seq(AuditRow)]
    BY <1>1, <1>2, <1>3, LoggedTypes, RecordTransitionFacts, LenProperties DEF MTypeOK
  <2> QED
    BY ZenonT(60), <1>1, <1>3, <1>6, <1>8, <2>1 DEF ATypeOK, MTypeOK
<1>11. RowsFit'
  <2>1. \A d \in CartIds : carts[d].status = "confirmed" => carts'[d] = carts[d]
    BY <1>3, <1>4
  <2>2. \A p \in PaymentIds : payments[p].status # "none" =>
           /\ payments[p].cart \in CartIds
           /\ carts'[payments[p].cart] = carts[payments[p].cart]
           /\ carts'[payments[p].cart].status = "confirmed"
    BY <1>1, <2>1 DEF RowsFit
  <2>3. ASSUME NEW d \in CartIds, carts'[d].status # "none"
        PROVE  carts'[d].intent \in IntentIds /\ intents'[carts'[d].intent].status = "confirmed"
    <3>1. carts[d].status # "none" /\ carts'[d].intent = carts[d].intent
      BY <1>3, <1>4, <1>5, <2>3
    <3> QED
      BY ZenonT(60), <1>1, <1>3, <3>1 DEF RowsFit
  <2>4. ASSUME NEW d \in CartIds, carts'[d].status = "confirmed"
        PROVE  /\ carts'[d].signed
               /\ WithinBudget(carts'[d].total, intents'[carts'[d].intent].budget)
    <3>1. CASE d = c
      BY ZenonT(60), <1>3, <1>5, <3>1
    <3>2. CASE d # c
      BY ZenonT(60), <1>1, <1>3, <1>4, <2>4, <3>2 DEF RowsFit
    <3> QED
      BY SMTT(30), <3>1, <3>2
  <2>5. ASSUME NEW p \in PaymentIds, payments'[p].status # "none"
        PROVE  /\ payments'[p].cart \in CartIds
               /\ carts'[payments'[p].cart].status = "confirmed"
               /\ payments'[p].amount = carts'[payments'[p].cart].total
    <3>1. payments' = payments /\ payments[p].status # "none"
      BY <1>3, <2>5
    <3> QED
      BY <1>1, <2>2, <3>1 DEF RowsFit
  <2>6. \A j \in IntentIds : intents'[j].signed <=> intents'[j].status = "confirmed"
    BY ZenonT(60), <1>1, <1>3 DEF RowsFit
  <2> QED
    BY SMTT(30), <2>3, <2>4, <2>5, <2>6 DEF RowsFit
<1>12. PaymentsInOrder' /\ EventsFit'
  BY ZenonT(60), <1>3 DEF AInv, PaymentsInOrder, EventsFit, ResolvedOnSignedEvent, Committed
<1>13. FlushedFit'
  BY <1>3, <1>8 DEF AInv, FlushedFit
<1>14. TurnFits' /\ WorkLeft'
  BY <1>1, <1>8 DEF TurnFits, WorkLeft, Running
<1>15. IdsNameOnePurchase'
  BY SMTT(30), <1>1, <1>8, <1>9, CurrentKept, NamesKept DEF AInv, KnownIds
<1>16. LogsFit'
  <2>1. \A d \in CartIds : d # c => audit'[<<"cart", d>>] = audit[<<"cart", d>>]
    BY <1>7, KeyTypes
  <2>2. ASSUME NEW d \in CartIds
        PROVE  audit'[<<"cart", d>>] = CartPath(carts'[d].status)
    <3>1. CASE d = c
      BY <1>5, <1>7, <3>1
    <3>2. CASE d # c
      BY <1>1, <1>4, <2>1, <3>2 DEF LogsFit
    <3> QED
      BY <3>1, <3>2
  <2> QED
    BY ZenonT(60), <1>1, <1>3, <1>7, <2>2, KeyTypes DEF LogsFit
<1> QED
  BY <1>10, <1>11, <1>12, <1>13, <1>14, <1>15, <1>16 DEF AInv

-----------------------------------------------------------------------------
(* Payments. *)

\* A payment keeps its cart and amount, and a new one is for a confirmed cart.
LEMMA PaymentRowsFit ==
    ASSUME AInv, UNCHANGED <<intents, carts>>,
           \A p \in PaymentIds : payments'[p].status # "none" =>
              \/ /\ payments[p].status # "none"
                 /\ payments'[p].cart = payments[p].cart
                 /\ payments'[p].amount = payments[p].amount
              \/ /\ payments'[p].cart \in CartIds
                 /\ carts[payments'[p].cart].status = "confirmed"
                 /\ payments'[p].amount = carts[payments'[p].cart].total
    PROVE  RowsFit'
<1>1. RowsFit /\ intents' = intents /\ carts' = carts
  BY DEF AInv
<1>2. ASSUME NEW p \in PaymentIds, payments'[p].status # "none"
      PROVE  /\ payments'[p].cart \in CartIds
             /\ carts'[payments'[p].cart].status = "confirmed"
             /\ payments'[p].amount = carts'[payments'[p].cart].total
  <2>1. CASE /\ payments[p].status # "none"
             /\ payments'[p].cart = payments[p].cart
             /\ payments'[p].amount = payments[p].amount
    BY <1>1, <2>1 DEF RowsFit
  <2> QED
    BY <1>1, <1>2, <2>1
<1>3. /\ \A i \in IntentIds : intents'[i].signed <=> intents'[i].status = "confirmed"
      /\ \A c \in CartIds : carts'[c].status # "none" =>
            carts'[c].intent \in IntentIds /\ intents'[carts'[c].intent].status = "confirmed"
      /\ \A c \in CartIds : carts'[c].status = "confirmed" =>
            /\ carts'[c].signed
            /\ WithinBudget(carts'[c].total, intents'[carts'[c].intent].budget)
  BY <1>1 DEF RowsFit
<1> QED
  BY <1>2, <1>3 DEF RowsFit

\* What the end of a session makes of the payment rows.
LEMMA SettledRows ==
    ASSUME AInv, NEW status \in {"pending", "absent"}, NEW p \in PaymentIds
    PROVE  /\ p \in turn.flushed =>
                 /\ payments[p].status = "uncommitted"
                 /\ SettleFlushed(status)[p].status = status
                 /\ SettleFlushed(status)[p].cart = payments[p].cart
                 /\ SettleFlushed(status)[p].amount = payments[p].amount
                 /\ SettleFlushed(status)[p].verified = payments[p].verified
           /\ p \notin turn.flushed =>
                 payments[p].status # "uncommitted" /\ SettleFlushed(status)[p] = payments[p]
<1>1. payments[p] \in PaymentRow
  BY DEF AInv, ATypeOK, MTypeOK
<1>2. payments[p].status = "uncommitted" <=> p \in turn.flushed
  BY DEF AInv, FlushedFit
<1> QED
  BY <1>1, <1>2 DEF SettleFlushed, PaymentRow

\* Rows that are rolled back, or committed by a session that goes on, keep the rest
\* of the tables as they are.
LEMMA SettlingKeeps ==
    ASSUME AInv, NEW status \in {"pending", "absent"}, payments' = SettleFlushed(status),
           UNCHANGED <<intents, carts, charge, events, audit>>
    PROVE  /\ RowsFit' /\ PaymentsInOrder' /\ EventsFit' /\ LogsFit' /\ TablesGrow
           /\ \A p \in PaymentIds : payments'[p].status # "uncommitted"
<1>1. \A p \in PaymentIds :
        /\ p \in turn.flushed =>
              /\ payments[p].status = "uncommitted"
              /\ payments'[p].status = status
              /\ payments'[p].cart = payments[p].cart
              /\ payments'[p].amount = payments[p].amount
              /\ payments'[p].verified = payments[p].verified
        /\ p \notin turn.flushed =>
              payments[p].status # "uncommitted" /\ payments'[p] = payments[p]
  BY SettledRows
<1>2. RowsFit'
  BY <1>1, PaymentRowsFit
<1>3. PaymentsInOrder'
  BY <1>1 DEF AInv, PaymentsInOrder
<1>4. TablesGrow
  BY <1>1 DEF TablesGrow, Committed, ResolvedStatus
<1>5. EventsFit'
  <2>1. EventsFit
    BY DEF AInv
  <2>2. \A p \in PaymentIds : Committed(p) => Committed(p)'
    BY <1>4 DEF TablesGrow
  <2>3. \A p \in PaymentIds : charge'[p] # "none" => Committed(p)'
    BY <2>1, <2>2 DEF EventsFit
  <2>4. \A e \in events' : charge'[e[2]] # "none"
    BY <2>1 DEF EventsFit
  <2>5. ASSUME NEW p \in PaymentIds
        PROVE  /\ payments'[p].status = "executed" => <<"captured", p>> \in events'
               /\ payments'[p].status \in {"failed", "cancelled"} => <<"failed", p>> \in events'
               /\ payments'[p].verified <=> payments'[p].status \in ResolvedStatus
    <3>1. /\ payments[p].status = "executed" => <<"captured", p>> \in events
          /\ payments[p].status \in {"failed", "cancelled"} => <<"failed", p>> \in events
          /\ payments[p].verified <=> payments[p].status \in ResolvedStatus
      BY <2>1 DEF EventsFit, ResolvedOnSignedEvent
    <3>2. CASE p \in turn.flushed
      BY <1>1, <3>1, <3>2 DEF ResolvedStatus
    <3>3. CASE p \notin turn.flushed
      BY <1>1, <3>1, <3>3
    <3> QED
      BY <3>2, <3>3
  <2> QED
    BY <2>3, <2>4, <2>5 DEF EventsFit, ResolvedOnSignedEvent
<1>6. LogsFit'
  <2>1. LogsFit /\ EventsFit
    BY DEF AInv
  <2>2. ASSUME NEW p \in PaymentIds
        PROVE  \/ audit'[<<"payment", p>>] = PaymentPath(payments'[p].status)
               \/ /\ payments'[p].status = "pending" /\ charge'[p] = "none"
                  /\ audit'[<<"payment", p>>] = <<>>
    <3>1. CASE p \in turn.flushed
      <4>1. payments[p].status = "uncommitted" /\ payments'[p].status = status
        BY <1>1, <3>1
      <4>2. audit[<<"payment", p>>] = <<>>
        BY <2>1, <4>1 DEF LogsFit, PaymentPath
      <4>3. charge[p] = "none"
        BY <2>1, <4>1 DEF EventsFit, Committed, ResolvedStatus
      <4>4. PaymentPath("absent") = <<>>
        BY DEF PaymentPath
      <4> QED
        BY <4>1, <4>2, <4>3, <4>4
    <3>2. CASE p \notin turn.flushed
      BY <1>1, <2>1, <3>2 DEF LogsFit
    <3> QED
      BY <3>1, <3>2
  <2> QED
    BY <2>1, <2>2 DEF LogsFit
<1>7. \A p \in PaymentIds : payments'[p].status # "uncommitted"
  BY <1>1
<1> QED
  BY <1>2, <1>3, <1>4, <1>5, <1>6, <1>7

\* The end of a turn settles what it has flushed.
LEMMA EndOfTurnKeeps ==
    ASSUME AInv, AppendTurn \/ TurnDies
    PROVE  AInv'
<1>1. /\ ATypeOK /\ WorkLeft /\ TurnFits /\ turn.phase \in Running
      /\ UNCHANGED <<intents, carts, audit, stale, charge, events, browser>>
  BY DEF AInv, AppendTurn, TurnDies, Running
<1>2. PICK status \in {"pending", "absent"} : payments' = SettleFlushed(status)
  BY DEF AppendTurn, TurnDies
<1>3. /\ turn'.flushed = {} /\ turn'.request = NoIds
      /\ conversation' \in KnownIds
      /\ \/ /\ turn'.phase = "answered" /\ turn'.current = turn.current
            /\ conversation' = turn.current
         \/ turn'.phase = "idle" /\ turn'.current = NoIds
  <2>1. CASE AppendTurn
    BY <2>1 DEF AppendTurn, NoTurn, KnownIds
  <2>2. CASE TurnDies
    BY <2>2 DEF TurnDies, NoTurn, KnownIds
  <2> QED
    BY <2>1, <2>2
<1>4. /\ RowsFit' /\ PaymentsInOrder' /\ EventsFit' /\ LogsFit' /\ TablesGrow
      /\ \A p \in PaymentIds : payments'[p].status # "uncommitted"
  BY <1>1, <1>2, SettlingKeeps
<1>5. ATypeOK'
  <2>1. payments' \in [PaymentIds -> PaymentRow]
    BY <1>1, <1>2, SettledTypes DEF PaymentStatus
  <2>2. turn' \in Turn
    BY <1>1, TurnStepTypes
  <2>3. conversation' \in Ids
    BY <1>1, <1>3, TurnTypes DEF ATypeOK, KnownIds
  <2> QED
    BY <1>1, <2>1, <2>2, <2>3 DEF ATypeOK, MTypeOK
<1>6. FlushedFit'
  BY <1>3, <1>4 DEF FlushedFit
<1>7. TurnFits' /\ WorkLeft'
  BY <1>1, <1>3 DEF TurnFits, WorkLeft, Running
<1>8. IdsNameOnePurchase'
  <2>1. NamesOne(turn.current)'
    <3>1. CASE turn'.current = turn.current
      BY <1>1, <1>4, <3>1, CurrentKept DEF AInv
    <3>2. CASE turn'.current = NoIds
      BY <3>2 DEF NamesOne, NoIds
    <3> QED
      BY <1>3, <3>1, <3>2
  <2> QED
    BY <1>1, <1>3, <1>4, <2>1, NamesKept DEF AInv, KnownIds
<1> QED
  BY <1>4, <1>5, <1>6, <1>7, <1>8 DEF AInv

\* A payment is flushed for the confirmed cart of the turn; it is the newest row.
LEMMA StartPaymentKeeps ==
    ASSUME AInv, NEW p \in PaymentIds, StartPayment(p)
    PROVE  AInv'
<1> DEFINE c == turn.current.cart
<1>1. /\ ATypeOK /\ MTypeOK /\ WorkLeft /\ TurnFits /\ RowsFit /\ LogsFit /\ EventsFit
      /\ PaymentsInOrder /\ FlushedFit
      /\ turn.phase = "calling" /\ turn.calls > 0
  BY DEF AInv, ATypeOK, StartPayment, Offered
<1>2. /\ c \in CartIds
      /\ turn.gate \in {"EXECUTING_PAYMENT", "PAYMENT_FAILED"}
  <2>1. turn.gate \in AgentState /\ (\/ "create_payment" \in TOOLS_BY_STATE[turn.gate]
                                     \/ "retry_payment" \in TOOLS_BY_STATE[turn.gate])
    BY <1>1, TurnTypes DEF StartPayment, Offered
  <2>2. turn.gate \in {"EXECUTING_PAYMENT", "PAYMENT_FAILED"}
    BY <2>1 DEF TOOLS_BY_STATE, AgentState
  <2> QED
    BY <1>1, <2>2, Callable DEF StartPayment
<1>3. /\ carts[c].status = "confirmed" /\ payments[p].status = "none"
      /\ \A q \in 1..(p - 1) : payments[q].status # "none"
      /\ payments' = [payments EXCEPT ![p] =
                        [status |-> "uncommitted", cart |-> c,
                         amount |-> carts[c].total, verified |-> FALSE]]
      /\ UNCHANGED <<intents, carts, audit, stale, charge, events>>
  BY DEF StartPayment, FlushPayment, IsNextId
<1>4. /\ payments'[p].status = "uncommitted" /\ payments'[p].cart = c
      /\ payments'[p].amount = carts[c].total /\ payments'[p].verified = FALSE
      /\ \A q \in PaymentIds : q # p => payments'[q] = payments[q]
  BY <1>1, <1>3 DEF MTypeOK
<1>5. /\ turn'.phase = "charging" /\ turn'.round = turn.round /\ turn'.gate = turn.gate
      /\ turn'.calls = turn.calls /\ turn'.flushed = turn.flushed \cup {p}
      /\ turn'.request = turn.request /\ turn'.current = turn.current
      /\ browser' = browser /\ conversation' = conversation
      /\ turn' \in Turn
  BY <1>1 DEF StartPayment, ATypeOK, Turn, Running
<1>6. TablesGrow
  BY <1>3, <1>4 DEF TablesGrow, Committed, ResolvedStatus
<1>7. ATypeOK'
  <2>1. carts[c].total \in CartTotals \cup {0}
    BY <1>1, <1>2 DEF MTypeOK, CartRow
  <2>2. payments' \in [PaymentIds -> PaymentRow]
    BY <1>1, <1>2, <1>3, <2>1 DEF MTypeOK, PaymentRow, PaymentStatus
  <2> QED
    BY <1>1, <1>3, <1>5, <2>2 DEF ATypeOK, MTypeOK
<1>8. RowsFit'
  <2>1. \A q \in PaymentIds : payments'[q].status # "none" =>
          \/ /\ payments[q].status # "none"
             /\ payments'[q].cart = payments[q].cart
             /\ payments'[q].amount = payments[q].amount
          \/ /\ payments'[q].cart \in CartIds
             /\ carts[payments'[q].cart].status = "confirmed"
             /\ payments'[q].amount = carts[payments'[q].cart].total
    BY <1>2, <1>3, <1>4
  <2> QED
    BY <1>3, <2>1, PaymentRowsFit
<1>9. PaymentsInOrder'
  <2>1. ASSUME NEW r \in PaymentIds, NEW q \in PaymentIds,
               payments'[q].status # "none", r < q
        PROVE  payments'[r].status # "none"
    <3>1. CASE r = p
      BY <1>4, <3>1
    <3>2. CASE r # p
      <4>1. payments'[r] = payments[r]
        BY <1>4, <3>2
      <4>2. CASE q = p
        BY <1>3, <2>1, <4>1, <4>2 DEF PaymentIds
      <4>3. CASE q # p
        BY <1>1, <1>4, <2>1, <4>1, <4>3 DEF PaymentsInOrder
      <4> QED
        BY <4>2, <4>3
    <3> QED
      BY <3>1, <3>2
  <2> QED
    BY <2>1 DEF PaymentsInOrder
<1>10. FlushedFit'
  <2>1. \A q \in PaymentIds : payments'[q].status = "uncommitted" <=> q \in turn'.flushed
    BY <1>1, <1>4, <1>5 DEF FlushedFit
  <2>2. ASSUME NEW q \in turn'.flushed, \A r \in turn'.flushed : r <= q
        PROVE  payments'[q].cart = c
    <3>1. CASE q = p
      BY <1>4, <3>1
    <3>2. CASE q # p
      <4>1. q \in PaymentIds /\ p \in Nat /\ q \in Nat /\ p <= q /\ q \in turn.flushed
        BY <1>1, <1>5, <2>2, <3>2, TurnTypes DEF PaymentIds
      <4>2. payments[q].status = "uncommitted" /\ p < q
        BY <1>1, <3>2, <4>1 DEF FlushedFit
      <4> QED
        BY <1>1, <1>3, <4>1, <4>2 DEF PaymentsInOrder
    <3> QED
      BY <3>1, <3>2
  <2> QED
    BY <1>5, <2>1, <2>2 DEF FlushedFit
<1>11. EventsFit'
  <2>1. \A q \in PaymentIds : charge'[q] # "none" => Committed(q)'
    BY <1>1, <1>3, <1>6 DEF EventsFit, TablesGrow
  <2>2. \A e \in events' : charge'[e[2]] # "none"
    BY <1>1, <1>3 DEF EventsFit
  <2>3. ASSUME NEW q \in PaymentIds
        PROVE  /\ payments'[q].status = "executed" => <<"captured", q>> \in events'
               /\ payments'[q].status \in {"failed", "cancelled"} => <<"failed", q>> \in events'
               /\ payments'[q].verified <=> payments'[q].status \in ResolvedStatus
    <3>1. CASE q = p
      BY <1>4, <3>1 DEF ResolvedStatus
    <3>2. CASE q # p
      BY <1>1, <1>3, <1>4, <3>2 DEF EventsFit, ResolvedOnSignedEvent
    <3> QED
      BY <3>1, <3>2
  <2> QED
    BY <2>1, <2>2, <2>3 DEF EventsFit, ResolvedOnSignedEvent
<1>12. TurnFits' /\ WorkLeft'
  BY <1>1, <1>2, <1>5 DEF TurnFits, WorkLeft, Running
<1>13. IdsNameOnePurchase'
  BY <1>1, <1>5, <1>6, CurrentKept, NamesKept DEF AInv, KnownIds
<1>14. LogsFit'
  <2>1. ASSUME NEW q \in PaymentIds
        PROVE  \/ audit'[<<"payment", q>>] = PaymentPath(payments'[q].status)
               \/ /\ payments'[q].status = "pending" /\ charge'[q] = "none"
                  /\ audit'[<<"payment", q>>] = <<>>
    <3>1. CASE q = p
      <4>1. PaymentPath("none") = <<>> /\ PaymentPath("uncommitted") = <<>>
        BY DEF PaymentPath
      <4>2. audit[<<"payment", p>>] = <<>>
        BY <1>1, <1>3, <4>1 DEF LogsFit
      <4> QED
        BY <1>3, <1>4, <3>1, <4>1, <4>2
    <3>2. CASE q # p
      BY <1>1, <1>3, <1>4, <3>2 DEF LogsFit
    <3> QED
      BY <3>1, <3>2
  <2> QED
    BY <1>1, <1>3, <2>1 DEF LogsFit
<1> QED
  BY <1>7, <1>8, <1>9, <1>10, <1>11, <1>12, <1>13, <1>14 DEF AInv

\* The charge of the newest row commits the session: the rows before it, whose
\* errors were swallowed, become pending as well, without a charge or a log.
LEMMA ChargedKeeps ==
    ASSUME AInv, NEW p \in PaymentIds, Charged(p)
    PROVE  AInv'
<1> DEFINE m == <<"payment", p>>
<1>1. /\ ATypeOK /\ MTypeOK /\ WorkLeft /\ TurnFits /\ RowsFit /\ LogsFit /\ EventsFit
      /\ PaymentsInOrder /\ FlushedFit
      /\ turn.phase = "charging" /\ turn.calls > 0
      /\ p \in turn.flushed /\ m \in MandateKeys
  BY KeyTypes DEF AInv, ATypeOK, Charged, WorkLeft
<1>2. /\ payments' = SettleFlushed("pending")
      /\ charge' = [charge EXCEPT ![p] = "open"]
      /\ UNCHANGED <<intents, carts, stale, events>>
      /\ RecordTransition("payment", p, "none", "pending", "system", 0)
  BY DEF Charged
<1>3. \A q \in PaymentIds :
        /\ q \in turn.flushed =>
              /\ payments[q].status = "uncommitted" /\ charge[q] = "none"
              /\ audit[<<"payment", q>>] = <<>>
              /\ payments'[q].status = "pending"
              /\ payments'[q].cart = payments[q].cart
              /\ payments'[q].amount = payments[q].amount
              /\ payments'[q].verified = payments[q].verified
        /\ q \notin turn.flushed =>
              payments[q].status # "uncommitted" /\ payments'[q] = payments[q]
  <2>1. ASSUME NEW q \in PaymentIds, payments[q].status = "uncommitted"
        PROVE  charge[q] = "none" /\ audit[<<"payment", q>>] = <<>>
    <3>1. PaymentPath("uncommitted") = <<>>
      BY DEF PaymentPath
    <3>2. charge[q] = "none"
      BY <1>1, <2>1 DEF EventsFit, Committed, ResolvedStatus
    <3> QED
      BY <1>1, <2>1, <3>1, <3>2 DEF LogsFit
  <2> QED
    BY <1>2, <2>1, SettledRows
<1>4. /\ charge'[p] = "open"
      /\ \A q \in PaymentIds : q # p => charge'[q] = charge[q]
      /\ charge' \in [PaymentIds -> {"none", "open", "paid"}]
  BY <1>1, <1>2 DEF MTypeOK
<1>5. /\ audit'[m] = PaymentPath("pending")
      /\ \A n \in MandateKeys : n # m => audit'[n] = audit[n]
  <2>1. audit[m] = <<>> /\ Len(audit[m]) = 0
    BY <1>1, <1>3
  <2>2. RecordTransition("payment", p, "none", "pending", "system", Len(audit[m]))
    BY <1>2, <2>1
  <2>3. LoggedLast("payment", p, "none", "pending", "system")
    BY <1>1, <2>2, RecordedLast, LoggedTypes
  <2>4. /\ audit'[m] = Append(audit[m], Row("none", "pending", "system"))
        /\ \A n \in MandateKeys : n # m => audit'[n] = audit[n]
    BY <2>3 DEF LoggedLast, Row
  <2>5. PaymentPath("pending") = <<Row("none", "pending", "system")>>
    BY DEF PaymentPath
  <2> QED
    BY <2>1, <2>4, <2>5, ShortLogs
<1>6. /\ turn'.phase = "calling" /\ turn'.round = turn.round /\ turn'.gate = turn.gate
      /\ turn'.flushed = {} /\ turn'.request = turn.request
      /\ turn'.current = [turn.current EXCEPT !.payment = p]
      /\ browser' = browser /\ conversation' = conversation
      /\ turn' \in Turn
  <2>1. turn.calls - 1 \in 0..MaxCalls
    BY <1>1, TurnTypes, RoundsAssumption
  <2>2. turn.current \in Ids /\ [turn.current EXCEPT !.payment = p] \in Ids
    BY <1>1, TurnTypes DEF Ids
  <2>3. turn' = [turn EXCEPT !.phase = "calling", !.current = [turn.current EXCEPT !.payment = p],
                             !.calls = turn.calls - 1, !.flushed = {}]
    BY <1>1 DEF Charged, ATypeOK, Turn
  <2>4. turn \in Turn
    BY <1>1 DEF ATypeOK
  <2> QED
    BY ZenonT(60), <2>1, <2>2, <2>3, <2>4 DEF Charged, Turn, Running
<1>7. /\ turn'.current.intent = turn.current.intent
      /\ turn'.current.cart = turn.current.cart
      /\ turn'.current.payment = p /\ p # 0
  BY <1>1, <1>6, TurnTypes DEF Ids, PaymentIds
<1>8. TablesGrow
  BY <1>2, <1>3 DEF TablesGrow, Committed, ResolvedStatus
<1>9. ATypeOK'
  <2>1. audit' \in [MandateKeys -> Seq(AuditRow)]
    BY <1>1, <1>2, RecordTransitionFacts DEF LoggedStatus
  <2>2. payments' \in [PaymentIds -> PaymentRow]
    BY <1>1, <1>2, SettledTypes DEF PaymentStatus
  <2> QED
    BY <1>1, <1>2, <1>4, <1>6, <2>1, <2>2 DEF ATypeOK, MTypeOK
<1>10. RowsFit'
  BY <1>2, <1>3, PaymentRowsFit
<1>11. PaymentsInOrder'
  BY ZenonT(60), <1>1, <1>3 DEF PaymentsInOrder
<1>12. FlushedFit'
  BY ZenonT(60), <1>3, <1>6 DEF FlushedFit
<1>13. TurnFits' /\ WorkLeft'
  <2>1. turn.phase \in Running /\ GateFits(turn.gate, turn.current)
        /\ turn.gate \in {"EXECUTING_PAYMENT", "PAYMENT_FAILED"}
    BY <1>1 DEF TurnFits, Running
  <2>2. GateFits(turn'.gate, turn'.current)
    BY <1>6, <1>7, <2>1 DEF GateFits
  <2> QED
    BY <1>1, <1>6, <1>7, <2>2 DEF TurnFits, WorkLeft
<1>14. IdsNameOnePurchase'
  <2>1. payments[p].cart = turn.current.cart
    BY <1>1 DEF FlushedFit, Charged
  <2>2. payments'[p].status = "pending" /\ payments'[p].cart = turn'.current.cart
    BY <1>1, <1>3, <1>7, <2>1
  <2>3. turn.current \in Ids /\ NamesOne(turn.current)
    BY <1>1, TurnTypes DEF AInv, IdsNameOnePurchase, KnownIds, NamesOne
  <2>4. NamesOne(turn.current)'
    BY <1>2, <1>7, <2>2, <2>3 DEF NamesOne, Committed
  <2> QED
    BY <1>1, <1>6, <1>8, <2>4, NamesKept DEF AInv, KnownIds
<1>15. EventsFit'
  <2>1. \A q \in PaymentIds : charge'[q] # "none" => Committed(q)'
    <3>1. Committed(p)'
      BY <1>1, <1>3 DEF Committed
    <3>2. \A q \in PaymentIds : Committed(q) => Committed(q)'
      BY <1>8 DEF TablesGrow
    <3> QED
      BY <1>1, <1>4, <3>1, <3>2 DEF EventsFit
  <2>2. \A e \in events' : charge'[e[2]] # "none"
    <3>1. ASSUME NEW e \in events
          PROVE  charge'[e[2]] # "none"
      <4>1. e[2] \in PaymentIds
        BY <1>1 DEF MTypeOK, Events
      <4> QED
        BY <1>1, <1>4, <4>1 DEF EventsFit
    <3> QED
      BY <1>2, <3>1
  <2>3. ASSUME NEW q \in PaymentIds
        PROVE  /\ payments'[q].status = "executed" => <<"captured", q>> \in events'
               /\ payments'[q].status \in {"failed", "cancelled"} => <<"failed", q>> \in events'
               /\ payments'[q].verified <=> payments'[q].status \in ResolvedStatus
    <3>1. /\ payments[q].status = "executed" => <<"captured", q>> \in events
          /\ payments[q].status \in {"failed", "cancelled"} => <<"failed", q>> \in events
          /\ payments[q].verified <=> payments[q].status \in ResolvedStatus
      BY <1>1 DEF EventsFit, ResolvedOnSignedEvent
    <3>2. CASE q \in turn.flushed
      BY <1>3, <3>1, <3>2 DEF ResolvedStatus
    <3>3. CASE q \notin turn.flushed
      BY <1>2, <1>3, <3>1, <3>3
    <3> QED
      BY <3>2, <3>3
  <2> QED
    BY <2>1, <2>2, <2>3 DEF EventsFit, ResolvedOnSignedEvent
<1>16. LogsFit'
  <2>1. ASSUME NEW q \in PaymentIds
        PROVE  \/ audit'[<<"payment", q>>] = PaymentPath(payments'[q].status)
               \/ /\ payments'[q].status = "pending" /\ charge'[q] = "none"
                  /\ audit'[<<"payment", q>>] = <<>>
    <3>1. CASE q = p
      BY <1>1, <1>3, <1>5, <3>1
    <3>2. CASE q # p
      <4>1. audit'[<<"payment", q>>] = audit[<<"payment", q>>] /\ charge'[q] = charge[q]
        BY <1>4, <1>5, <3>2, KeyTypes
      <4>2. CASE q \in turn.flushed
        BY <1>3, <4>1, <4>2
      <4>3. CASE q \notin turn.flushed
        BY <1>1, <1>3, <4>1, <4>3 DEF LogsFit
      <4> QED
        BY <4>2, <4>3
    <3> QED
      BY <3>1, <3>2
  <2> QED
    BY <1>1, <1>2, <1>5, <2>1, KeyTypes DEF LogsFit
<1> QED
  BY <1>9, <1>10, <1>11, <1>12, <1>13, <1>14, <1>15, <1>16 DEF AInv

\* A cancellation commits the session too; the payment it cancels is an older one.
LEMMA CancelFailedPaymentKeeps ==
    ASSUME AInv, CancelFailedPayment
    PROVE  AInv'
<1> DEFINE p == turn.current.payment
           m == <<"payment", p>>
<1>1. /\ ATypeOK /\ MTypeOK /\ WorkLeft /\ TurnFits /\ RowsFit /\ LogsFit /\ EventsFit
      /\ PaymentsInOrder /\ FlushedFit
      /\ turn.phase = "calling" /\ turn.calls > 0
  BY DEF AInv, ATypeOK, CancelFailedPayment, Offered
<1>2. p \in PaymentIds /\ m \in MandateKeys
  BY <1>1, Callable, KeyTypes DEF CancelFailedPayment
<1>3. /\ payments[p].status = "failed"
      /\ payments' = [SettleFlushed("pending") EXCEPT ![p].status = "cancelled"]
      /\ UNCHANGED <<intents, carts, stale, charge, events>>
      /\ RecordTransition("payment", p, "failed", "cancelled", "user", Len(audit[m]))
  BY DEF CancelFailedPayment
<1>4. /\ payments' \in [PaymentIds -> PaymentRow]
      /\ payments'[p] = [payments[p] EXCEPT !.status = "cancelled"]
      /\ \A q \in PaymentIds : q # p => payments'[q] = SettleFlushed("pending")[q]
  <2>1. SettleFlushed("pending") \in [PaymentIds -> PaymentRow]
    BY <1>1, SettledTypes DEF PaymentStatus
  <2>2. SettleFlushed("pending")[p] = payments[p]
    BY <1>1, <1>2, <1>3, SettledRows DEF FlushedFit
  <2>3. payments'[p] = [payments[p] EXCEPT !.status = "cancelled"]
    BY <1>2, <1>3, <2>1, <2>2
  <2>4. \A q \in PaymentIds : q # p => payments'[q] = SettleFlushed("pending")[q]
    BY <1>2, <1>3, <2>1
  <2>5. payments'[p] \in PaymentRow
    <3>1. payments[p] \in PaymentRow /\ "cancelled" \in PaymentStatus
      BY <1>1, <1>2 DEF MTypeOK, PaymentStatus, ResolvedStatus
    <3> QED
      BY <2>3, <3>1 DEF PaymentRow
  <2>6. payments' = [q \in PaymentIds |-> payments'[q]]
    BY <1>3, <2>1
  <2> QED
    BY <2>1, <2>3, <2>4, <2>5, <2>6
<1>5. /\ payments'[p].status = "cancelled"
      /\ payments'[p].cart = payments[p].cart
      /\ payments'[p].amount = payments[p].amount
      /\ payments'[p].verified = payments[p].verified
      /\ p \notin turn.flushed
  <2>1. payments[p] \in PaymentRow
    BY <1>1, <1>2 DEF MTypeOK
  <2> QED
    BY <1>1, <1>2, <1>3, <1>4, <2>1 DEF PaymentRow, FlushedFit
<1>6. \A q \in PaymentIds : q # p =>
        /\ q \in turn.flushed =>
              /\ payments[q].status = "uncommitted" /\ charge[q] = "none"
              /\ audit[<<"payment", q>>] = <<>>
              /\ payments'[q].status = "pending"
              /\ payments'[q].cart = payments[q].cart
              /\ payments'[q].amount = payments[q].amount
              /\ payments'[q].verified = payments[q].verified
        /\ q \notin turn.flushed =>
              payments[q].status # "uncommitted" /\ payments'[q] = payments[q]
  <2>1. ASSUME NEW q \in PaymentIds, payments[q].status = "uncommitted"
        PROVE  charge[q] = "none" /\ audit[<<"payment", q>>] = <<>>
    <3>1. PaymentPath("uncommitted") = <<>>
      BY DEF PaymentPath
    <3>2. charge[q] = "none"
      BY <1>1, <2>1 DEF EventsFit, Committed, ResolvedStatus
    <3> QED
      BY <1>1, <2>1, <3>1, <3>2 DEF LogsFit
  <2> QED
    BY <1>4, <2>1, SettledRows
<1>7. /\ audit'[m] = PaymentPath("cancelled")
      /\ \A n \in MandateKeys : n # m => audit'[n] = audit[n]
  <2>1. PaymentPath("failed") =
          <<Row("none", "pending", "system"), Row("pending", "failed", "system")>>
    BY DEF PaymentPath
  <2>2. audit[m] = PaymentPath("failed")
    BY <1>1, <1>2, <1>3 DEF LogsFit
  <2>3. LoggedLast("payment", p, "failed", "cancelled", "user")
    BY <1>1, <1>2, <1>3, RecordedLast, LoggedTypes
  <2>4. /\ audit'[m] = Append(audit[m], Row("failed", "cancelled", "user"))
        /\ \A n \in MandateKeys : n # m => audit'[n] = audit[n]
    BY <2>3 DEF LoggedLast, Row
  <2>5. PaymentPath("cancelled") =
          <<Row("none", "pending", "system"), Row("pending", "failed", "system"),
            Row("failed", "cancelled", "user")>>
    BY DEF PaymentPath
  <2>6. Append(PaymentPath("failed"), Row("failed", "cancelled", "user"))
          = PaymentPath("cancelled")
    BY ZenonT(60), <2>1, <2>5, ShortLogs
  <2> QED
    BY <2>2, <2>4, <2>6
<1>8. /\ turn'.phase = "calling" /\ turn'.round = turn.round /\ turn'.gate = turn.gate
      /\ turn'.flushed = {} /\ turn'.request = turn.request
      /\ turn'.current = turn.current
      /\ browser' = browser /\ conversation' = conversation
      /\ turn' \in Turn
  <2>1. turn.calls - 1 \in 0..MaxCalls
    BY <1>1, TurnTypes, RoundsAssumption
  <2>2. turn' = [turn EXCEPT !.calls = turn.calls - 1, !.flushed = {}] /\ turn \in Turn
    BY <1>1 DEF CancelFailedPayment, ATypeOK, Turn
  <2> QED
    BY <1>1, <2>1, <2>2 DEF CancelFailedPayment, Turn
<1>9. TablesGrow
  BY <1>3, <1>5, <1>6 DEF TablesGrow, Committed, ResolvedStatus
<1>10. ATypeOK'
  <2>1. audit' \in [MandateKeys -> Seq(AuditRow)]
    BY SMTT(30), <1>1, <1>2, <1>3, LoggedTypes, RecordTransitionFacts, LenProperties DEF MTypeOK
  <2> QED
    BY <1>1, <1>3, <1>4, <1>8, <2>1 DEF ATypeOK, MTypeOK
<1>11. RowsFit'
  BY ZenonT(60), <1>3, <1>5, <1>6, PaymentRowsFit
<1>12. PaymentsInOrder'
  <2>1. \A q \in PaymentIds : payments[q].status # "none" <=> payments'[q].status # "none"
    BY <1>3, <1>5, <1>6
  <2> QED
    BY <1>1, <2>1 DEF PaymentsInOrder
<1>13. FlushedFit'
  <2>1. \A q \in PaymentIds : payments'[q].status # "uncommitted"
    BY ZenonT(60), <1>5, <1>6
  <2> QED
    BY <1>8, <2>1 DEF FlushedFit
<1>14. TurnFits' /\ WorkLeft'
  BY <1>1, <1>8 DEF TurnFits, WorkLeft, Running
<1>15. IdsNameOnePurchase'
  BY <1>1, <1>8, <1>9, CurrentKept, NamesKept DEF AInv, KnownIds
<1>16. EventsFit'
  <2>1. \A q \in PaymentIds : charge'[q] # "none" => Committed(q)'
    BY <1>1, <1>3, <1>9 DEF EventsFit, TablesGrow
  <2>2. \A e \in events' : charge'[e[2]] # "none"
    BY <1>1, <1>3 DEF EventsFit
  <2>3. ASSUME NEW q \in PaymentIds
        PROVE  /\ payments'[q].status = "executed" => <<"captured", q>> \in events'
               /\ payments'[q].status \in {"failed", "cancelled"} => <<"failed", q>> \in events'
               /\ payments'[q].verified <=> payments'[q].status \in ResolvedStatus
    <3>1. /\ payments[q].status = "executed" => <<"captured", q>> \in events
          /\ payments[q].status \in {"failed", "cancelled"} => <<"failed", q>> \in events
          /\ payments[q].verified <=> payments[q].status \in ResolvedStatus
      BY <1>1 DEF EventsFit, ResolvedOnSignedEvent
    <3>2. CASE q = p
      BY <1>3, <1>5, <3>1, <3>2 DEF ResolvedStatus
    <3>3. CASE q # p /\ q \in turn.flushed
      BY <1>6, <3>1, <3>3 DEF ResolvedStatus
    <3>4. CASE q # p /\ q \notin turn.flushed
      BY <1>3, <1>6, <3>1, <3>4
    <3> QED
      BY <3>2, <3>3, <3>4
  <2> QED
    BY <2>1, <2>2, <2>3 DEF EventsFit, ResolvedOnSignedEvent
<1>17. LogsFit'
  <2>1. ASSUME NEW q \in PaymentIds
        PROVE  \/ audit'[<<"payment", q>>] = PaymentPath(payments'[q].status)
               \/ /\ payments'[q].status = "pending" /\ charge'[q] = "none"
                  /\ audit'[<<"payment", q>>] = <<>>
    <3>1. CASE q = p
      BY <1>5, <1>7, <3>1
    <3>2. CASE q # p
      <4>1. audit'[<<"payment", q>>] = audit[<<"payment", q>>] /\ charge'[q] = charge[q]
        BY <1>3, <1>7, <3>2, KeyTypes
      <4>2. CASE q \in turn.flushed
        BY <1>6, <3>2, <4>1, <4>2
      <4>3. CASE q \notin turn.flushed
        BY <1>1, <1>6, <3>2, <4>1, <4>3 DEF LogsFit
      <4> QED
        BY <4>2, <4>3
    <3> QED
      BY <3>1, <3>2
  <2> QED
    BY <1>1, <1>3, <1>7, <2>1, KeyTypes DEF LogsFit
<1> QED
  BY <1>10, <1>11, <1>12, <1>13, <1>14, <1>15, <1>16, <1>17 DEF AInv

-----------------------------------------------------------------------------
(* The world. *)

\* Ids and turns do not move when the world does.
LEMMA WorldLeavesTurns ==
    ASSUME AInv, TablesGrow, UNCHANGED <<browser, conversation, turn>>
    PROVE  TurnFits' /\ WorkLeft' /\ IdsNameOnePurchase'
<1>1. /\ ATypeOK /\ TurnFits /\ WorkLeft /\ IdsNameOnePurchase
      /\ browser' = browser /\ conversation' = conversation /\ turn' = turn
  BY DEF AInv
<1>2. TurnFits' /\ WorkLeft'
  BY <1>1 DEF TurnFits, WorkLeft
<1>3. NamesOne(turn.current)'
  BY <1>1, CurrentKept
<1>4. IdsNameOnePurchase'
  BY <1>1, <1>3, NamesKept DEF KnownIds
<1> QED
  BY <1>2, <1>4

\* Time passes; a payment is tried at the gateway.
LEMMA WorldOutsideKeeps ==
    ASSUME AInv, UNCHANGED <<browser, conversation, turn>>,
           \/ \E i \in IntentIds : OutliveTTL(i)
           \/ \E p \in PaymentIds : PayFails(p)
           \/ \E p \in PaymentIds : PaySucceeds(p)
    PROVE  AInv'
<1>1. /\ ATypeOK /\ MTypeOK /\ EventsFit
      /\ UNCHANGED <<intents, carts, payments, audit>>
  BY DEF AInv, ATypeOK, OutliveTTL, PayFails, PaySucceeds
<1>2. /\ stale' \subseteq IntentIds
      /\ charge' \in [PaymentIds -> {"none", "open", "paid"}]
      /\ \A p \in PaymentIds : charge'[p] = "none" <=> charge[p] = "none"
      /\ events \subseteq events' /\ events' \subseteq Events
      /\ \A e \in events' : e \in events \/ charge[e[2]] # "none"
  <2>1. CASE \E i \in IntentIds : OutliveTTL(i)
    BY <1>1, <2>1 DEF OutliveTTL, MTypeOK
  <2>2. CASE \E p \in PaymentIds : PayFails(p)
    BY <1>1, <2>2 DEF PayFails, MTypeOK, Events, EventStatus
  <2>3. CASE \E p \in PaymentIds : PaySucceeds(p)
    BY <1>1, <2>3 DEF PaySucceeds, MTypeOK, Events, EventStatus
  <2> QED
    BY <2>1, <2>2, <2>3
<1>3. ATypeOK'
  BY <1>1, <1>2 DEF ATypeOK, MTypeOK
<1>4. RowsFit' /\ PaymentsInOrder' /\ FlushedFit' /\ TablesGrow
  BY <1>1 DEF AInv, RowsFit, PaymentsInOrder, FlushedFit, TablesGrow, Committed
<1>5. EventsFit'
  <2>1. \A p \in PaymentIds : charge'[p] # "none" => Committed(p)'
    BY <1>1, <1>2 DEF EventsFit, Committed
  <2>2. ASSUME NEW e \in events'
        PROVE  charge'[e[2]] # "none"
    <3>1. e[2] \in PaymentIds
      BY <1>2 DEF Events
    <3> QED
      BY <1>1, <1>2, <3>1 DEF EventsFit
  <2>3. ResolvedOnSignedEvent'
    BY <1>1, <1>2 DEF EventsFit, ResolvedOnSignedEvent
  <2> QED
    BY <2>1, <2>2, <2>3 DEF EventsFit
<1>6. LogsFit'
  BY <1>1, <1>2 DEF AInv, LogsFit
<1> QED
  BY <1>3, <1>4, <1>5, <1>6, WorldLeavesTurns DEF AInv

\* A webhook finds a payment with a charge, and so with the log of a pending one.
LEMMA ProcessWebhookKeeps ==
    ASSUME AInv, UNCHANGED <<browser, conversation, turn>>,
           NEW event \in DOMAIN EventStatus, NEW p \in PaymentIds, ProcessWebhook(event, p)
    PROVE  AInv'
<1> DEFINE m == <<"payment", p>>
           new == EventStatus[event]
<1>0. CASE payments[p].status # "pending"
  <2>1. UNCHANGED mvars /\ turn' = turn /\ browser' = browser /\ conversation' = conversation
    BY <1>0 DEF ProcessWebhook
  <2>2. ATypeOK'
    BY <2>1, TablesAlone DEF AInv, ATypeOK
  <2>3. FlushedFit'
    BY <2>1, TablesAlone DEF AInv, FlushedFit, mvars
  <2> QED
    BY <2>1, <2>2, <2>3, TablesAlone, WorldLeavesTurns DEF AInv
<1>1. CASE payments[p].status = "pending"
  <2>1. /\ ATypeOK /\ MTypeOK /\ RowsFit /\ LogsFit /\ EventsFit
        /\ PaymentsInOrder /\ FlushedFit
        /\ turn' = turn /\ m \in MandateKeys
        /\ <<event, p>> \in events
    BY KeyTypes DEF AInv, ATypeOK, ProcessWebhook
  <2>2. /\ payments' = [payments EXCEPT ![p].status = new, ![p].verified = TRUE]
        /\ RecordTransition("payment", p, "pending", new, "system", Len(audit[m]))
        /\ UNCHANGED <<intents, carts, stale, charge, events>>
    BY <1>1 DEF ProcessWebhook
  <2>3. /\ new \in {"executed", "failed"}
        /\ new = "executed" => event = "captured"
        /\ new = "failed" => event = "failed"
    BY DEF EventStatus
  <2>4. charge[p] # "none"
    BY <2>1 DEF EventsFit
  <2>5. /\ payments'[p] = [payments[p] EXCEPT !.status = new, !.verified = TRUE]
        /\ \A q \in PaymentIds : q # p => payments'[q] = payments[q]
    BY <2>1, <2>2 DEF MTypeOK
  <2>6. /\ payments'[p].status = new /\ payments'[p].verified = TRUE
        /\ payments'[p].cart = payments[p].cart
        /\ payments'[p].amount = payments[p].amount
        /\ payments'[p] \in PaymentRow
    <3>1. payments[p] \in PaymentRow /\ new \in PaymentStatus
      BY <2>1, <2>3 DEF MTypeOK, PaymentStatus, ResolvedStatus
    <3> HIDE DEF new
    <3> QED
      BY <2>5, <3>1 DEF PaymentRow
  <2>7. payments' \in [PaymentIds -> PaymentRow]
    <3>1. payments' = [q \in PaymentIds |-> payments'[q]]
      BY <2>1, <2>2 DEF MTypeOK
    <3> QED
      BY <2>1, <2>5, <2>6, <3>1 DEF MTypeOK
  <2> HIDE DEF new
  <2>8. /\ audit'[m] = PaymentPath(new)
        /\ \A n \in MandateKeys : n # m => audit'[n] = audit[n]
    <3>1. PaymentPath("pending") = <<Row("none", "pending", "system")>>
      BY DEF PaymentPath
    <3>2. audit[m] = <<Row("none", "pending", "system")>>
      BY <1>1, <2>1, <2>4, <3>1 DEF LogsFit
    <3>3. LoggedLast("payment", p, "pending", new, "system")
      BY <2>1, <2>2, <2>3, RecordedLast, LoggedTypes
    <3>4. /\ audit'[m] = Append(audit[m], Row("pending", new, "system"))
          /\ \A n \in MandateKeys : n # m => audit'[n] = audit[n]
      BY <3>3 DEF LoggedLast, Row
    <3>5. PaymentPath(new) =
            <<Row("none", "pending", "system"), Row("pending", new, "system")>>
      BY <2>3 DEF PaymentPath
    <3> QED
      BY <3>2, <3>4, <3>5, ShortLogs
  <2>9. TablesGrow
    BY <1>1, <2>2, <2>3, <2>5, <2>6 DEF TablesGrow, Committed, ResolvedStatus
  <2>10. ATypeOK'
    <3>1. audit' \in [MandateKeys -> Seq(AuditRow)]
      BY <2>1, <2>2, <2>3, LoggedTypes, RecordTransitionFacts, LenProperties DEF MTypeOK
    <3> QED
      BY <2>1, <2>2, <2>7, <3>1 DEF ATypeOK, MTypeOK
  <2>11. RowsFit'
    BY <1>1, <2>2, <2>5, <2>6, PaymentRowsFit
  <2>12. PaymentsInOrder'
    <3>1. \A q \in PaymentIds : payments[q].status # "none" <=> payments'[q].status # "none"
      BY <1>1, <2>3, <2>5, <2>6
    <3> QED
      BY <2>1, <3>1 DEF PaymentsInOrder
  <2>13. FlushedFit'
    <3>1. \A q \in PaymentIds :
            /\ payments[q].status = "uncommitted" <=> payments'[q].status = "uncommitted"
            /\ payments'[q].cart = payments[q].cart
      BY <1>1, <2>3, <2>5, <2>6
    <3>2. turn'.flushed \subseteq PaymentIds
      BY <2>1, TurnTypes
    <3> QED
      BY <2>1, <3>1, <3>2 DEF FlushedFit
  <2>14. EventsFit'
    <3>1. \A q \in PaymentIds : charge'[q] # "none" => Committed(q)'
      BY <2>1, <2>2, <2>9 DEF EventsFit, TablesGrow
    <3>2. \A e \in events' : charge'[e[2]] # "none"
      BY <2>1, <2>2 DEF EventsFit
    <3>3. ASSUME NEW q \in PaymentIds
          PROVE  /\ payments'[q].status = "executed" => <<"captured", q>> \in events'
                 /\ payments'[q].status \in {"failed", "cancelled"} => <<"failed", q>> \in events'
                 /\ payments'[q].verified <=> payments'[q].status \in ResolvedStatus
      <4>1. CASE q = p
        BY <2>1, <2>2, <2>3, <2>6, <4>1 DEF ResolvedStatus
      <4>2. CASE q # p
        BY <2>1, <2>2, <2>5, <4>2 DEF EventsFit, ResolvedOnSignedEvent
      <4> QED
        BY <4>1, <4>2
    <3> QED
      BY <3>1, <3>2, <3>3 DEF EventsFit, ResolvedOnSignedEvent
  <2>15. LogsFit'
    <3>1. ASSUME NEW q \in PaymentIds
          PROVE  \/ audit'[<<"payment", q>>] = PaymentPath(payments'[q].status)
                 \/ /\ payments'[q].status = "pending" /\ charge'[q] = "none"
                    /\ audit'[<<"payment", q>>] = <<>>
      <4>1. CASE q = p
        BY <2>6, <2>8, <4>1
      <4>2. CASE q # p
        <5>1. audit'[<<"payment", q>>] = audit[<<"payment", q>>] /\ charge'[q] = charge[q]
          BY <2>2, <2>8, <4>2, KeyTypes
        <5> QED
          BY <2>1, <2>5, <4>2, <5>1 DEF LogsFit
      <4> QED
        BY <4>1, <4>2
    <3> QED
      BY ZenonT(60), <2>1, <2>2, <2>8, <3>1, KeyTypes DEF LogsFit
  <2> QED
    BY <2>9, <2>10, <2>11, <2>12, <2>13, <2>14, <2>15, WorldLeavesTurns DEF AInv
<1> QED
  BY <1>0, <1>1

-----------------------------------------------------------------------------
(* The invariant. *)

\* Before the first message nothing is stored.
LEMMA AInitially ==
    ASSUME AInit
    PROVE  AInv
<1>1. ATypeOK
  <2>1. MTypeOK
    BY DEF AInit, MInit, MTypeOK, IntentRow, IntentStatus, CartRow, CartStatus,
           PaymentRow, PaymentStatus
  <2> QED
    BY <2>1, NoTurnTypes DEF AInit, ATypeOK
<1>2. RowsFit /\ PaymentsInOrder /\ FlushedFit /\ EventsFit
  BY DEF AInit, MInit, NoTurn, RowsFit, PaymentsInOrder, FlushedFit, EventsFit,
         ResolvedOnSignedEvent, ResolvedStatus
<1>3. TurnFits /\ WorkLeft
  BY DEF AInit, NoTurn, TurnFits, WorkLeft, Running
<1>4. IdsNameOnePurchase
  BY DEF AInit, NoTurn, NoIds, KnownIds, IdsNameOnePurchase
<1>5. LogsFit
  <2>1. IntentPath("none") = <<>> /\ CartPath("none") = <<>> /\ PaymentPath("none") = <<>>
    BY DEF IntentPath, CartPath, PaymentPath
  <2> QED
    BY <2>1, KeyTypes DEF AInit, MInit, LogsFit
<1> QED
  BY <1>1, <1>2, <1>3, <1>4, <1>5 DEF AInv

\* Every step keeps the invariant.
LEMMA AStep ==
    ASSUME AInv, [ANext]_avars
    PROVE  AInv'
<1>1. CASE TurnStep
  <2>1. CASE CallTool
    BY <2>1, CallWithoutEffectKeeps, ProposeIntentKeeps, ConfirmIntentKeeps, ProposeCartKeeps,
       ConfirmCartKeeps, StartPaymentKeeps, ChargedKeeps, RoundStepsKeep,
       CancelFailedPaymentKeeps
    DEF CallTool
  <2>2. CASE ~CallTool
    BY <1>1, <2>2, RoundStepsKeep, EndOfTurnKeeps, BetweenTurnsKeeps DEF TurnStep
  <2> QED
    BY <2>1, <2>2
<1>2. CASE Customer
  BY <1>2, SendMessageKeeps, BetweenTurnsKeeps DEF Customer
<1>3. CASE World
  BY <1>3, WorldOutsideKeeps, ProcessWebhookKeeps DEF World
<1>4. CASE UNCHANGED avars
  <2>1. UNCHANGED mvars /\ turn' = turn /\ browser' = browser /\ conversation' = conversation
    BY <1>4 DEF avars, mvars
  <2>2. ATypeOK' /\ FlushedFit'
    BY <2>1, TablesAlone DEF AInv, ATypeOK, FlushedFit, mvars
  <2> QED
    BY <2>1, <2>2, TablesAlone, WorldLeavesTurns DEF AInv
<1> QED
  BY <1>1, <1>2, <1>3, <1>4 DEF ANext

\* The inductive invariant holds in every conversation.
THEOREM AgentInvariance == ASpec => []AInv
<1>1. AInit => AInv
  BY AInitially
<1>2. AInv /\ [ANext]_avars => AInv'
  BY AStep
<1> QED
  BY <1>1, <1>2, PTL DEF ASpec

\* Tables, ids and turns keep their types, for every number of rows, rounds and calls.
THEOREM AgentTypes == ASpec => []ATypeOK
<1>1. AInv => ATypeOK
  BY DEF AInv
<1> QED
  BY <1>1, AgentInvariance, PTL

\* The browser, the stored conversation and the running turn each name committed rows
\* of one purchase, whatever answers were lost and turns have died.
THEOREM OnePurchase == ASpec => []IdsNameOnePurchase
<1>1. AInv => IdsNameOnePurchase
  BY DEF AInv
<1> QED
  BY <1>1, AgentInvariance, PTL

\* A conversation never resumes in a state whose tools the services refuse for good.
THEOREM WayOn == ASpec => []StateOffersAWayOn
<1>1. ASSUME AInv
      PROVE  StateOffersAWayOn
  <2>1. SUFFICES ASSUME NEW ids \in KnownIds
                 PROVE  /\ DeriveState(ids) \in {"BUILDING_CART", "AWAITING_CART_OK"} =>
                              intents[ids.intent].status = "confirmed"
                        /\ DeriveState(ids) \in {"EXECUTING_PAYMENT", "PAYMENT_FAILED"} =>
                              carts[ids.cart].status = "confirmed"
    BY DEF StateOffersAWayOn
  <2>2. ids \in Ids /\ NamesOne(ids) /\ RowsFit
    BY <1>1, TurnTypes DEF AInv, ATypeOK, KnownIds, IdsNameOnePurchase, NamesOne
  <2>3. CASE ids.payment # 0
    <3>1. ids.payment \in PaymentIds
      BY <2>2, <2>3 DEF Ids
    <3>2. payments[ids.payment].status # "none" /\ payments[ids.payment].cart = ids.cart
      BY <2>2, <2>3 DEF NamesOne, Committed, ResolvedStatus
    <3>3. carts[ids.cart].status = "confirmed"
      BY <2>2, <3>1, <3>2 DEF RowsFit
    <3>4. DeriveState(ids) \notin {"BUILDING_CART", "AWAITING_CART_OK"}
      BY <2>3 DEF DeriveState, PaymentState
    <3> QED
      BY <3>3, <3>4
  <2>4. CASE ids.payment = 0 /\ ids.cart # 0
    <3>1. ids.cart \in CartIds
      BY <2>2, <2>4 DEF Ids
    <3>2. carts[ids.cart].status # "none" /\ carts[ids.cart].intent = ids.intent
      BY <2>2, <2>4 DEF NamesOne
    <3>3. intents[ids.intent].status = "confirmed"
      BY <2>2, <3>1, <3>2 DEF RowsFit
    <3>4. DeriveState(ids) \in {"EXECUTING_PAYMENT", "PAYMENT_FAILED"} =>
            carts[ids.cart].status = "confirmed"
      BY <2>4 DEF DeriveState, CartState
    <3> QED
      BY <3>3, <3>4
  <2>5. CASE ids.payment = 0 /\ ids.cart = 0
    BY <2>5 DEF DeriveState, IntentState
  <2> QED
    BY <2>3, <2>4, <2>5
<1> QED
  BY <1>1, AgentInvariance, PTL

-----------------------------------------------------------------------------
(* The logs. *)

\* No path takes a transition twice.
LEMMA PathsAreInjective ==
    ASSUME NEW status
    PROVE  /\ IsInjective(IntentPath(status))
           /\ IsInjective(CartPath(status))
           /\ IsInjective(PaymentPath(status))
<1> DEFINE drafted == Row("none", "draft", "customer")
           pending == Row("none", "pending", "system")
<1>1. IsInjective(<<>>)
  BY DEF IsInjective
<1>2. \A a : IsInjective(<<a>>)
  BY DEF IsInjective
<1>3. \A a, b : a # b => IsInjective(<<a, b>>)
  BY DEF IsInjective
<1>4. \A a, b, c : a # b /\ a # c /\ b # c => IsInjective(<<a, b, c>>)
  BY DEF IsInjective
<1>5. IntentPath(status) \in {<<>>, <<drafted>>, <<drafted, Row("draft", "confirmed", "customer")>>,
                              <<drafted, Row("draft", "expired", "system")>>}
  BY DEF IntentPath
<1>6. CartPath(status) \in {<<>>, <<drafted>>, <<drafted, Row("draft", "confirmed", "customer")>>}
  BY DEF CartPath
<1>7. PaymentPath(status) \in {<<>>, <<pending>>,
                               <<pending, Row("pending", "executed", "system")>>,
                               <<pending, Row("pending", "failed", "system")>>,
                               <<pending, Row("pending", "failed", "system"),
                                 Row("failed", "cancelled", "user")>>}
  BY DEF PaymentPath
<1>8. /\ drafted # Row("draft", "confirmed", "customer")
      /\ drafted # Row("draft", "expired", "system")
      /\ pending # Row("pending", "executed", "system")
      /\ pending # Row("pending", "failed", "system")
      /\ pending # Row("failed", "cancelled", "user")
      /\ Row("pending", "failed", "system") # Row("failed", "cancelled", "user")
  BY DEF Row
<1> HIDE DEF drafted, pending
<1> QED
  BY <1>1, <1>2, <1>3, <1>4, <1>5, <1>6, <1>7, <1>8

\* With turns one after the other, replaying an intent's log gives its status.
THEOREM IntentReplay == ASpec => []IntentLogsReplay
<1>1. ASSUME AInv
      PROVE  IntentLogsReplay
  <2>1. SUFFICES ASSUME NEW i \in IntentIds
                 PROVE  Replayed("intent", i, intents[i].status)
    BY DEF IntentLogsReplay
  <2>2. /\ intents[i].status \in {"none", "draft", "confirmed", "expired"}
        /\ audit[<<"intent", i>>] = IntentPath(intents[i].status)
    BY <1>1 DEF AInv, ATypeOK, MTypeOK, IntentRow, IntentStatus, LogsFit
  <2>3. IntentPath("none") = <<>>
    BY DEF IntentPath
  <2>4. /\ IntentPath("draft") # <<>> /\ Last(IntentPath("draft")).to = "draft"
        /\ IntentPath("confirmed") # <<>> /\ Last(IntentPath("confirmed")).to = "confirmed"
        /\ IntentPath("expired") # <<>> /\ Last(IntentPath("expired")).to = "expired"
    BY DEF IntentPath, Row, Last
  <2> QED
    BY <2>2, <2>3, <2>4 DEF Replayed
<1> QED
  BY <1>1, AgentInvariance, PTL

\* With turns one after the other, no mandate makes a transition twice.
THEOREM NoRepeats == ASpec => []NoTransitionRepeats
<1>1. ASSUME AInv
      PROVE  NoTransitionRepeats
  <2>1. SUFFICES ASSUME NEW m \in MandateKeys
                 PROVE  IsInjective(audit[m])
    BY DEF NoTransitionRepeats
  <2>2. \E status : audit[m] \in {IntentPath(status), CartPath(status), PaymentPath(status), <<>>}
    <3>1. CASE m \in {"intent"} \X IntentIds
      BY <1>1, <3>1 DEF AInv, LogsFit
    <3>2. CASE m \in {"cart"} \X CartIds
      BY <1>1, <3>2 DEF AInv, LogsFit
    <3>3. CASE m \in {"payment"} \X PaymentIds
      BY <1>1, <3>3 DEF AInv, LogsFit
    <3> QED
      BY <3>1, <3>2, <3>3 DEF MandateKeys
  <2>3. IsInjective(<<>>)
    BY DEF IsInjective
  <2> QED
    BY <2>2, <2>3, PathsAreInjective
<1> QED
  BY <1>1, AgentInvariance, PTL

-----------------------------------------------------------------------------
(* The mandate chain and the webhook, under the agent. *)

\* Whatever the model calls in whatever order, a payment is for the total of a
\* confirmed, signed cart, within the budget of a signed intent.
THEOREM AgentChainSafety == ASpec => []PaymentsFollowTheChain
<1>1. ASSUME AInv
      PROVE  PaymentsFollowTheChain
  <2>1. SUFFICES ASSUME NEW p \in PaymentIds, Committed(p)
                 PROVE  LET cart == carts[payments[p].cart]
                            intent == intents[cart.intent]
                        IN /\ cart.status = "confirmed" /\ cart.signed
                           /\ intent.signed
                           /\ payments[p].amount = cart.total
                           /\ WithinBudget(cart.total, intent.budget)
    BY DEF PaymentsFollowTheChain
  <2>2. RowsFit /\ payments[p].status # "none"
    BY <1>1, <2>1 DEF AInv, Committed, ResolvedStatus
  <2> DEFINE c == payments[p].cart
  <2>3. c \in CartIds /\ carts[c].status = "confirmed" /\ payments[p].amount = carts[c].total
    BY <2>2 DEF RowsFit
  <2>4. /\ carts[c].signed /\ carts[c].intent \in IntentIds
        /\ WithinBudget(carts[c].total, intents[carts[c].intent].budget)
        /\ intents[carts[c].intent].signed
    BY <2>2, <2>3 DEF RowsFit
  <2> QED
    BY <2>3, <2>4
<1> QED
  BY <1>1, AgentInvariance, PTL

\* No turn resolves a payment without an event the gateway signed for it.
THEOREM AgentWebhookTrust == ASpec => []ResolvedOnSignedEvent
<1>1. AInv => ResolvedOnSignedEvent
  BY DEF AInv, EventsFit
<1> QED
  BY <1>1, AgentInvariance, PTL

-----------------------------------------------------------------------------
(* What no step does. *)

\* A new intent is nobody's, and only drafts are confirmed or expire.
LEMMA SignedIntentsStay ==
    ASSUME AInv, [ANext]_avars
    PROVE  SignedIntentIsImmutable
<1>1. MTypeOK /\ RowsFit /\ ATypeOK /\ TurnFits
  BY DEF AInv, ATypeOK
<1>2. ASSUME NEW i \in IntentIds, NEW b, ProposeIntent(i, b)
      PROVE  SignedIntentIsImmutable
  <2>1. intents[i].status = "none" /\ \A j \in IntentIds : j # i => intents'[j] = intents[j]
    BY <1>1, <1>2 DEF ProposeIntent, CreateDraftIntent, IsNextId, MTypeOK
  <2> QED
    BY <1>1, <2>1 DEF SignedIntentIsImmutable, RowsFit
<1>3. ASSUME ConfirmIntent
      PROVE  SignedIntentIsImmutable
  <2> DEFINE i == turn.current.intent
  <2>1. i \in IntentIds /\ intents[i].status = "draft"
    BY <1>1, <1>3, Callable DEF ConfirmIntent
  <2>2. \A j \in IntentIds : j # i => intents'[j] = intents[j]
    BY <1>1, <1>3, <2>1 DEF ConfirmIntent, ExpireIntent, SignIntent, MTypeOK
  <2> QED
    BY <1>1, <2>1, <2>2 DEF SignedIntentIsImmutable, RowsFit
<1>4. ASSUME UNCHANGED intents
      PROVE  SignedIntentIsImmutable
  BY <1>4 DEF SignedIntentIsImmutable
<1>5. \/ \E i \in IntentIds, b \in Budgets \cup {NoBudget} : ProposeIntent(i, b)
      \/ ConfirmIntent
      \/ UNCHANGED intents
  <2>1. CASE CallTool
    BY <2>1
    DEF CallTool, CallWithoutEffect, ProposeCart, CreateDraftCart, ConfirmCart, SignCart,
        StartPayment, FlushPayment, Charged, ChargeErrorSwallowed, CancelFailedPayment, mvars
  <2>2. CASE TurnStep /\ ~CallTool
    BY <2>2
    DEF TurnStep, ModelCallsTools, EndRound, NextRound, AppendTurn, TurnDies, DeliverAnswer,
        LoseAnswer, mvars
  <2>3. CASE Customer
    BY <2>3 DEF Customer, SendMessage, LoadConversation, StartOver, mvars
  <2>4. CASE World
    BY <2>4 DEF World, OutliveTTL, PayFails, PaySucceeds, ProcessWebhook, mvars
  <2>5. CASE UNCHANGED avars
    BY <2>5 DEF avars
  <2> QED
    BY SMTT(30), <2>1, <2>2, <2>3, <2>4, <2>5 DEF ANext
<1> QED
  BY <1>2, <1>3, <1>4, <1>5

\* Whatever a turn repeats, and after the TTL too, a signed intent stays as it is.
THEOREM ConfirmedIntents == ASpec => AConfirmedIntentIsImmutable
<1>1. AInv /\ [ANext]_avars => [SignedIntentIsImmutable]_avars
  BY SignedIntentsStay
<1> QED
  BY <1>1, AgentInvariance, PTL DEF ASpec, AConfirmedIntentIsImmutable

=============================================================================
