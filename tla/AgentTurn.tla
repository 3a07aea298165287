------------------------------ MODULE AgentTurn ------------------------------
(***************************************************************************)
(* One conversation with the shopping agent: the turns of                  *)
(* orchestrator/orchestrator.py behind routers/chat.py, the state gate of  *)
(* orchestrator/state.py and tools.py, the stored conversation             *)
(* (services/chat_history.py) and the ids the browser keeps                *)
(* (web/src/stores/conversation.ts).  Turns follow one another; what       *)
(* requests do to each other inside a transaction is in MandateEngine.     *)
(*                                                                         *)
(* A turn runs in rounds.  In each the model is asked with the tools of    *)
(* the state derived before the round, and answers with a reply or with    *)
(* some tool calls, which run one after the other in one session.          *)
(***************************************************************************)
EXTENDS Mandates

CONSTANTS
    MaxRounds,   \* MAX_ROUNDS
    MaxCalls     \* bound on the tool calls of one answer of the model

ASSUME RoundsAssumption == MaxRounds \in Nat \ {0} /\ MaxCalls \in Nat \ {0}

VARIABLES
    browser,        \* the ids in the browser's store
    conversation,   \* the ids in the conversations row
    turn            \* the turn being run

avars == <<intents, carts, payments, audit, stale, charge, events,
           browser, conversation, turn>>

\* MandateContext; 0 is None.
Ids == [intent : IntentIds \cup {0}, cart : CartIds \cup {0}, payment : PaymentIds \cup {0}]
NoIds == [intent |-> 0, cart |-> 0, payment |-> 0]

AgentState == {"DRAFTING_INTENT", "AWAITING_INTENT_OK", "BUILDING_CART",
               "AWAITING_CART_OK", "EXECUTING_PAYMENT", "PAYMENT_FAILED", "TERMINAL"}

PaymentState(p) ==
    CASE payments[p].status \in {"executed", "cancelled"} -> "TERMINAL"
      [] payments[p].status = "failed" -> "PAYMENT_FAILED"
      [] OTHER -> "EXECUTING_PAYMENT"

CartState(c) ==
    IF carts[c].status = "confirmed" THEN "EXECUTING_PAYMENT" ELSE "AWAITING_CART_OK"

\* Slip: whatever is not a draft any more counts as confirmed.
IntentStateNotDraft(i) ==
    IF intents[i].status = "draft" THEN "AWAITING_INTENT_OK" ELSE "BUILDING_CART"

IntentState(i) ==
    IF intents[i].status = "confirmed" THEN "BUILDING_CART" ELSE "AWAITING_INTENT_OK"

DeriveState(ids) ==
    CASE ids.payment # 0 -> PaymentState(ids.payment)
      [] ids.payment = 0 /\ ids.cart # 0 -> CartState(ids.cart)
      [] ids.payment = 0 /\ ids.cart = 0 /\ ids.intent # 0 -> IntentState(ids.intent)
      [] OTHER -> "DRAFTING_INTENT"

\* Slip: the intent can be proposed again until the cart is confirmed.
TOOLS_BY_STATE_LOOSE ==
    [DRAFTING_INTENT |-> {"propose_intent"},
     AWAITING_INTENT_OK |-> {"propose_intent", "confirm_intent"},
     BUILDING_CART |-> {"propose_cart"},
     AWAITING_CART_OK |-> {"propose_intent", "propose_cart", "confirm_cart"},
     EXECUTING_PAYMENT |-> {"create_payment"},
     PAYMENT_FAILED |-> {"retry_payment", "cancel_payment"},
     TERMINAL |-> {}]

\* The tools that change a mandate; the other tools of each state only read.
TOOLS_BY_STATE ==
    [DRAFTING_INTENT |-> {"propose_intent"},
     AWAITING_INTENT_OK |-> {"propose_intent", "confirm_intent"},
     BUILDING_CART |-> {"propose_cart"},
     AWAITING_CART_OK |-> {"propose_cart", "confirm_cart"},
     EXECUTING_PAYMENT |-> {"create_payment"},
     PAYMENT_FAILED |-> {"retry_payment", "cancel_payment"},
     TERMINAL |-> {}]

\* request is the context the browser sent and current what the tools have made
\* of it; gate is the state whose tools the round may call; flushed are the
\* payment rows the session has inserted and not committed.
Running == {"asking", "calling", "charging", "ending"}
Turn == [phase : {"idle", "answered"} \cup Running, request : Ids, current : Ids,
         gate : AgentState, round : 0..MaxRounds, calls : 0..MaxCalls,
         flushed : SUBSET PaymentIds]
NoTurn == [phase |-> "idle", request |-> NoIds, current |-> NoIds,
           gate |-> "DRAFTING_INTENT", round |-> 0, calls |-> 0, flushed |-> {}]

ATypeOK ==
    /\ MTypeOK
    /\ browser \in Ids
    /\ conversation \in Ids
    /\ turn \in Turn

AInit ==
    /\ MInit
    /\ browser = NoIds
    /\ conversation = NoIds
    /\ turn = NoTurn

-----------------------------------------------------------------------------
(* A turn and its rounds. *)

SendMessage ==
    /\ turn.phase = "idle"
    /\ turn' = [NoTurn EXCEPT !.phase = "asking", !.request = browser, !.current = browser,
                              !.gate = DeriveState(browser)]
    /\ UNCHANGED <<mvars, browser, conversation>>

ModelCallsTools ==
    /\ turn.phase = "asking"
    /\ \E n \in 1..MaxCalls : turn' = [turn EXCEPT !.phase = "calling", !.calls = n]
    /\ UNCHANGED <<mvars, browser, conversation>>

NextRound(gate, round, last) ==
    /\ turn.phase = "calling" /\ turn.calls = 0
    /\ turn' = [turn EXCEPT !.phase = IF last THEN "ending" ELSE "asking",
                            !.gate = gate, !.round = round]
    /\ UNCHANGED <<mvars, browser, conversation>>

\* Slips: one round too many, rounds that are not counted, and a gate derived
\* only at the start of the turn.
EndRoundLate ==
    NextRound(DeriveState(turn.current), turn.round + 1, turn.round = MaxRounds)
EndRoundUncounted == NextRound(DeriveState(turn.current), turn.round, FALSE)
EndRoundOldGate == NextRound(turn.gate, turn.round + 1, turn.round + 1 = MaxRounds)

EndRound ==
    NextRound(DeriveState(turn.current), turn.round + 1, turn.round + 1 = MaxRounds)

-----------------------------------------------------------------------------
(* The handlers of the tools.  A call of a tool that only reads, of one the *)
(* gate does not offer, or of one whose service refuses, changes nothing.   *)

Offered(tool) ==
    turn.phase = "calling" /\ turn.calls > 0 /\ tool \in TOOLS_BY_STATE[turn.gate]

Called(ids) ==
    /\ turn' = [turn EXCEPT !.current = ids, !.calls = @ - 1]
    /\ UNCHANGED <<browser, conversation>>

CallWithoutEffect ==
    /\ turn.phase = "calling" /\ turn.calls > 0
    /\ Called(turn.current)
    /\ UNCHANGED mvars

ProposeIntent(i, budget) ==
    /\ Offered("propose_intent")
    /\ CreateDraftIntent(i, budget)
    /\ Called([turn.current EXCEPT !.intent = i])

\* Slip: the service does not look at the status.
ConfirmIntentAnyStatus ==
    LET i == turn.current.intent
        seen == Len(audit[<<"intent", i>>])
    IN /\ Offered("confirm_intent")
       /\ IF i \in stale THEN ExpireIntent(i, seen) ELSE SignIntent(i, seen)
       /\ Called(turn.current)

\* Slip: the TTL is checked before the status.
ConfirmIntentTtlFirst ==
    LET i == turn.current.intent
        seen == Len(audit[<<"intent", i>>])
    IN /\ Offered("confirm_intent")
       /\ \/ i \in stale /\ ExpireIntent(i, seen)
          \/ i \notin stale /\ intents[i].status = "draft" /\ SignIntent(i, seen)
       /\ Called(turn.current)

ConfirmIntent ==
    LET i == turn.current.intent
        seen == Len(audit[<<"intent", i>>])
    IN /\ Offered("confirm_intent")
       /\ intents[i].status = "draft"
       /\ IF i \in stale THEN ExpireIntent(i, seen) ELSE SignIntent(i, seen)
       /\ Called(turn.current)

ProposeCart(c, total) ==
    /\ Offered("propose_cart")
    /\ CreateDraftCart(c, turn.current.intent, total)
    /\ Called([turn.current EXCEPT !.cart = c])

ConfirmCart ==
    LET c == turn.current.cart
    IN /\ Offered("confirm_cart")
       /\ CartConfirmable(c)
       /\ SignCart(c, Len(audit[<<"cart", c>>]))
       /\ Called(turn.current)

\* create_payment and retry_payment: the flush, and what comes of the call of
\* the gateway.  The next commit of the session takes along every row it has
\* flushed; when the turn dies they are rolled back.
StartPayment(p) ==
    /\ Offered("create_payment") \/ Offered("retry_payment")
    /\ FlushPayment(p, turn.current.cart)
    /\ turn' = [turn EXCEPT !.phase = "charging", !.flushed = @ \cup {p}]
    /\ UNCHANGED <<browser, conversation>>

SettleFlushed(status) ==
    [p \in PaymentIds |->
        IF p \in turn.flushed THEN [payments[p] EXCEPT !.status = status] ELSE payments[p]]

Charged(p) ==
    /\ turn.phase = "charging"
    /\ p \in turn.flushed /\ \A q \in turn.flushed : q <= p
    /\ payments' = SettleFlushed("pending")
    /\ charge' = [charge EXCEPT ![p] = "open"]
    /\ RecordTransition("payment", p, "none", "pending", "system", 0)
    /\ turn' = [turn EXCEPT !.phase = "calling", !.current.payment = p, !.calls = @ - 1,
                            !.flushed = {}]
    /\ UNCHANGED <<intents, carts, stale, events, browser, conversation>>

\* A LookupError or ValueError of the adapter (no "id" in the order, a body that
\* is not JSON) is caught by run_turn, which does not roll back.
ChargeErrorSwallowed ==
    /\ turn.phase = "charging"
    /\ turn' = [turn EXCEPT !.phase = "calling", !.calls = @ - 1]
    /\ UNCHANGED <<mvars, browser, conversation>>

CancelFailedPayment ==
    LET p == turn.current.payment
    IN /\ Offered("cancel_payment")
       /\ payments[p].status = "failed"
       /\ payments' = [SettleFlushed("pending") EXCEPT ![p].status = "cancelled"]
       /\ RecordTransition("payment", p, "failed", "cancelled", "user",
                           Len(audit[<<"payment", p>>]))
       /\ turn' = [turn EXCEPT !.calls = @ - 1, !.flushed = {}]
       /\ UNCHANGED <<intents, carts, stale, charge, events, browser, conversation>>

-----------------------------------------------------------------------------
(* The end of a turn. *)

\* The model replies, or the rounds are used up and it is asked for a summary;
\* append_turn stores the ids with the turn.
AppendTurn ==
    /\ turn.phase \in {"asking", "ending"}
    /\ conversation' = turn.current
    /\ payments' = SettleFlushed("pending")
    /\ turn' = [NoTurn EXCEPT !.phase = "answered", !.current = turn.current]
    /\ UNCHANGED <<intents, carts, audit, stale, charge, events, browser>>

\* Any other exception (the model's API, arguments that are not JSON, the
\* gateway), or a restart.  What the turn's tools have committed stays.
TurnDies ==
    /\ turn.phase \in Running
    /\ payments' = SettleFlushed("absent")
    /\ turn' = NoTurn
    /\ UNCHANGED <<intents, carts, audit, stale, charge, events, browser, conversation>>

\* The browser takes over the ids that are not null, or never gets the answer.
Kept(new, old) == IF new # 0 THEN new ELSE old

DeliverAnswer ==
    /\ turn.phase = "answered"
    /\ browser' = [intent |-> Kept(turn.current.intent, browser.intent),
                   cart |-> Kept(turn.current.cart, browser.cart),
                   payment |-> Kept(turn.current.payment, browser.payment)]
    /\ turn' = NoTurn
    /\ UNCHANGED <<mvars, conversation>>

LoseAnswer ==
    /\ turn.phase = "answered"
    /\ turn' = NoTurn
    /\ UNCHANGED <<mvars, browser, conversation>>

LoadConversation ==
    /\ turn.phase = "idle"
    /\ browser' = conversation
    /\ UNCHANGED <<mvars, conversation, turn>>

\* The next message creates another conversations row.
StartOver ==
    /\ turn.phase = "idle"
    /\ browser' = NoIds
    /\ conversation' = NoIds
    /\ UNCHANGED <<mvars, turn>>

-----------------------------------------------------------------------------

CallTool ==
    \/ CallWithoutEffect
    \/ \E i \in IntentIds, b \in Budgets \cup {NoBudget} : ProposeIntent(i, b)
    \/ ConfirmIntent
    \/ \E c \in CartIds, t \in CartTotals : ProposeCart(c, t)
    \/ ConfirmCart
    \/ \E p \in PaymentIds : StartPayment(p)
    \/ \E p \in PaymentIds : Charged(p)
    \/ ChargeErrorSwallowed
    \/ CancelFailedPayment

TurnStep ==
    \/ ModelCallsTools
    \/ CallTool
    \/ EndRound
    \/ AppendTurn
    \/ TurnDies
    \/ DeliverAnswer
    \/ LoseAnswer

Customer == SendMessage \/ LoadConversation \/ StartOver

World ==
    /\ \/ \E i \in IntentIds : OutliveTTL(i)
       \/ \E p \in PaymentIds : PayFails(p)
       \/ \E p \in PaymentIds : PaySucceeds(p)
       \/ \E event \in DOMAIN EventStatus, p \in PaymentIds : ProcessWebhook(event, p)
    /\ UNCHANGED <<browser, conversation, turn>>

ANext == TurnStep \/ Customer \/ World

ASpec == AInit /\ [][ANext]_avars

\* The thread of a request runs on, and every call it makes returns or raises.
AFairSpec == ASpec /\ WF_avars(TurnStep)

-----------------------------------------------------------------------------
(***************************************************************************)
(* Properties.                                                             *)
(***************************************************************************)

KnownIds == {browser, conversation, turn.request, turn.current}

\* Wherever ids are kept they name one purchase: the payment is for the cart and
\* the cart for the intent, although answers are lost, turns die halfway and
\* drafts are replaced.  All of them are committed rows, so that no later turn
\* ends in "not found" (state.py:31, 41, 49).
IdsNameOnePurchase ==
    \A ids \in KnownIds :
        /\ ids.payment # 0 => Committed(ids.payment) /\ payments[ids.payment].cart = ids.cart
        /\ ids.cart # 0 => carts[ids.cart].status # "none" /\ carts[ids.cart].intent = ids.intent
        /\ ids.intent # 0 => intents[ids.intent].status # "none"

\* Whatever happened before, the state a conversation resumes in offers a tool
\* the services will not refuse for good: a cart can be proposed where
\* propose_cart is, a payment created where create_payment or retry_payment is.
StateOffersAWayOn ==
    \A ids \in KnownIds :
        /\ DeriveState(ids) \in {"BUILDING_CART", "AWAITING_CART_OK"} =>
              intents[ids.intent].status = "confirmed"
        /\ DeriveState(ids) \in {"EXECUTING_PAYMENT", "PAYMENT_FAILED"} =>
              carts[ids.cart].status = "confirmed"

\* What the gate keeps of the README's diagram, for any number of calls in a round:
\* every call ends where an edge of the state the round was gated by leads, the next
\* round is gated by where that is (orchestrator.py:144-145, 188-219), a turn begins
\* in a remembered state, and what is remembered moves along the same edges,
\* whatever is lost and whenever the webhook comes.
Gated == INSTANCE GatedFlow WITH
    state <- IF turn.phase \in Running THEN DeriveState(turn.current) ELSE "NONE",
    memory <- {DeriveState(browser), DeriveState(conversation)},
    gate <- IF turn.phase \in {"calling", "charging"} THEN turn.gate ELSE "NONE"

ImplementsGatedFlow == Gated!GSpec

\* The diagram itself (README.md:193-205), of which the orchestrator says that the
\* model "can't re-trigger it, only move forward" (orchestrator.py:119-123): a turn
\* goes along the edges and never back.
Flow == INSTANCE PurchaseFlow WITH
    state <- IF turn.phase \in Running THEN DeriveState(turn.current) ELSE "NONE",
    memory <- {DeriveState(browser), DeriveState(conversation)}

ImplementsPurchaseFlow == Flow!FSpec

\* "MAX_ROUNDS is a pure safety valve against a model that keeps calling tools
\* without ever settling on a reply" (orchestrator.py:124-125): turns end.
TurnEnds == turn.phase # "idle" ~> turn.phase = "idle"

\* "every mandate transition is an INSERT here" (audit.py:1-2), in a session
\* that goes on after a tool has failed.
ATransitionsLogged == [][NoSilentChange]_avars

\* The immutability promise of confirm_intent (intent_mandate.py:71-72), with its
\* calls one after the other: two in one answer of the model, the second after the
\* TTL or in a turn that repeats a lost one, leave a signed intent as it is.
AConfirmedIntentIsImmutable == [][SignedIntentIsImmutable]_avars

\* Order history lists the newest cart of an intent, "since in practice an intent
\* has at most one live cart at a time" (orders.py:15-17): the purchase a
\* conversation has paid for, or is about to, is the one it lists.
OrderShowsThePurchase ==
    \A ids \in {browser, conversation} : ids.payment # 0 =>
        ListedCart(ids.intent) = ids.cart /\ ListedPayment(ids.intent) # 0

=============================================================================
