------------------------------- MODULE Mandates -------------------------------
(***************************************************************************)
(* The mandate tables of the database, the transactions of the mandate     *)
(* engine (api/app/services) that write them, and the payment gateway as   *)
(* the engine sees it.                                                     *)
(*                                                                         *)
(* Every operator below that primes a variable is one database             *)
(* transaction, or one step of the world outside the program.  Who may run *)
(* one, and when, is decided by the modules that extend this one:          *)
(* MandateEngine (the HTTP and MCP surfaces, many requests at a time) and  *)
(* AgentTurn (the chat orchestrator).                                      *)
(***************************************************************************)
EXTENDS Integers, Sequences, SequencesExt

CONSTANTS
    MaxIntents, MaxCarts, MaxPayments,  \* bounds on the rows ever inserted
    Budgets,      \* the values of structured_json["budget_paise"] that are not null
    NoBudget,     \* budget_paise = None
    CartTotals    \* cart totals: what the prices, quantities and shipping add up to

ASSUME BoundsAssumption ==
    MaxIntents \in Nat /\ MaxCarts \in Nat /\ MaxPayments \in Nat
ASSUME AmountsAssumption ==
    Budgets \subseteq Nat /\ CartTotals \subseteq Nat
ASSUME NoBudgetAssumption == NoBudget \notin Nat

VARIABLES
    intents,   \* intent_mandates
    carts,     \* cart_mandates
    payments,  \* payment_mandates
    audit,     \* audit_log: the rows of each mandate, in created_at order
    stale,     \* the intents whose created_at is more than the TTL ago
    charge,    \* the gateway's order or payment link for each payment row
    events     \* signed webhook calls the gateway has produced; it may repeat,
               \* reorder and delay them, so none is ever removed

mvars == <<intents, carts, payments, audit, stale, charge, events>>

IntentIds == 1..MaxIntents
CartIds == 1..MaxCarts
PaymentIds == 1..MaxPayments

\* A mandate as audit_log names it: mandate_type and mandate_id.
MandateKeys == ({"intent"} \X IntentIds) \cup ({"cart"} \X CartIds)
                  \cup ({"payment"} \X PaymentIds)

\* "none" is a row not inserted yet.  A payment row is "uncommitted" from its
\* flush to the commit, which no other transaction sees, and "absent" when that
\* transaction was rolled back (its id is then used up: the gateway may know it).
IntentStatus == {"none", "draft", "confirmed", "expired"}
CartStatus == {"none", "draft", "confirmed"}
ResolvedStatus == {"executed", "failed", "cancelled"}
PaymentStatus == {"none", "uncommitted", "absent", "pending"} \cup ResolvedStatus

IntentRow == [status : IntentStatus, budget : Budgets \cup {NoBudget}, signed : BOOLEAN]
CartRow == [status : CartStatus, intent : IntentIds \cup {0},
            total : CartTotals \cup {0}, signed : BOOLEAN]
PaymentRow == [status : PaymentStatus, cart : CartIds \cup {0},
               amount : CartTotals \cup {0}, verified : BOOLEAN]
LoggedStatus == {"draft", "confirmed", "expired", "pending"} \cup ResolvedStatus
AuditRow == [from : LoggedStatus \cup {"none"}, to : LoggedStatus,
             actor : {"customer", "system", "user"}]

\* Slip: the event's name is stored as it came.
EventStatusRaw == [captured |-> "captured", failed |-> "failed"]
EventStatus == [captured |-> "executed", failed |-> "failed"]
Events == (DOMAIN EventStatus) \X PaymentIds

MTypeOK ==
    /\ intents \in [IntentIds -> IntentRow]
    /\ carts \in [CartIds -> CartRow]
    /\ payments \in [PaymentIds -> PaymentRow]
    /\ audit \in [MandateKeys -> Seq(AuditRow)]
    /\ stale \subseteq IntentIds
    /\ charge \in [PaymentIds -> {"none", "open", "paid"}]
    /\ events \subseteq Events

MInit ==
    /\ intents = [i \in IntentIds |->
                    [status |-> "none", budget |-> NoBudget, signed |-> FALSE]]
    /\ carts = [c \in CartIds |->
                  [status |-> "none", intent |-> 0, total |-> 0, signed |-> FALSE]]
    /\ payments = [p \in PaymentIds |->
                     [status |-> "none", cart |-> 0, amount |-> 0, verified |-> FALSE]]
    /\ audit = [m \in MandateKeys |-> <<>>]
    /\ stale = {}
    /\ charge = [p \in PaymentIds |-> "none"]
    /\ events = {}

-----------------------------------------------------------------------------
(* Helpers. *)

\* The program's ids are random; here they count the rows in insertion order.
IsNextId(table, id) ==
    /\ table[id].status = "none"
    /\ \A earlier \in 1..(id - 1) : table[earlier].status # "none"

WithinBudget(total, budget) == budget # NoBudget => total <= budget

\* A payment row other transactions can read.
Committed(p) == payments[p].status \in {"pending"} \cup ResolvedStatus

(***************************************************************************)
(* The one row a transition inserts.  created_at is read from the clock    *)
(* when the row is flushed, anywhere between the request's read of the     *)
(* mandate, when its log had "seen" rows, and its commit: rows committed   *)
(* by others meanwhile may carry a later created_at.                       *)
(***************************************************************************)
RecordTransition(kind, id, from, to, actor, seen) ==
    \E pos \in (seen + 1)..(Len(audit[<<kind, id>>]) + 1) :
        audit' = [audit EXCEPT ![<<kind, id>>] =
                    InsertAt(@, pos, [from |-> from, to |-> to, actor |-> actor])]

-----------------------------------------------------------------------------
(* Intents. *)

CreateDraftIntent(i, budget) ==
    /\ IsNextId(intents, i)
    /\ intents' = [intents EXCEPT ![i] =
                     [status |-> "draft", budget |-> budget, signed |-> FALSE]]
    /\ RecordTransition("intent", i, "none", "draft", "customer", 0)
    /\ UNCHANGED <<carts, payments, stale, charge, events>>

\* The commits of confirm_intent.  Each is an UPDATE by primary key of the
\* columns the request changed, whatever the row has become since it was read.
SignIntent(i, seen) ==
    /\ intents' = [intents EXCEPT ![i].status = "confirmed", ![i].signed = TRUE]
    /\ RecordTransition("intent", i, "draft", "confirmed", "customer", seen)
    /\ UNCHANGED <<carts, payments, stale, charge, events>>

\* Slips: the audit row without the update, and the update without it.
ExpireIntentOnlyLogged(i, seen) ==
    /\ RecordTransition("intent", i, "draft", "expired", "system", seen)
    /\ UNCHANGED <<intents, carts, payments, stale, charge, events>>

ExpireIntentUnlogged(i, seen) ==
    /\ intents' = [intents EXCEPT ![i].status = "expired"]
    /\ UNCHANGED <<carts, payments, audit, stale, charge, events>>

ExpireIntent(i, seen) ==
    /\ intents' = [intents EXCEPT ![i].status = "expired"]
    /\ RecordTransition("intent", i, "draft", "expired", "system", seen)
    /\ UNCHANGED <<carts, payments, stale, charge, events>>

\* Time passes: the oldest intents are the first to outlive the TTL.
OutliveTTL(i) ==
    /\ intents[i].status # "none"
    /\ i \notin stale
    /\ 1..(i - 1) \subseteq stale
    /\ stale' = stale \cup {i}
    /\ UNCHANGED <<intents, carts, payments, audit, charge, events>>

-----------------------------------------------------------------------------
(* Carts. *)

\* Slip: any intent will do.
CreateDraftCartOnAnyIntent(c, i, total) ==
    /\ intents[i].status # "none"
    /\ IsNextId(carts, c)
    /\ carts' = [carts EXCEPT ![c] =
                   [status |-> "draft", intent |-> i, total |-> total, signed |-> FALSE]]
    /\ RecordTransition("cart", c, "none", "draft", "customer", 0)
    /\ UNCHANGED <<intents, payments, stale, charge, events>>

CreateDraftCart(c, i, total) ==
    /\ intents[i].status = "confirmed"
    /\ IsNextId(carts, c)
    /\ carts' = [carts EXCEPT ![c] =
                   [status |-> "draft", intent |-> i, total |-> total, signed |-> FALSE]]
    /\ RecordTransition("cart", c, "none", "draft", "customer", 0)
    /\ UNCHANGED <<intents, payments, stale, charge, events>>

\* Slip: the budget is not checked again.
CartConfirmableUnbudgeted(c) == carts[c].status = "draft"

\* The conditions of confirm_cart, and its commit.
CartConfirmable(c) ==
    /\ carts[c].status = "draft"
    /\ WithinBudget(carts[c].total, intents[carts[c].intent].budget)

SignCart(c, seen) ==
    /\ carts' = [carts EXCEPT ![c].status = "confirmed", ![c].signed = TRUE]
    /\ RecordTransition("cart", c, "draft", "confirmed", "customer", seen)
    /\ UNCHANGED <<intents, payments, stale, charge, events>>

-----------------------------------------------------------------------------
(* Payments. *)

\* create_payment_for_cart up to its flush, the call of the gateway, the commit.
FlushPayment(p, c) ==
    /\ carts[c].status = "confirmed"
    /\ IsNextId(payments, p)
    /\ payments' = [payments EXCEPT ![p] =
                      [status |-> "uncommitted", cart |-> c,
                       amount |-> carts[c].total, verified |-> FALSE]]
    /\ UNCHANGED <<intents, carts, audit, stale, charge, events>>

CreateCharge(p) ==
    /\ charge' = [charge EXCEPT ![p] = "open"]
    /\ UNCHANGED <<intents, carts, payments, audit, stale, events>>

CommitPayment(p) ==
    /\ payments' = [payments EXCEPT ![p].status = "pending"]
    /\ RecordTransition("payment", p, "none", "pending", "system", 0)
    /\ UNCHANGED <<intents, carts, stale, charge, events>>

\* Slip: the gateway's exception is swallowed and the session commits.
RollBackPaymentSwallowed(p) ==
    /\ payments' = [payments EXCEPT ![p].status = "pending"]
    /\ UNCHANGED <<intents, carts, audit, stale, charge, events>>

RollBackPayment(p) ==
    /\ payments' = [payments EXCEPT ![p].status = "absent"]
    /\ UNCHANGED <<intents, carts, audit, stale, charge, events>>

\* The commit of cancel_payment.  The gateway's charge stays as it is.
CancelPayment(p, seen) ==
    /\ payments' = [payments EXCEPT ![p].status = "cancelled"]
    /\ RecordTransition("payment", p, "failed", "cancelled", "user", seen)
    /\ UNCHANGED <<intents, carts, stale, charge, events>>

\* Slip: a late event is applied too.
ProcessWebhookAlways(event, p) ==
    /\ <<event, p>> \in events
    /\ payments' = [payments EXCEPT ![p].status = EventStatus[event], ![p].verified = TRUE]
    /\ RecordTransition("payment", p, payments[p].status, EventStatus[event],
                        "system", Len(audit[<<"payment", p>>]))
    /\ UNCHANGED <<intents, carts, stale, charge, events>>

(***************************************************************************)
(* A webhook call with a valid signature.  A call for a row that does not  *)
(* exist, or that is already resolved, changes nothing.  The endpoint runs *)
(* on the event loop without an await after its read, and no other code    *)
(* writes a pending row, so the whole call is one step.                    *)
(***************************************************************************)
ProcessWebhook(event, p) ==
    /\ <<event, p>> \in events
    /\ IF payments[p].status = "pending"
       THEN /\ payments' = [payments EXCEPT ![p].status = EventStatus[event],
                                            ![p].verified = TRUE]
            /\ RecordTransition("payment", p, "pending", EventStatus[event],
                                "system", Len(audit[<<"payment", p>>]))
            /\ UNCHANGED <<intents, carts, stale, charge, events>>
       ELSE UNCHANGED mvars

-----------------------------------------------------------------------------
(* The gateway and the customer in front of its widget (outside src/).  The *)
(* charge's reference reaches the customer only in the response, after the  *)
(* commit.  An attempt may fail any number of times before one succeeds:    *)
(* the order and its notes stay the same.                                   *)

PayFails(p) ==
    /\ charge[p] = "open" /\ Committed(p)
    /\ events' = events \cup {<<"failed", p>>}
    /\ UNCHANGED <<intents, carts, payments, audit, stale, charge>>

PaySucceeds(p) ==
    /\ charge[p] = "open" /\ Committed(p)
    /\ charge' = [charge EXCEPT ![p] = "paid"]
    /\ events' = events \cup {<<"captured", p>>}
    /\ UNCHANGED <<intents, carts, payments, audit, stale>>

-----------------------------------------------------------------------------
(* What the customer's order history (services/orders.py) shows of an intent: *)
(* its newest cart, and the newest payment of that one; 0 is nothing.          *)

ListedCart(i) ==
    Max({0} \cup {c \in CartIds : carts[c].status # "none" /\ carts[c].intent = i})

ListedPayment(i) ==
    Max({0} \cup {p \in PaymentIds : Committed(p) /\ payments[p].cart = ListedCart(i)})

-----------------------------------------------------------------------------
(***************************************************************************)
(* Properties of the tables, whoever runs the transactions.                *)
(***************************************************************************)

\* The mandate chain (README "The mandate chain is real"): whatever requests
\* overlapped, a payment is for exactly the total of a confirmed, signed cart,
\* that cart's intent was signed, and the total is within the intent's budget.
PaymentsFollowTheChain ==
    \A p \in PaymentIds : Committed(p) =>
        LET cart == carts[payments[p].cart]
            intent == intents[cart.intent]
        IN /\ cart.status = "confirmed" /\ cart.signed
           /\ intent.signed
           /\ payments[p].amount = cart.total
           /\ WithinBudget(cart.total, intent.budget)

\* "Reconstructing any transaction means ... replaying the rows" (README): the
\* status of a mandate is where its audit rows, in created_at order, end.
Replayed(kind, id, status) ==
    LET log == audit[<<kind, id>>]
    IN status = (IF log = <<>> THEN "none" ELSE Last(log).to)

CartAndPaymentLogsReplay ==
    /\ \A c \in CartIds : Replayed("cart", c, carts[c].status)
    /\ \A p \in PaymentIds :
          IF Committed(p) THEN Replayed("payment", p, payments[p].status)
                          ELSE Replayed("payment", p, "none")

IntentLogsReplay ==
    \A i \in IntentIds : Replayed("intent", i, intents[i].status)

\* "Cannot confirm ... in status 'confirmed'" and its kin: with the requests one
\* after the other, no mandate makes the same transition twice.
NoTransitionRepeats == \A m \in MandateKeys : IsInjective(audit[m])

\* Webhook trust (README): no payment is executed or failed, and none is
\* cancelled after a failure, unless the gateway signed the matching event for
\* that very payment.
ResolvedOnSignedEvent ==
    \A p \in PaymentIds :
        /\ payments[p].status = "executed" => <<"captured", p>> \in events
        /\ payments[p].status \in {"failed", "cancelled"} => <<"failed", p>> \in events
        /\ payments[p].verified <=> payments[p].status \in ResolvedStatus

\* No status of a mandate changes silently: each step that changes one appends
\* exactly one row to that mandate's log and the row ends in the new status;
\* no step takes a row away.
ChangeIsLogged(kind, id, old, new) ==
    LET m == <<kind, id>>
    IN /\ Len(audit'[m]) >= Len(audit[m])
       /\ old # new => /\ Len(audit'[m]) = Len(audit[m]) + 1
                       /\ \E k \in DOMAIN audit'[m] : audit'[m][k].to = new

NoSilentChange ==
    /\ \A i \in IntentIds :
          ChangeIsLogged("intent", i, intents[i].status, intents'[i].status)
    /\ \A c \in CartIds : ChangeIsLogged("cart", c, carts[c].status, carts'[c].status)
    /\ \A p \in PaymentIds : Committed(p)' =>
          ChangeIsLogged("payment", p, payments[p].status, payments'[p].status)

\* A payment's resolution is final: whatever webhooks are repeated, reordered or
\* late, and whatever cancellations overlap, "executed" and "cancelled" stay,
\* and "failed" becomes nothing but "cancelled".
ResolutionIsFinal ==
    \A p \in PaymentIds :
        /\ payments[p].status \in {"executed", "cancelled"} =>
              payments'[p].status = payments[p].status
        /\ payments[p].status = "failed" =>
              payments'[p].status \in {"failed", "cancelled"}

\* "Only after the human confirms does the Intent become an HMAC-signed,
\* immutable row" (intent_mandate.py:71-72): no step changes a signed intent.
SignedIntentIsImmutable ==
    \A i \in IntentIds : intents[i].signed => intents'[i] = intents[i]

\* "A stale intent cannot be used to build a cart" (README.md:226).
NoCartOnStaleIntent ==
    \A c \in CartIds :
        carts[c].status = "none" /\ carts'[c].status # "none" =>
            carts'[c].intent \notin stale

=============================================================================
