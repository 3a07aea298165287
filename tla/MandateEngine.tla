---------------------------- MODULE MandateEngine ----------------------------
(***************************************************************************)
(* The mandate engine under concurrent requests: the HTTP endpoints of     *)
(* api/app/routers (intent, cart, payment, webhooks) and the tools of      *)
(* mcp_server, all running the functions of api/app/services against one   *)
(* database at READ COMMITTED, a session for each request.                 *)
(*                                                                         *)
(* A worker is a thread of the API's pool or the MCP server's process.  A  *)
(* function that reads a row and then updates it takes two steps, its read *)
(* with every check made on it and its commit, so that other requests may  *)
(* fall between them.  A function that only inserts takes one step.        *)
(* create_payment_for_cart takes three: it calls the gateway between its   *)
(* flush and its commit.                                                   *)
(***************************************************************************)
EXTENDS Mandates

CONSTANT Workers

VARIABLE req   \* what each worker has read and decided, and not committed yet

vars == <<intents, carts, payments, audit, stale, charge, events, req>>

\* op is the decision taken at the read, id the row it is about, and seen how
\* many rows that mandate's audit log had then.
Idle == [op |-> "idle", id |-> 0, seen |-> 0]
IntentOps == {"sign_intent", "expire_intent"}
PaymentOps == {"charge_payment", "commit_payment"}
Request ==
    {Idle}
    \cup [op : IntentOps, id : IntentIds, seen : Nat]
    \cup [op : {"sign_cart"}, id : CartIds, seen : Nat]
    \cup [op : PaymentOps \cup {"cancel_payment"}, id : PaymentIds, seen : Nat]

Begin(w, op, kind, id) ==
    /\ req[w] = Idle
    /\ req' = [req EXCEPT ![w] =
                 [op |-> op, id |-> id, seen |-> Len(audit[<<kind, id>>])]]

Pending(w, op) == req[w].op = op

End(w) == req' = [req EXCEPT ![w] = Idle]

-----------------------------------------------------------------------------
(* confirm_intent. *)

ConfirmIntentRead(w, i) ==
    /\ intents[i].status = "draft"
    /\ Begin(w, IF i \in stale THEN "expire_intent" ELSE "sign_intent", "intent", i)
    /\ UNCHANGED mvars

ConfirmIntentCommit(w) ==
    /\ \/ Pending(w, "sign_intent") /\ SignIntent(req[w].id, req[w].seen)
       \/ Pending(w, "expire_intent") /\ ExpireIntent(req[w].id, req[w].seen)
    /\ End(w)

-----------------------------------------------------------------------------
(* confirm_cart. *)

ConfirmCartRead(w, c) ==
    /\ CartConfirmable(c)
    /\ Begin(w, "sign_cart", "cart", c)
    /\ UNCHANGED mvars

ConfirmCartCommit(w) ==
    /\ Pending(w, "sign_cart")
    /\ SignCart(req[w].id, req[w].seen)
    /\ End(w)

-----------------------------------------------------------------------------
(* create_payment_for_cart. *)

CreatePaymentFlush(w, p, c) ==
    /\ FlushPayment(p, c)
    /\ Begin(w, "charge_payment", "payment", p)

CreatePaymentCharge(w) ==
    /\ Pending(w, "charge_payment")
    /\ CreateCharge(req[w].id)
    /\ req' = [req EXCEPT ![w].op = "commit_payment"]

CreatePaymentCommit(w) ==
    /\ Pending(w, "commit_payment")
    /\ CommitPayment(req[w].id)
    /\ End(w)

-----------------------------------------------------------------------------
(* cancel_payment. *)

\* Slip: a pending payment can be cancelled.
CancelPaymentReadPending(w, p) ==
    /\ payments[p].status \in {"pending", "failed"}
    /\ Begin(w, "cancel_payment", "payment", p)
    /\ UNCHANGED mvars

CancelPaymentRead(w, p) ==
    /\ payments[p].status = "failed"
    /\ Begin(w, "cancel_payment", "payment", p)
    /\ UNCHANGED mvars

CancelPaymentCommit(w) ==
    /\ Pending(w, "cancel_payment")
    /\ CancelPayment(req[w].id, req[w].seen)
    /\ End(w)

-----------------------------------------------------------------------------
(* A request that dies before its commit - the gateway or the database     *)
(* raises, the process is restarted - is rolled back when its session is   *)
(* closed.                                                                 *)
Abort(w) ==
    /\ req[w] # Idle
    /\ IF req[w].op \in PaymentOps THEN RollBackPayment(req[w].id) ELSE UNCHANGED mvars
    /\ End(w)

-----------------------------------------------------------------------------

Init == MInit /\ req = [w \in Workers |-> Idle]

Begins(w) ==
    \/ \E i \in IntentIds : ConfirmIntentRead(w, i)
    \/ \E c \in CartIds : ConfirmCartRead(w, c)
    \/ \E p \in PaymentIds, c \in CartIds : CreatePaymentFlush(w, p, c)
    \/ \E p \in PaymentIds : CancelPaymentRead(w, p)

Continues(w) ==
    \/ ConfirmIntentCommit(w)
    \/ ConfirmCartCommit(w)
    \/ CreatePaymentCharge(w)
    \/ CreatePaymentCommit(w)
    \/ CancelPaymentCommit(w)

Inserts ==
    \/ \E i \in IntentIds, b \in Budgets \cup {NoBudget} : CreateDraftIntent(i, b)
    \/ \E c \in CartIds, i \in IntentIds, t \in CartTotals : CreateDraftCart(c, i, t)

World ==
    \/ \E i \in IntentIds : OutliveTTL(i)
    \/ \E p \in PaymentIds : PayFails(p)
    \/ \E p \in PaymentIds : PaySucceeds(p)

Webhook(event, p) == ProcessWebhook(event, p) /\ UNCHANGED req

Next ==
    \/ \E w \in Workers : Begins(w) \/ Continues(w) \/ Abort(w)
    \/ Inserts /\ UNCHANGED req
    \/ \E event \in DOMAIN EventStatus, p \in PaymentIds : Webhook(event, p)
    \/ World /\ UNCHANGED req

Spec == Init /\ [][Next]_vars

\* Threads are scheduled, and the gateway repeats a webhook call until the
\* endpoint has answered 200.  Nothing makes a customer start or pay anything.
Fairness ==
    /\ \A w \in Workers : WF_vars(Continues(w) \/ Abort(w))
    /\ \A event \in DOMAIN EventStatus, p \in PaymentIds : WF_vars(Webhook(event, p))

FairSpec == Spec /\ Fairness

-----------------------------------------------------------------------------

TypeOK == MTypeOK /\ req \in [Workers -> Request]

(***************************************************************************)
(* What makes the table properties inductive: the rows are built on each   *)
(* other, and what a request has read and decided still holds of the rows  *)
(* when it commits.                                                        *)
(***************************************************************************)
RowsGrounded ==
    /\ \A i \in IntentIds :
          /\ intents[i].status = "confirmed" => intents[i].signed
          /\ intents[i].signed => intents[i].status # "none"
    /\ \A c \in CartIds : carts[c].status # "none" =>
          carts[c].intent \in IntentIds /\ intents[carts[c].intent].signed
    /\ \A c \in CartIds : carts[c].status = "confirmed" =>
          /\ carts[c].signed
          /\ WithinBudget(carts[c].total, intents[carts[c].intent].budget)
    /\ \A p \in PaymentIds : payments[p].status # "none" =>
          /\ payments[p].cart \in CartIds
          /\ carts[payments[p].cart].status = "confirmed"
          /\ payments[p].amount = carts[payments[p].cart].total

RequestGrounded(w) ==
    LET id == req[w].id
    IN /\ req[w].op \in IntentOps => intents[id].status # "none"
       /\ req[w].op = "sign_cart" =>
             /\ carts[id].status # "none"
             /\ WithinBudget(carts[id].total, intents[carts[id].intent].budget)
       /\ req[w].op \in PaymentOps => payments[id].status = "uncommitted"
       /\ req[w].op = "cancel_payment" => payments[id].status \in {"failed", "cancelled"}

SamePayment(v, w) ==
    {req[v].op, req[w].op} \subseteq PaymentOps /\ req[v].id = req[w].id

RequestsGrounded ==
    /\ \A w \in Workers : RequestGrounded(w)
    /\ \A v, w \in Workers : SamePayment(v, w) => v = w

\* A row the log gained while the request was in flight is the request's own
\* transition, made by another one.
LogsGrounded ==
    \A w \in Workers :
        LET id == req[w].id
            Overtaken(kind) == req[w].seen < Len(audit[<<kind, id>>])
        IN /\ req[w].op = "sign_cart" /\ Overtaken("cart") =>
                 carts[id].status = "confirmed"
           /\ req[w].op = "cancel_payment" /\ Overtaken("payment") =>
                 payments[id].status = "cancelled"

Grounded == RowsGrounded /\ RequestsGrounded /\ LogsGrounded

\* Every change the requests make is logged (audit.py:1-5).
EveryChangeLogged == [][NoSilentChange]_vars

\* No order of webhooks, retries and cancellations reopens a resolved payment.
ResolvedPaymentIsFinal == [][ResolutionIsFinal]_vars

\* The immutability promise of confirm_intent, and the staleness rule.
ConfirmedIntentIsImmutable == [][SignedIntentIsImmutable]_vars
StaleIntentBuildsNoCart == [][NoCartOnStaleIntent]_vars

\* "already resolved - idempotent no-op on webhook retry" (payment_webhook.py:36):
\* an event the endpoint ignores is one it has already applied, so a captured
\* payment ends up executed.
CapturedIsExecuted ==
    \A p \in PaymentIds :
        <<"captured", p>> \in events ~> payments[p].status = "executed"

=============================================================================
