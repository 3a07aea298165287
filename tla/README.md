# Verification of the mandate commerce backend

The repository is a shopping agent that buys on a customer's behalf under a
chain of *mandates*: an **intent** (what the customer wants, up to which
budget), a **cart** bound to a confirmed intent, and a **payment** for a
confirmed cart. An LLM proposes and confirms them by calling tools; Razorpay
takes the money and reports by webhook; every transition of a mandate is logged.
This directory holds TLA+ specifications of that system, translated from its
source, the TLC configurations that check them, and TLAPS proofs.

    tlc -workers 2 -config engine_concurrent.cfg MCMandateEngine
    tlc -workers 2 -config agent_turn.cfg MCAgentTurn
    tlc -workers 2 -config conversation.cfg MCConversation
    tlc -workers 2 -config oauth.cfg MCOAuthConnector
    tlc -workers 2 -config drafting.cfg MCCartDrafting
    tlc -workers 2 -config accounts.cfg MCAccounts
    tlapm MandateEngineProofs.tla
    tlapm AgentTurnProofs.tla
    tlapm AgentFlowProofs.tla
    tlapm ConversationProofs.tla
    tlapm OAuthConnectorProofs.tla
    tlapm CartDraftingProofs.tla

`LogInsertion` and `MandatesProofs` hold the lemmas these share.

## 1. Inventory

Paths are relative to `src/api/app` unless they start with `web` or `api`.

| Component | State it keeps | Operations | What is hard about it | What makes it correct |
|---|---|---|---|---|
| Intent mandates (`services/intent_mandate.py`, `mandate_expiry.py`) | `intent_mandates`: draft, confirmed, expired; signature; budget | create draft, confirm (sign, or expire past the TTL) | read, decide, then update by primary key: two confirmations overlap around the TTL | a signed intent never changes; a stale one builds no cart |
| Cart mandates (`services/cart_mandate.py`) | `cart_mandates`: draft, confirmed; items, total, address | create draft on a confirmed intent, confirm within the budget | ids arrive in any order; price and address are read while others write them | no cart without a signed intent; no confirmed cart above the budget |
| Payment mandates (`services/payment_mandate.py`) | `payment_mandates`: pending, executed, failed, cancelled | create for a confirmed cart (flush, gateway call, commit), cancel after a failure | crash between the gateway call and the commit; several payments for a cart | payment equals the confirmed cart; resolution is final |
| Payment webhook (`services/payment_webhook.py`, `routers/webhooks.py`) | none of its own | resolve a pending payment | repeated, reordered, late calls; a capture after a failure | only signed events resolve; each event has its effect |
| Audit log (`services/audit.py`) | `audit_log`, append-only | insert in the transaction of the change; replay by `created_at` | clock order is not commit order | no change without its row; replay gives the status |
| Gateway (Razorpay, `adapters/`) | orders and payment links | create charge, send webhooks | fails, repeats, knows charges whose row was rolled back | external |
| MCP server (`api/mcp_server`) | none | the same services, from another process | no gate but the services' own checks | as the services |
| Agent orchestrator (`orchestrator/`) | per turn: context ids, state, round | derive the state, expose its tools, run the model's calls, up to five rounds | the gate is derived once a round; errors are swallowed; a turn can die after it committed | a tool runs only in a state that offers it; a human sees what is confirmed |
| Chat endpoint, history (`routers/chat.py`, `services/chat_history.py`) | `conversations`: history, display log, mandate ids | run a turn, append it | overlapping turns, lost responses | no turn lost; ids never go back |
| Web store, polling (`web/src/stores/conversation.ts`, `composables/usePaymentPolling.ts`) | a copy of the conversation and its ids | send, load, poll | sends, loads and resets while another is in flight; gives up after 23 polls | its log is the stored one once nothing is on its way; the input comes back |
| Catalog, price history (`repositories/catalog.py`, `services/price_history.py`) | products, append-only prices | create, update, delete, `bump_price`, "has it risen" | edits that overlap; edits and deletions between the reads of a cart draft | no price in force without a row; a rise since the search is caught |
| Customer addresses (`services/customer_addresses.py`) | addresses, one default | create, update, delete | the default is a property of the set, kept by several statements | exactly one default while any address remains |
| OAuth server (`services/oauth.py`, `routers/oauth.py`) | requests and codes in memory, refresh tokens in the database | authorize, approve, exchange, rotate | single use under concurrency, restarts | one use per code and per token |
| Accounts (`services/user_auth.py`, `auth_tokens.py`, `web/src/stores/auth.ts`, `web/src/lib/api.ts`) | users with their domain rows; the browser's token | register, log in, log out, call with a token, end the session on a 401 | check then insert; lost answers; 401s that arrive late | one account per e-mail; nobody is locked out |
| Order history, audit views, upsell | none | read-only queries | newest cart is not the paid one | shows what was bought |
| Web views, LLM clients, migrations, seeds, scripts | - | - | - | not modelled |

The components meet in the database. Every HTTP request and every MCP call
opens a session of its own at READ COMMITTED, runs one service function and
commits; a session closed without a commit is rolled back (`db.py`). The chat
endpoint runs several service functions in one session. The gateway is called
from inside a transaction and calls back through the webhook.

`PROJECT.json` lists the hazards found in the code, each at its line, with the
properties that cover it, or why none does.

## 2. Plan

| Module | Models | Status |
|---|---|---|
| `Mandates` | the mandate tables, the transactions on them, the gateway | done |
| `MandateEngine` (extends it) | overlapping requests, crashes, webhooks | done |
| `PurchaseFlow` | abstract: the agent's state diagram (README.md of the repository, lines 193-205), edge for edge | done |
| `GatedFlow` (extends it) | abstract: what the agent's gate promises of the diagram with several calls a round | done |
| `AgentTurn` (extends `Mandates`) | rounds and tool calls of a turn, the state gate, context ids, swallowed errors, responses lost; implements `GatedFlow`, and not `PurchaseFlow` | done |
| `Conversation` | overlapping turns, the server's and the browser's logs, loads, resets, reloads, polling | done |
| `Catalog`, `Addresses` | products and price history under overlapping edits; one customer's address book | done |
| `CartDrafting` (extends both) | `create_draft_cart` between prices that move and addresses that change | done |
| `OAuthConnector` | authorization requests, codes, refresh rotation, restarts, lost answers | done |
| `Accounts` | registration, login, expiring tokens, calls and their 401s | done |
| `LogInsertion`, `MandatesProofs` | lemmas: a row inserted into a sequence, the types of the shared transactions | done |
| `MandateEngineProofs`, `AgentTurnProofs`, `AgentFlowProofs` (extends it), `ConversationProofs`, `OAuthConnectorProofs`, `CartDraftingProofs` | the theorems of section 6, each about the module it is named for; `AgentFlowProofs` is the refinement of `GatedFlow` | done |

Every invariant and every action property that a passing run checks is also a
theorem, those of `Accounts` excepted, and so is the refinement of `GatedFlow`.
Liveness stays with TLC.

## 3. The modules

**`Mandates`** has a variable for each table (`intents`, `carts`, `payments`,
`audit`), `stale` for the clock, and `charge` and `events` for the gateway. A row
is a function entry whose status is `"none"` before it is inserted. Ids are
random in the code; in the model they number the rows in insertion order, which
no property depends on. Each operator that primes variables is one transaction
or one step of the world:

| Operator | Code |
|---|---|
| `CreateDraftIntent`, `SignIntent`, `ExpireIntent` | `create_draft_intent_from_structured` and the two endings of `confirm_intent` |
| `CreateDraftCart`, `CartConfirmable`, `SignCart` | `create_draft_cart`; the checks and the commit of `confirm_cart` |
| `FlushPayment`, `CreateCharge`, `CommitPayment`, `RollBackPayment` | `create_payment_for_cart`, step by step, and `db.close()` on it |
| `CancelPayment` | the commit of `cancel_payment` |
| `ProcessWebhook` | `process_payment_webhook` under `razorpay_webhook` |
| `OutliveTTL`, `PayFails`, `PaySucceeds` | the clock; the customer at the gateway (external) |

A cart is its total and a signature is a flag. The audit row of a transition
goes anywhere from the log's end at the request's read to the log's end at its
commit (`RecordTransition`): `created_at` is read from the clock at the flush
(`models/mandates.py:18`), so rows of overlapping transactions may be ordered
either way.

**`MandateEngine`** adds `req`: what each worker (a pool thread of the API, or
the MCP process) has read and decided and not yet committed. A function that
reads a row and updates it takes two steps; `create_payment_for_cart` takes
three; a function that only inserts takes one, which loses nothing: what it
reads (a confirmed intent, say) it does not write, so its commit can be placed
at its read. The webhook endpoint takes one step: it is an `async` function
without an `await` between read and commit, the API runs in one process, and no
other code writes a pending row. `Abort` is any exception, or a restart, before
the commit.

**`AgentTurn`** runs the same transactions the way the chat does: one turn after
the other, each in one session. Its state is the mandate ids in three places,
`browser` (the store), `conversation` (the row) and `turn.current` (the context
the tools update), and where the turn is:

| Actions | Code |
|---|---|
| `SendMessage`, `ModelCallsTools`, `EndRound` | `chat`, the loop of `run_turn`: gate, answer of the model, next gate |
| `ProposeIntent`, `ConfirmIntent`, `ProposeCart`, `ConfirmCart`, `CancelFailedPayment` | the handlers of `tools.py` with the service they call |
| `StartPayment`, `Charged`, `ChargeErrorSwallowed` | `_create_payment`, `_retry_payment`, and what the gateway's call comes to |
| `CallWithoutEffect` | tools that read, tools the gate refuses, services that refuse |
| `AppendTurn`, `TurnDies` | `append_turn`; an exception or a restart |
| `DeliverAnswer`, `LoseAnswer`, `LoadConversation`, `StartOver` | `conversation.ts` |

The language model is a free choice among the tools; `TOOLS_BY_STATE` keeps the
tools that write. `turn.flushed` is what the session has inserted and not
committed: the code rolls back only when the session closes, so any later commit
of the turn takes those rows along.

**`PurchaseFlow`** is the diagram of the repository's README without tables or ids,
walked one edge at a time from a remembered state. `AgentTurn` maps to it with
`state` the derived state of the running turn and `memory` the derived states of
what the browser and the row remember. It does not implement it (finding 6).
**`GatedFlow`** is what does hold: it adds `gate`, the state whose tools the
running round offers. `OpenRound` gates by the state the turn is in (or the one a
webhook has just left), and each call of the round ends where an edge *of the
gate* leads, or repeats the gate's own state (`Repeats`: a tool of the state that
the diagram gives no edge), wherever the turn is by then.

`ListedCart` and `ListedPayment` (`Mandates`) are what the order history shows of
an intent.

**`Conversation`** has the two copies of a chat: `rows`, the display logs the
server stores, and `browser`, the store with its log and `isSending`, with `cache`
(localStorage), `load` (a stored conversation being fetched) and `poll` (the
payment's polling). `turns` says of each message where its turn is on the server
and whether the browser still waits for it: the two ends go on independently, so
an answer may be lost, or arrive after a reset or in another conversation. What a
turn does to mandates is `AgentTurn`'s. A log entry is who wrote it and in which
message's turn; that some answers are also marked as stalled is left out (section 5).

| Actions | Code |
|---|---|
| `Type`, `Click`, `Send` | the input and the buttons; `sendMessage` up to its `await`. The buttons of `UpsellCard` are the ones not disabled by `isSending` |
| `Begin`, `BeginNew`, `ToolsCommit`, `ReadAgain`, `AppendTurn`, `TurnDies` | `get_or_create_conversation`, a commit of a tool (what the session has read expires), `append_turn` and its read, an exception or restart |
| `Deliver`, `Fail` | `sendMessage` after its `await`, and its `catch` |
| `StartOver`, `Reload`, `LoadConversation`, `AnswerLoad`, `FinishLoad`, `FailLoad` | the rest of the store |
| `StartPolling`, `Attempt`, `Narrate`, `WebhookLands` | `usePaymentPolling.ts` |

`turn.alone`, `load.clean` and `calm` are history variables of the properties:
whether a turn had its conversation to itself, and whether anything came between
the browser and its conversation.

**`Catalog`** has `products` (a price, or not for sale), `history` in `changed_at`
order, and `edits`: what each editor (a merchant's request, `bump_price`) has read
and not committed. A price row is stamped at its flush, so that, as in the audit
log, rows of overlapping edits may be ordered either way; an edit in a price equal
to the one it read writes no product row; an edit of a product deleted since fails
on the foreign key. **`Addresses`** is one customer's address book, one request
after the other. **`CartDrafting`** adds `shown` (what the last search showed),
`saved` (the old single address slot) and `draft`: `StartDraft` resolves the
address, `ReadPrice` reads a product once per session, `CheckPrice` the two newest
rows of its history, `CommitDraft` and `RefuseDraft` end it. A chat turn that is
refused goes on with its session, so the address it flushed may still be stored
(`orchestrator.py:202`); a request of its own rolls it back.

**`OAuthConnector`** has the two dictionaries (`pending`, `codes`), the table
(`tokens`), `req` for what each thread has taken or read and not answered, and
`connector`, what Claude's side holds. `ApproveTake`/`IssueCode`,
`ExchangeTake`/`MintToken` and `RotateRead`/`RotateCommit` are the two halves of
the three endpoints: the lock covers each half of an approval, not both, and
nothing locks a rotation. The connector makes one call at a time and repeats it
when the answer is lost; a refusal makes it start over. `Replay` is the same call
sent a second time, or by another tab, or with another verifier. `mishaps` bounds
what goes wrong from outside: an expiry, a failed commit, a restart, a lost
answer, a repeated call.

**`Accounts`** is one person with one e-mail address in one tab. `users` and `domain`
count the committed rows, tokens are numbered as they are issued and expire in that
order (`expired`), `session` is the store's token, and `call` is where each call is:
`RegisterFlush`, `RegisterCommit` and `Login` are `services/user_auth.py`, `Serve` is
`get_current_user`, `TakeSession` is the store's `login` and `register` after their
`await`, and `HandleResponse` is `lib/api.ts`. A call goes on when its page has gone
(`heard`), so a second registration may overlap a first one. `knows` is that the
person was told of the account, by an answer or by the words for a 400; until then
they register, from then on they log in.

Definitions whose comment says "Slip" are plausible bugs of the code. No
specification uses them: they are there to be swapped in, to see that each
property fails on one (`mutants` in `PROJECT.json`).

## 4. The runs

| Run | Instance | Shows |
|---|---|---|
| `engine_concurrent` | 2 workers, 1 intent, 2 carts, 2 payments, a budget between two totals, or none (727,036 states) | with any overlap of requests, webhooks and crashes: no payment outside the chain, only signed events resolve payments, cart and payment logs replay to the status, no change is unlogged, resolution is final; the inductive invariant of the proofs (`Grounded`) |
| `agent_turn` | 2 intents, 2 carts, 1 payment, 2 rounds, 2 calls a round, with fairness (112,710) | with a gate that is stale within the round: the conversation implements `GatedFlow`, all remembered ids name one purchase, the state it resumes in offers a way on, and every turn ends; what overlapping confirmations break holds for turns one after the other: intent logs replay, no transition repeats, a confirmed intent never changes |
| `conversation` | 2 messages and the polling's, 2 conversations, 2 polling attempts, with fairness (500,565) | a turn that ran alone stays in the stored log, whole; the live log has the stored one's messages in its order while nothing interferes, and again after a load in peace; the input is locked only while something is awaited; polling ends in its question |
| `oauth` | 2 threads, 4 requests, 4 codes, 5 tokens, 3 mishaps, with fairness (84,763) | a request yields one code, a code one first token; a token is revoked exactly when it has a successor; it has at most as many as there are threads; a customer who retries gets connected |
| `drafting` | 1 product, 3 prices, 2 editors, 3 history rows, 2 addresses (1,056,594) | one default address; no price in force without a row; one rise since the search is caught; an edit that overlaps none leaves the newest row and the price equal |
| `accounts` | 3 calls at once, 3 mishaps, with fairness (192,489) | one account with one domain row, or nothing; the person gets in and stays in |
| `finding_intent_race` | 2 workers, one of everything | *violated*: a signed intent turns expired |
| `finding_stale_intent` | 1 worker | *violated*: a stale intent builds a cart |
| `finding_late_capture` | 1 worker, with fairness | *violated*: a capture after a failed attempt is dropped |
| `finding_swallowed_error` | one of everything | *violated*: a pending payment is committed without an audit row |
| `finding_hidden_order` | 1 intent, 2 carts, 1 payment | *violated*: the order history shows a later draft in place of the cart that was paid |
| `finding_diagram` | 2 intents, 1 cart, 1 payment, 2 calls a round, with fairness | *violated*: a conversation goes back along the README's diagram |

Bounds. Two workers are enough for every pair of overlapping requests, and no
transaction of the code involves a third. Two carts of one intent let one be
above the budget and one within it, and let requests on different carts
interleave; two payments of one cart are a payment and its retry. In `agent_turn` a conversation replaces an intent and a cart by second ones,
under a fresh gate and under a stale one, or begins a second purchase; of two
rounds the first is gated by the state the turn began in and the second is the
last, where the safety valve of `MAX_ROUNDS` trips (the code's five add only
more rounds in between); two calls a round are the first that the gate fits and
one it no longer fits. A second payment of a conversation (`retry_payment`)
would not fit with these: `engine_concurrent` has a payment and its retry for
the tables, and the theorems of `AgentTurnProofs` and `AgentFlowProofs` have any
number of payments for the agent. The agent runs have no budget: what it forbids
is `CallWithoutEffect`.
Amounts matter
only in comparison with the budget: one total at it and one above. Workers are symmetric,
and `engine_concurrent` uses it (no liveness is checked there). Events are never
removed, so every repetition and order of webhooks is included without a bound.
Three messages are two that overlap in every way and one sent before, between or
after them; two conversations are the open one and the one resumed or started
instead. A second polling attempt is one that follows another (the code's 23 add
more of them). Four requests and codes let the connector start over after each of
three mishaps; a fifth token lets both threads fork a token and go on. Three
prices have a rise of exactly 10% and one above it, and three rows a history whose
newest two are not its first; products do not interact, so one is enough. Two
addresses are a default and the one that takes over. One load at a time in
`Conversation`: the views fetch one conversation when they open. Three calls of
`Accounts` are two registrations (or two calls of a page) that overlap and a login or
call after them; three mishaps are enough for an expiry, a lost answer and one more.
Deadlock is not checked: a customer may stop anywhere and the bounds end every
behaviour.

Fairness (`FairSpec`). A request in flight is scheduled until it commits or
aborts; a webhook whose delivery would still change something is delivered, as
the gateway repeats a call until it is answered 200. No fairness is put on
customers: nobody has to confirm or pay. In `AFairSpec` the steps of a turn are
fair together: the thread that runs it goes on, and each call it makes returns
or raises. The model is not assumed to settle on a reply. In `ConvFairSpec`
the polling's fetches return or fail and its timers fire; nothing makes a turn end or
a webhook land. In `OFairSpec` threads go on, and the connector starts over and
repeats its call, as `services/oauth.py:9-10` expects of the customer; nothing
makes it refresh its token. In `AcFairSpec` threads go on and fetches end; the
person keeps trying to get in and, once in, keeps using pages that call the API
(the chat's sidebar does every four seconds), without which an expired token would
never be noticed. The other runs state no fairness: no liveness is checked there.

## 5. Findings

Each is a run that TLC finds violated, quoted in `PROJECT.json`.

1. *Signed intents are not immutable under overlap* (`intent_mandate.py:76`).
   `confirm_intent` neither locks the row nor repeats its check in the update.
   Of two confirmations around the TTL, one signs and the other expires.
2. *A stale intent still builds carts* (`cart_mandate.py:40`): the TTL is checked
   by `confirm_intent` only.
3. *A capture after a failed attempt is ignored* (`payment_webhook.py:35`): the
   payment stays failed, and may be cancelled or retried, though the money was taken.
4. *A failed charge can leave a pending payment that nothing logged*
   (`orchestrator.py:202`): the error is caught without a rollback, and
   `append_turn` commits the flushed row.
5. *The order history can hide a paid order* (`orders.py:32`): it shows the newest
   cart of an intent, and a draft whose answer was lost is newer than the cart the
   conversation went on to pay.
6. *The agent can go back along its diagram* (`orchestrator.py:189`): all calls of
   one answer of the model are gated by the state before them, so `confirm_intent`
   and then `propose_intent`, or `confirm_cart` and then `propose_cart`, both run. A
   draft replaces what was just confirmed, and the next round may confirm again.
   `GatedFlow` says how far this goes.

Met while modelling, and left without a run of their own:

* Nothing refuses a second payment of a cart (`payment_mandate.py:19`): two may be
  paid, and the total for an intent exceeds its budget.
* Overlapping turns of one conversation: the later commit drops the other's turn
  (`chat_history.py:41`). `LoneTurnsAreKept` says which turns are safe.
* A turn gated while a payment was pending may create another one after a webhook
  has settled the first, and so leave `TERMINAL` (`CallGatedTool`).
* `propose_intent` and `confirm_intent` fit into two rounds of one turn
  (`orchestrator.py:212`): what is signed need not have been shown.
* The price-rise rule compares the price with the row before the newest
  (`price_history.py:39`): two changes in a row, each below 10%, hide a rise above
  it, and a product deleted while a draft is between its reads skips the rule.
  `SingleRiseIsCaught` says how far the rule does reach.
* Edits that overlap leave a newest row that is not the price in force
  (`catalog.py:81`); the next edit on its own puts them together (`EditsSettle`).
* Overlapping rotations of one refresh token each mint a successor
  (`oauth.py:141`), so that "using it once immediately revokes it" holds up to the
  number of threads (`ForksOnlyInOverlap`).
* Two addresses created at once may both be the default, and one created while the
  last one is deleted may leave none (`customer_addresses.py:68`).
* In the browser: of two overlapping answers the first enables the input again;
  `startOver` with an answer on its way lets that answer reopen the conversation;
  the polling's question goes to whichever conversation is open by then.
* A resumed conversation does not quite render "identically to one that was live the
  whole time" (`chat_history.py:31-33`): of a first answer without a tool call the
  server stores that it stalled (`chat_history.py:34` starts from `DRAFTING_INTENT`),
  the browser does not (`conversation.ts:131` starts from null), and
  `MessageBubble.vue:22` shows the flag. `LiveLogIsStoredLog` is therefore about the
  messages and their order only.
* A 401 is taken for the end of the session whichever token its call was sent with
  (`api.ts:43-46`): one that arrives after the person has logged in again ends the new
  session. `GetsIn` includes it; the person has to log in once more.
* After a registration that died or lost a race the store says "Could not reach the
  server" (`auth.ts:79-82`) for what was a 500; the account may exist, and the next
  attempt says so.

## 6. What is proved

The theorems hold for every value of the constants: any number of rows, workers,
messages, threads, editors, any prices and budgets. They use the assumptions that
the modules state, and no others: bounds and amounts are naturals,
`NoBudget` is not one, prices are naturals, and `OAuthConnector` has finitely many threads.

Each module of proofs has the same shape. An inductive invariant is the
conjunction of named parts; a lemma per part, or per kind of step, says that the
part survives the step; a theorem `...Invariance` puts them together; the
properties of the runs follow from it. TLC has checked each inductive invariant
on the instances of section 4, or on smaller ones of the same kind, before it was
proved.

| Module | Invariant | Theorems |
|---|---|---|
| `MandateEngineProofs` | `IInv` | `TypeCorrectness`, `Grounding`, `ChainSafety`, `WebhookTrust`, `AuditReplay`, `FinalResolution`, `AuditCompleteness` |
| `AgentTurnProofs` | `AInv` | `AgentTypes`, `OnePurchase`, `WayOn`, `IntentReplay`, `NoRepeats`, `ConfirmedIntents`, `AgentChainSafety`, `AgentWebhookTrust` |
| `AgentFlowProofs` | `AInv`, `GateIsState` | `FollowsTheGate` |
| `ConversationProofs` | `ConvInv` | `ConvTypes`, `LoneTurns`, `LiveLogs`, `SpinnerCauses` |
| `OAuthConnectorProofs` | `OInv` | `OAuthTypes`, `OneConsentOneCode`, `OneCodeOneToken`, `AtomicRotation`, `BoundedForks` |
| `CartDraftingProofs` | `OneDefault`, `DInv` | `DefaultAddress`, `DraftingTypes`, `RecordedPrices`, `LoneEdits`, `CaughtRises` |

**Overlapping requests** (`MandateEngineProofs`). The chain property alone is not
inductive: a payment commits on what its request read earlier. `RowsGrounded` says
the rows are built on each other; `RequestsGrounded` that what a request has read
is still good enough when it commits (a status may have moved on, the total and
the budget have not) and that no two requests share a payment row; `LogsGrounded`
that a request overtaken in a mandate's log was overtaken by the very transition
it is about to make. The last is why replay survives overlap for carts and
payments, whose requests can only repeat each other, and fails for intents, where
one request signs and another expires. `InsertAtFacts` (`LogInsertion`) and
`RecordTransitionFacts` (`MandatesProofs`) are the facts on sequences.

**The agent** (`AgentTurnProofs`). What makes the ids name one purchase is what the
gate said when the round began: `GateFits` is what each gate fixes of the ids, and
the tools it offers add ids but never point one at another purchase, however many
run before the next gate. `FlushedFit` ties the uncommitted rows to the session, so
that what a swallowed error leaves behind is still for the turn's confirmed cart;
this is why the chain holds (`AgentChainSafety`) where the audit log does not
(finding 4). `LogsFit` lists the one log each status can have, from which replay
and the absence of repeats are read off; a payment that is pending without a log
has no charge, `EventsFit` has it that no event is about it, and so it stays
pending.

**The gate** (`AgentFlowProofs`). `FollowsTheGate` is the step simulation of
`GatedFlow`, for any number of calls a round: `AInit` maps to an initial state, and
each step of `ANext` maps to a step of `GNext` or a stutter. The diagram itself is
not a theorem, and cannot be (finding 6). A lemma per tool says which state its
commit leads to from the gate it ran under; `GateIsState` says that while the model
is asked the derived state is the gate's, except where a webhook has settled the
payment since, which is why `OpenRound` may find it one webhook ahead.

**Conversations** (`ConversationProofs`). `TurnsFit` says that a turn still
called alone is the only one on its row, and that what a running turn has read holds every turn that
was alone before it: the whole log is written back, so this is all that keeps a
turn. `CalmFits` says where the one message under way has left the two logs
(`FlightFits`), or, with none, that the row, the store and the cache are equal. A
load that nothing interferes with (`load.clean`) brings the stored log, which is
how the calm returns.

**OAuth** (`OAuthConnectorProofs`). An id is given out once because what it is
exchanged for is taken first, by one thread (`RequestsSpent`, `CodesSpent`).
`ForksBounded` counts: the successors of a token and the rotations of it under way
are together at most the threads, because a rotation begins only while the token
is active, and then it has no successor.

**Prices and addresses** (`CartDraftingProofs`). `OneDefault` is inductive with
`BTypeOK`. Its one hard step deletes the default: `NewestExists` (ids are
well-founded) gives an address that `list_addresses` puts first, so `CHOOSE` in
`First` names one on file, and it takes over. For prices, `EditsFit` says what an
edit may still believe of the price it has read: it is the one in force unless
something was committed since. `SearchesFit` is about a product with at most one
change since a search that found it settled: the row the search saw is the newest
or the one before it, the price in force is the newest row's, every edit in flight
has read it since, and a line of the draft has one of the two prices, so that the
rule of `price_history.py`, which compares these two rows, is enough.

Only model-checked: liveness (`TurnEnds`, `PollNarrates`, `Connects`, `GetsIn`), which
this prover does not reach; `OneAccount`; and the six findings, which are
counterexamples. `GatedFlow` and its refinement are about safety: no call leaves its
gate's edges, not that a purchase is ever made.

## 7. What is not modelled

Payload hashes and HMAC (nothing in the code verifies a mandate's signature
again), the wording of replies, HTTP status codes, read-only views other than the
order history, the LLM and its extraction of an intent (any budget may come back),
migrations and scripts other than `bump_price`. Webhook calls with a bad
signature, an unknown event or no mandate id change nothing and are left out.

* `AgentTurn` has one turn after the other and `Conversation` has overlapping turns
  without mandates: overlapping turns that also disagree about ids are in neither.
  The LLM's own message history is appended with the display log in the same
  assignments and would behave as it does.
* `Conversation` is one customer in one tab; other tabs share only `localStorage`.
* A crash between the gateway's answer and the commit is in `MandateEngine`, not
  in `AgentTurn`.
* Requests of one customer to the address book that overlap, the fields of an
  address, and the profile.
* Products: names, stock, tags and which merchant owns them; a cart of
  `CartDrafting` ends where `MandateEngine` begins, and quantities and the
  shipping fee only scale its total.
* OAuth: the metadata endpoints and the allowlist checks keep no state, the PKCE
  hash is `matches`, and the access token is stateless. Users are not deleted.
  A token request with a parameter missing is refused before its code is popped
  (`routers/oauth.py:134`); every other mismatch is refused after, as in the model.
* Accounts: roles (who may call what, and where the router sends them), admin
  accounts, other tabs and other accounts in the same browser; a password is right or
  mistyped; `last_login_at` is left out.
* `AgentTurn` has one conversation: `StartOver` forgets its row, which the customer
  could still open again.
* The payment of a webhook that is delivered is resolved in one step; that every
  webhook is delivered in the end is Razorpay's promise, used by
  `finding_late_capture` only.
