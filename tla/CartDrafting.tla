------------------------------ MODULE CartDrafting ------------------------------
(***************************************************************************)
(* create_draft_cart (services/cart_mandate.py) between a catalog whose    *)
(* prices are being edited and the address book of one customer, who has   *)
(* searched the catalog before.  The intent is confirmed; what becomes of  *)
(* the drafted cart is in MandateEngine.                                   *)
(***************************************************************************)
EXTENDS Catalog, Addresses

VARIABLES
    saved,     \* customers.saved_address is not null
    shown,     \* what the last search has shown of each product
    draft      \* the draft request being served

dvars == <<products, history, edits, addresses, saved, shown, draft>>

\* A product as search shows it.  rows, and whether the history was settled with
\* no edit of it in flight, are not shown: the properties speak of them.
Shown == [price : Prices \cup {NoPrice}, rows : Nat, settled : BOOLEAN]
NotShown == [price |-> NoPrice, rows |-> 0, settled |-> FALSE]

\* The items not looked at yet, the one whose price has been read (a set of at
\* most one), the lines made so far (the others have NoPrice), and what the request said: an
\* address, in a chat turn or in a request of its own, and an acknowledgement.
Given == {"none", "in chat", "in a request"}
NoDraft == [open |-> FALSE, items |-> {}, item |-> {}, price |-> [p \in Products |-> NoPrice],
            given |-> "none", acknowledged |-> FALSE]
Draft == [open : BOOLEAN, items : SUBSET Products, item : SUBSET Products,
          price : [Products -> Prices \cup {NoPrice}],
          given : Given, acknowledged : BOOLEAN]

DTypeOK ==
    /\ CTypeOK /\ BTypeOK
    /\ saved \in BOOLEAN
    /\ shown \in [Products -> Shown]
    /\ draft \in Draft

DInit ==
    /\ CInit /\ BInit
    /\ saved = FALSE
    /\ shown = [p \in Products |-> NotShown]
    /\ draft = NoDraft

-----------------------------------------------------------------------------

Search(p) ==
    /\ ~draft.open /\ Listed(p)
    /\ shown' = [shown EXCEPT ![p] =
                   [price |-> products[p].price, rows |-> Len(history[p]),
                    settled |-> Settled(p) /\ \A e \in Editors :
                                   edits[e] # NoEdit => edits[e].product # p]]
    /\ UNCHANGED <<cvars, addresses, saved, draft>>

\* _resolve_shipping_address: the one provided, the default, the saved one.  With
\* none of them the request is refused.
HasAddress(given) == given # "none" \/ Defaults # {} \/ saved

StartDraft(items, given, acknowledged) ==
    /\ ~draft.open
    /\ HasAddress(given)
    /\ draft' = [NoDraft EXCEPT !.open = TRUE, !.items = items, !.given = given,
                                !.acknowledged = acknowledged]
    /\ UNCHANGED <<cvars, addresses, saved, shown>>

\* Slip: the shipping fee goes into the line.
ReadPriceWithFee(p) ==
    /\ draft.item = {} /\ p \in draft.items
    /\ Listed(p)
    /\ draft' = [draft EXCEPT !.items = @ \ {p}, !.item = {p},
                              !.price[p] = products[p].price + 1]
    /\ UNCHANGED <<cvars, addresses, saved, shown>>

\* A session reads a product once; the history it queries may have moved on.
ReadPrice(p) ==
    /\ draft.item = {} /\ p \in draft.items
    /\ Listed(p)
    /\ draft' = [draft EXCEPT !.items = @ \ {p}, !.item = {p}, !.price[p] = products[p].price]
    /\ UNCHANGED <<cvars, addresses, saved, shown>>

Passes(p) == draft.acknowledged \/ ~PriceHasRisen(p, draft.price[p])

CheckPrice(p) ==
    /\ p \in draft.item
    /\ Passes(p)
    /\ draft' = [draft EXCEPT !.item = {}]
    /\ UNCHANGED <<cvars, addresses, saved, shown>>

AllChecked ==
    draft.open /\ draft.items = {} /\ draft.item = {}

\* The provided address is flushed at the start and committed with the cart.
CommitDraft ==
    /\ AllChecked
    /\ saved' = (saved \/ draft.given # "none")
    /\ draft' = NoDraft
    /\ UNCHANGED <<cvars, addresses, shown>>

\* A product is gone, or its price has risen.  A request of its own rolls back; a
\* chat turn goes on with the session, and what was flushed is committed unless
\* the turn dies.
Refused ==
    \/ draft.item = {} /\ \E p \in draft.items : ~Listed(p)
    \/ \E p \in draft.item : ~Passes(p)

RefuseDraft ==
    /\ Refused
    /\ saved' \in {saved, saved \/ draft.given = "in chat"}
    /\ draft' = NoDraft
    /\ UNCHANGED <<cvars, addresses, shown>>

-----------------------------------------------------------------------------

Drafting ==
    \/ \E items \in SUBSET {p \in Products : shown[p].price # NoPrice} \ {{}},
          given \in Given, acknowledged \in BOOLEAN : StartDraft(items, given, acknowledged)
    \/ \E p \in Products : Search(p) \/ ReadPrice(p) \/ CheckPrice(p)
    \/ CommitDraft
    \/ RefuseDraft

DNext ==
    \/ Drafting
    \/ CNext /\ UNCHANGED <<addresses, saved, shown, draft>>
    \/ BNext /\ UNCHANGED <<cvars, saved, shown, draft>>

DSpec == DInit /\ [][DNext]_dvars

-----------------------------------------------------------------------------
(***************************************************************************)
(* Properties.                                                             *)
(***************************************************************************)

\* The lines of the cart that a step drafts without an acknowledgement.
DraftsUnacknowledged(p) ==
    AllChecked /\ ~draft'.open /\ ~draft.acknowledged /\ draft.price[p] # NoPrice

\* "reject/re-confirm if price has risen >10% since last known price"
\* (price_history.py:25-26): a single change since the customer's last search
\* cannot put a line into the cart at 10% above what was shown, wherever between
\* the reads of the draft it commits, of a product that is still for sale.
SingleRise ==
    \A p \in Products :
        /\ DraftsUnacknowledged(p) /\ Listed(p) /\ shown[p].settled
        /\ Len(history[p]) <= shown[p].rows + 1
        => ~Exceeds(draft.price[p], shown[p].price)

SingleRiseIsCaught == [][SingleRise]_dvars

\* The history and the price in force come together (Catalog.LoneEditSettles)
\* in the composed system.
EditsSettle == [][LoneEditSettles]_dvars

=============================================================================
