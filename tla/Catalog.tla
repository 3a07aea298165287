-------------------------------- MODULE Catalog --------------------------------
(***************************************************************************)
(* Products, their prices and price_history: repositories/catalog.py,      *)
(* services/price_history.py, routers/merchant.py and scripts/bump_price.  *)
(*                                                                         *)
(* An edit reads the product, decides, and commits later: between the two  *)
(* the merchant's endpoint may wait for the model that generates tags.     *)
(***************************************************************************)
EXTENDS Integers, Sequences, SequencesExt

CONSTANTS
    Products,     \* the ids of the products ever listed
    Prices,       \* prices in paise
    Editors,      \* requests and scripts that may edit at the same time
    MaxChanges    \* bound on the rows of one product's history

ASSUME PricesAssumption == Prices \subseteq Nat
ASSUME ChangesAssumption == MaxChanges \in Nat

VARIABLES
    products,   \* products: for sale or not, and the price
    history,    \* price_history: the prices of each product, in changed_at order
    edits       \* what each editor has read and is about to commit

cvars == <<products, history, edits>>

NoPrice == -1
ProductRow == [status : {"none", "listed", "deleted"}, price : Prices \cup {NoPrice}]

\* was and seen are the price and the number of history rows at the read.
NoEdit == [seen |-> 0]
Edit == {NoEdit} \cup [product : Products, was : Prices, price : Prices, seen : Nat]

CTypeOK ==
    /\ products \in [Products -> ProductRow]
    /\ history \in [Products -> Seq(Prices)]
    /\ edits \in [Editors -> Edit]

CInit ==
    /\ products = [p \in Products |-> [status |-> "none", price |-> NoPrice]]
    /\ history = [p \in Products |-> <<>>]
    /\ edits = [e \in Editors |-> NoEdit]

Listed(p) == products[p].status = "listed"

\* Slip: the history starts with the first change.
CreateProductUnseeded(p, price) ==
    /\ products[p].status = "none"
    /\ products' = [products EXCEPT ![p] = [status |-> "listed", price |-> price]]
    /\ UNCHANGED <<history, edits>>

CreateProduct(p, price) ==
    /\ products[p].status = "none"
    /\ products' = [products EXCEPT ![p] = [status |-> "listed", price |-> price]]
    /\ history' = [history EXCEPT ![p] = <<price>>]
    /\ UNCHANGED edits

RecordPriceChangeRead(e, p, price) ==
    /\ edits[e] = NoEdit /\ Listed(p) /\ Len(history[p]) < MaxChanges
    /\ edits' = [edits EXCEPT ![e] =
                   [product |-> p, was |-> products[p].price, price |-> price,
                    seen |-> Len(history[p])]]
    /\ UNCHANGED <<products, history>>

\* update_product writes neither the price nor a row when the price it was given
\* is the one it has read; record_price_change always adds a row.
UpdateProductRead(e, p, price) ==
    products[p].price # price /\ RecordPriceChangeRead(e, p, price)

(***************************************************************************)
(* The commit.  changed_at is read from the clock at the flush, so that a  *)
(* row may fall among those committed since the read.  The product's row   *)
(* is updated only in a price that differs from the one read.  For a       *)
(* product deleted since, the insert violates the foreign key: rollback.   *)
(***************************************************************************)
\* Slip: the price is written, and its row is not.
CommitEditUnrecorded(e) ==
    LET edit == edits[e]
    IN /\ edit # NoEdit
       /\ products' = IF Listed(edit.product)
                      THEN [products EXCEPT ![edit.product].price = edit.price]
                      ELSE products
       /\ edits' = [edits EXCEPT ![e] = NoEdit]
       /\ UNCHANGED history

CommitEdit(e) ==
    LET edit == edits[e]
        p == edit.product
    IN /\ edit # NoEdit
       /\ edits' = [edits EXCEPT ![e] = NoEdit]
       /\ IF Listed(p)
          THEN /\ Len(history[p]) < MaxChanges
               /\ \E pos \in (edit.seen + 1)..(Len(history[p]) + 1) :
                     history' = [history EXCEPT ![p] = InsertAt(@, pos, edit.price)]
               /\ products' = IF edit.price = edit.was THEN products
                              ELSE [products EXCEPT ![p].price = edit.price]
          ELSE UNCHANGED <<products, history>>

\* Both tables lose their rows in one commit.
DeleteProduct(p) ==
    /\ Listed(p)
    /\ products' = [products EXCEPT ![p] = [status |-> "deleted", price |-> NoPrice]]
    /\ history' = [history EXCEPT ![p] = <<>>]
    /\ UNCHANGED edits

CNext ==
    \/ \E p \in Products, price \in Prices : CreateProduct(p, price)
    \/ \E e \in Editors, p \in Products, price \in Prices :
          UpdateProductRead(e, p, price) \/ RecordPriceChangeRead(e, p, price)
    \/ \E e \in Editors : CommitEdit(e)
    \/ \E p \in Products : DeleteProduct(p)

-----------------------------------------------------------------------------
(* price_has_risen_significantly, with a threshold of 10%.                  *)
Exceeds(price, known) == 10 * price > 11 * known

\* Slip: the newest row is taken for the known price.
PriceHasRisenFromNewest(p, price) ==
    Len(history[p]) >= 2 /\ Exceeds(price, history[p][Len(history[p])])

PriceHasRisen(p, price) ==
    Len(history[p]) >= 2 /\ Exceeds(price, history[p][Len(history[p]) - 1])

-----------------------------------------------------------------------------
\* No price is ever in force without a row of its own, however edits overlap and
\* whichever of them write nothing (models/mandates.py:55 "Append-only").
PriceInForceIsRecorded ==
    \A p \in Products : Listed(p) => products[p].price \in ToSet(history[p])

\* The price-rise rule reads the product and its newest rows as if they were one
\* (price_history.py:28-43).  Edits that overlap commit in another order than
\* their rows, and the newest row is then not the price in force; an edit that
\* overlaps no other one puts the two together again, even so.
Settled(p) == history[p] # <<>> /\ Last(history[p]) = products[p].price

Alone(e, p) == edits[e] # NoEdit /\ edits[e].product = p /\ edits[e].seen = Len(history[p])

LoneEditSettles ==
    \A e \in Editors, p \in Products :
        Listed(p) /\ Alone(e, p) /\ edits'[e] = NoEdit => Settled(p)'

=============================================================================
