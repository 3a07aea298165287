--------------------------- MODULE CartDraftingProofs ---------------------------
(***************************************************************************)
(* Proofs about CartDrafting for every set of products, prices and editors *)
(* and every number of changes and addresses: the address book, the price  *)
(* history behind its edits, and the price-rise check of a draft.          *)
(***************************************************************************)
EXTENDS CartDrafting, LogInsertion, WellFoundedInduction

-----------------------------------------------------------------------------
(* The address book. *)

\* A set of addresses that is not empty has a newest one.
LEMMA NewestExists ==
    ASSUME NEW S \in SUBSET AddressIds, S # {}
    PROVE  \E a \in S : \A b \in S : a >= b
<1> DEFINE Ages == {MaxAddresses - a : a \in S}
<1>1. Ages \subseteq Nat /\ Ages # {}
  <2>1. \A a \in S : MaxAddresses - a \in Nat
    BY AddressesAssumption DEF AddressIds
  <2>2. Ages \subseteq Nat
    BY <2>1
  <2>3. PICK a \in S : TRUE
    OBVIOUS
  <2>4. MaxAddresses - a \in Ages
    BY <2>3
  <2> QED
    BY <2>2, <2>4
<1>2. IsWellFoundedOn(OpToRel(<, Nat), Nat)
  BY NatLessThanWellFounded
<1>3. PICK x \in Ages : \A y \in Ages : ~ (<<y, x>> \in OpToRel(<, Nat))
  <2> HIDE DEF Ages
  <2> QED
    BY <1>1, <1>2, WFMin
<1>4. \A y \in Ages : ~ (y < x)
  BY <1>1, <1>3 DEF OpToRel
<1>5. PICK a \in S : x = MaxAddresses - a
  OBVIOUS
<1>6. \A b \in S : a >= b
  <2> SUFFICES ASSUME NEW b \in S
               PROVE  a >= b
    OBVIOUS
  <2>1. ~ (MaxAddresses - b < MaxAddresses - a)
    BY <1>4, <1>5
  <2> QED
    BY <2>1, AddressesAssumption DEF AddressIds
<1> QED
  BY <1>6

\* With no default left, the address that is listed first is one on file.
LEMMA FirstIsOnFile ==
    ASSUME NEW book \in [AddressIds -> AddressStatus],
           \A a \in AddressIds : book[a] # "default",
           OnFile(book) # {}
    PROVE  First(book) \in OnFile(book)
<1>1. PICK a \in OnFile(book) : \A b \in OnFile(book) : a >= b
  BY NewestExists DEF OnFile
<1>2. \A b \in OnFile(book) : ListedBefore(book, a, b)
  BY <1>1 DEF ListedBefore, OnFile
<1> QED
  BY <1>2 DEF First

\* A book with one address made the default has no other default.
LEMMA MakeDefaultFacts ==
    ASSUME BTypeOK, NEW a \in AddressIds, addresses' = MakeDefault(addresses, a)
    PROVE  BTypeOK' /\ OneDefault'
<1>1. /\ BTypeOK'
      /\ addresses'[a] = "default"
      /\ \A b \in AddressIds : b # a => addresses'[b] # "default"
  BY DEF MakeDefault, BTypeOK, AddressStatus
<1> QED
  BY <1>1 DEF OneDefault, Defaults

\* Every request to the address book keeps its one default.
LEMMA BookStep ==
    ASSUME BTypeOK, OneDefault, BNext
    PROVE  BTypeOK' /\ OneDefault'
<1>1. ASSUME NEW a \in AddressIds, NEW is_default \in BOOLEAN, CreateAddress(a, is_default)
      PROVE  BTypeOK' /\ OneDefault'
  <2>1. CASE is_default \/ OnFile(addresses) = {}
    BY <1>1, <2>1, MakeDefaultFacts DEF CreateAddress
  <2>2. CASE ~ (is_default \/ OnFile(addresses) = {})
    <3>1. addresses' = [addresses EXCEPT ![a] = "plain"] /\ addresses[a] = "none"
      BY <1>1, <2>2 DEF CreateAddress, IsNextAddress
    <3>2. BTypeOK'
      BY <3>1 DEF BTypeOK, AddressStatus
    <3>3. \A b \in AddressIds : addresses'[b] = "default" <=> addresses[b] = "default"
      BY <3>1 DEF BTypeOK
    <3> QED
      BY <2>2, <3>2, <3>3 DEF OneDefault, Defaults
  <2> QED
    BY <2>1, <2>2
<1>2. ASSUME NEW a \in AddressIds, UpdateAddress(a)
      PROVE  BTypeOK' /\ OneDefault'
  BY <1>2, MakeDefaultFacts DEF UpdateAddress
<1>3. ASSUME NEW a \in AddressIds, DeleteAddress(a)
      PROVE  BTypeOK' /\ OneDefault'
  <2> DEFINE book == [addresses EXCEPT ![a] = "deleted"]
  <2>1. /\ book \in [AddressIds -> AddressStatus]
        /\ book[a] = "deleted"
        /\ \A b \in AddressIds : b # a => book[b] = addresses[b]
    BY DEF BTypeOK, AddressStatus
  <2>2. a \in OnFile(addresses) /\ Defaults # {}
    BY <1>3 DEF DeleteAddress, OneDefault
  <2>3. CASE addresses[a] = "default" /\ OnFile(book) # {}
    <3>1. \A b \in AddressIds : book[b] # "default"
      BY <2>1, <2>3 DEF OneDefault, Defaults
    <3>2. First(book) \in OnFile(book)
      <4> HIDE DEF book
      <4> QED
        BY <2>1, <2>3, <3>1, FirstIsOnFile
    <3>3. addresses' = [book EXCEPT ![First(book)] = "default"]
      BY <1>3, <2>3 DEF DeleteAddress
    <3> HIDE DEF book
    <3>4. /\ First(book) \in AddressIds
          /\ BTypeOK'
          /\ addresses'[First(book)] = "default"
          /\ \A b \in AddressIds : b # First(book) => addresses'[b] # "default"
      BY <2>1, <3>1, <3>2, <3>3 DEF BTypeOK, AddressStatus, OnFile
    <3> QED
      BY <3>4 DEF OneDefault, Defaults
  <2>4. CASE ~ (addresses[a] = "default" /\ OnFile(book) # {})
    <3>1. addresses' = book
      BY <1>3, <2>4 DEF DeleteAddress
    <3> HIDE DEF book
    <3>2. OnFile(book) # {} => \E b \in AddressIds : book[b] = "default"
      BY <2>1, <2>2, <2>4 DEF Defaults
    <3> QED
      BY <2>1, <3>1, <3>2 DEF BTypeOK, OneDefault, Defaults
  <2> QED
    BY <2>3, <2>4
<1> QED
  BY <1>1, <1>2, <1>3 DEF BNext

\* A customer with addresses has exactly one default, after any sequence of
\* requests (customer_addresses.py), while carts are drafted and prices edited.
THEOREM DefaultAddress == DSpec => []OneDefault
<1>1. DInit => BTypeOK /\ OneDefault
  BY DEF DInit, BInit, BTypeOK, AddressStatus, OneDefault, OnFile, Defaults
<1>2. BTypeOK /\ OneDefault /\ [DNext]_dvars => (BTypeOK /\ OneDefault)'
  <2> SUFFICES ASSUME BTypeOK, OneDefault, [DNext]_dvars
               PROVE  (BTypeOK /\ OneDefault)'
    OBVIOUS
  <2>1. CASE BNext
    BY <2>1, BookStep
  <2>2. CASE UNCHANGED addresses
    BY <2>2 DEF BTypeOK, OneDefault, OnFile, Defaults
  <2>3. Drafting => UNCHANGED addresses
    BY DEF Drafting, StartDraft, Search, ReadPrice, CheckPrice, CommitDraft, RefuseDraft
  <2> QED
    BY <2>1, <2>2, <2>3 DEF DNext, dvars
<1> QED
  BY <1>1, <1>2, PTL DEF DSpec

-----------------------------------------------------------------------------
(* The inductive invariant of the catalog and of the draft. *)

\* An edit is of a product that was listed when it was read; while nothing has been
\* committed since, the price it has read is the one in force.
EditsFit ==
    \A e \in Editors : edits[e] # NoEdit =>
        LET p == edits[e].product
        IN /\ products[p].status # "none"
           /\ Listed(p) =>
                 /\ edits[e].seen <= Len(history[p])
                 /\ edits[e].seen = Len(history[p]) => edits[e].was = products[p].price

\* One price is checked at a time, and nothing is left over from the last draft.
DraftFit ==
    /\ ~draft.open => draft = NoDraft
    /\ \A p, q \in draft.item : p = q

\* Nothing is shown of a product before it is listed.
UnlistedUnseen == \A p \in Products : products[p].status = "none" => ~shown[p].settled

\* At most one change since a search that found the history settled.
OneChangeSince(p) ==
    Listed(p) /\ shown[p].settled /\ Len(history[p]) <= shown[p].rows + 1

\* Then the row before the newest, or the newest, is what was shown, the price in
\* force is the newest row's, and whatever is in flight was read since.
ShownFits(p) ==
    /\ shown[p].rows \in 1..Len(history[p])
    /\ history[p][shown[p].rows] = shown[p].price
    /\ Settled(p)
    /\ \A e \in Editors :
          edits[e] # NoEdit /\ edits[e].product = p => edits[e].seen >= shown[p].rows

\* A price the draft has read is what was shown or what is in force, and one it has
\* checked is within the threshold of what was shown.
LineFits(p) ==
    draft.price[p] # NoPrice =>
        /\ draft.price[p] \in {shown[p].price, products[p].price}
        /\ p \notin draft.item /\ ~draft.acknowledged =>
              ~Exceeds(draft.price[p], shown[p].price)

\* What a search has shown and at most one change since.
SearchesFit == \A p \in Products : OneChangeSince(p) => ShownFits(p) /\ LineFits(p)

\* The inductive invariant.
DInv ==
    /\ DTypeOK
    /\ PriceInForceIsRecorded
    /\ EditsFit
    /\ DraftFit
    /\ UnlistedUnseen
    /\ SearchesFit

-----------------------------------------------------------------------------
(* The edits of the catalog. *)

\* What an editor holds between its read and its commit.
LEMMA EditTypes ==
    ASSUME CTypeOK, NEW e \in Editors, edits[e] # NoEdit
    PROVE  /\ edits[e].product \in Products
           /\ edits[e].was \in Prices /\ edits[e].price \in Prices
           /\ edits[e].seen \in Nat
BY DEF CTypeOK, Edit

\* A listed product has a price, and it is in the history.
LEMMA ListedPrice ==
    ASSUME CTypeOK, PriceInForceIsRecorded, NEW p \in Products, Listed(p)
    PROVE  products[p].price \in Prices
<1>1. PICK k \in DOMAIN history[p] : products[p].price = history[p][k]
  BY DEF PriceInForceIsRecorded, ToSet
<1> QED
  BY <1>1 DEF CTypeOK

\* What the commit of an edit makes of a listed product: its history with a row
\* more, at pos, and its price.
CommittedAt(e, p, pos) ==
    /\ pos \in (edits[e].seen + 1)..(Len(history[p]) + 1)
    /\ history' \in [Products -> Seq(Prices)]
    /\ Len(history'[p]) = Len(history[p]) + 1
    /\ \A k \in 1..(Len(history[p]) + 1) :
          history'[p][k] = IF k < pos THEN history[p][k]
                           ELSE IF k = pos THEN edits[e].price ELSE history[p][k - 1]
    /\ ToSet(history[p]) \cup {edits[e].price} \subseteq ToSet(history'[p])
    /\ products' \in [Products -> ProductRow]
    /\ products'[p].status = "listed"
    /\ products'[p].price =
          IF edits[e].price = edits[e].was THEN products[p].price ELSE edits[e].price
    /\ \A q \in Products : q # p => history'[q] = history[q] /\ products'[q] = products[q]

\* The commit of an edit of a listed product.
LEMMA CommitFacts ==
    ASSUME CTypeOK, NEW e \in Editors, CommitEdit(e), Listed(edits[e].product)
    PROVE  \E pos \in 1..(Len(history[edits[e].product]) + 1) :
              CommittedAt(e, edits[e].product, pos)
<1> DEFINE p == edits[e].product
           price == edits[e].price
<1>1. edits[e] # NoEdit
  BY DEF CommitEdit
<1>2. p \in Products /\ price \in Prices /\ edits[e].seen \in Nat
  BY <1>1, EditTypes
<1>3. /\ history \in [Products -> Seq(Prices)] /\ history[p] \in Seq(Prices)
      /\ products \in [Products -> ProductRow]
  BY <1>2 DEF CTypeOK
<1>4. PICK pos \in (edits[e].seen + 1)..(Len(history[p]) + 1) :
        history' = [history EXCEPT ![p] = InsertAt(history[p], pos, price)]
  BY DEF CommitEdit
<1>5. pos \in 1..(Len(history[p]) + 1)
  BY <1>2, <1>3
<1>6. products' = IF price = edits[e].was THEN products
                  ELSE [products EXCEPT ![p].price = price]
  BY DEF CommitEdit
<1> HIDE DEF p, price
<1>7. /\ InsertAt(history[p], pos, price) \in Seq(Prices)
      /\ Len(InsertAt(history[p], pos, price)) = Len(history[p]) + 1
      /\ \A k \in 1..(Len(history[p]) + 1) :
            InsertAt(history[p], pos, price)[k] =
               IF k < pos THEN history[p][k] ELSE IF k = pos THEN price ELSE history[p][k - 1]
  <2>1. history[p] \in Seq(Prices) /\ price \in Prices /\ pos \in 1..(Len(history[p]) + 1)
    BY <1>2, <1>3, <1>5
  <2>2. /\ InsertAt(history[p], pos, price) \in Seq(Prices)
        /\ Len(InsertAt(history[p], pos, price)) = Len(history[p]) + 1
    BY ONLY <2>1, InsertAtFacts
  <2>3. ASSUME NEW k \in 1..(Len(history[p]) + 1)
        PROVE  InsertAt(history[p], pos, price)[k] =
                 IF k < pos THEN history[p][k] ELSE IF k = pos THEN price ELSE history[p][k - 1]
    <3>1. /\ k < pos => InsertAt(history[p], pos, price)[k] = history[p][k]
          /\ k = pos => InsertAt(history[p], pos, price)[k] = price
          /\ k > pos => InsertAt(history[p], pos, price)[k] = history[p][k - 1]
      BY <2>1, InsertAtEach
    <3>2. k \in Int /\ pos \in Int
      BY <2>1
    <3> QED
      BY <3>1, <3>2
  <2> QED
    BY <2>2, <2>3
<1>8. ToSet(history[p]) \cup {price} \subseteq ToSet(InsertAt(history[p], pos, price))
  BY <1>2, <1>3, <1>5, InsertAtRange
<1>9. /\ history'[p] = InsertAt(history[p], pos, price)
      /\ history' \in [Products -> Seq(Prices)]
      /\ \A q \in Products : q # p => history'[q] = history[q]
  BY <1>2, <1>3, <1>4, <1>7
<1>10. /\ products' \in [Products -> ProductRow]
       /\ products'[p].status = "listed"
       /\ products'[p].price = IF price = edits[e].was THEN products[p].price ELSE price
       /\ \A q \in Products : q # p => products'[q] = products[q]
  BY ZenonT(60), <1>2, <1>3, <1>6 DEF ProductRow, Listed, p
<1>11. CommittedAt(e, p, pos)
  BY ZenonT(60), <1>4, <1>7, <1>8, <1>9, <1>10 DEF CommittedAt, p, price
<1> QED
  BY <1>5, <1>11 DEF p

\* The commit of an edit of a product that is gone is rolled back.
LEMMA CommitOfGone ==
    ASSUME NEW e \in Editors, CommitEdit(e), ~Listed(edits[e].product)
    PROVE  UNCHANGED <<products, history>> /\ edits' = [edits EXCEPT ![e] = NoEdit]
BY DEF CommitEdit

\* A product enters the catalog with its first row.
LEMMA CreateProductKeeps ==
    ASSUME DInv, UNCHANGED <<addresses, saved, shown, draft>>,
           NEW p \in Products, NEW price \in Prices, CreateProduct(p, price)
    PROVE  DInv'
<1>1. /\ DTypeOK /\ CTypeOK
      /\ products[p].status = "none"
      /\ products' = [products EXCEPT ![p] = [status |-> "listed", price |-> price]]
      /\ history' = [history EXCEPT ![p] = <<price>>]
      /\ edits' = edits /\ shown' = shown /\ draft' = draft
  BY DEF DInv, DTypeOK, CreateProduct
<1>2. /\ products'[p].status = "listed" /\ products'[p].price = price
      /\ history'[p] = <<price>>
      /\ \A q \in Products : q # p => products'[q] = products[q] /\ history'[q] = history[q]
  BY <1>1 DEF CTypeOK
<1>3. DTypeOK'
  BY <1>1 DEF DTypeOK, CTypeOK, BTypeOK, ProductRow
<1>4. PriceInForceIsRecorded'
  <2>1. price \in ToSet(<<price>>)
    BY DEF ToSet
  <2> QED
    BY <1>2, <2>1 DEF DInv, PriceInForceIsRecorded, Listed
<1>5. EditsFit'
  <2> SUFFICES ASSUME NEW e \in Editors, edits[e] # NoEdit
               PROVE  LET q == edits[e].product
                      IN /\ products'[q].status # "none"
                         /\ products'[q].status = "listed" =>
                              /\ edits[e].seen <= Len(history'[q])
                              /\ edits[e].seen = Len(history'[q]) =>
                                    edits[e].was = products'[q].price
    BY <1>1 DEF EditsFit, Listed
  <2> DEFINE q == edits[e].product
  <2>1. q \in Products /\ q # p
    BY <1>1, EditTypes DEF DInv, EditsFit
  <2>2. products'[q] = products[q] /\ history'[q] = history[q]
    BY <1>2, <2>1
  <2>3. /\ products[q].status # "none"
        /\ Listed(q) =>
              /\ edits[e].seen <= Len(history[q])
              /\ edits[e].seen = Len(history[q]) => edits[e].was = products[q].price
    BY DEF DInv, EditsFit
  <2> QED
    BY <2>2, <2>3 DEF Listed
<1>6. DraftFit' /\ UnlistedUnseen'
  BY <1>1, <1>2 DEF DInv, DraftFit, UnlistedUnseen
<1>7. SearchesFit'
  <2> SUFFICES ASSUME NEW q \in Products, OneChangeSince(q)'
               PROVE  ShownFits(q)' /\ LineFits(q)'
    BY DEF SearchesFit
  <2>1. q # p
    BY <1>1 DEF DInv, UnlistedUnseen, OneChangeSince
  <2>2. OneChangeSince(q)
    BY <1>1, <1>2, <2>1 DEF OneChangeSince, Listed
  <2>3. ShownFits(q) /\ LineFits(q)
    BY <2>2 DEF DInv, SearchesFit
  <2> QED
    BY <1>1, <1>2, <2>1, <2>3 DEF ShownFits, LineFits, Settled
<1> QED
  BY <1>3, <1>4, <1>5, <1>6, <1>7 DEF DInv

\* An editor reads a product and its history; update_product is one of its callers.
LEMMA ReadKeeps ==
    ASSUME DInv, UNCHANGED <<addresses, saved, shown, draft>>,
           NEW e \in Editors, NEW p \in Products, NEW price \in Prices,
           RecordPriceChangeRead(e, p, price)
    PROVE  DInv'
<1> DEFINE edit == [product |-> p, was |-> products[p].price, price |-> price,
                    seen |-> Len(history[p])]
<1>1. /\ DTypeOK /\ CTypeOK /\ Listed(p) /\ edits[e] = NoEdit
      /\ edits' = [edits EXCEPT ![e] = edit]
      /\ products' = products /\ history' = history /\ shown' = shown /\ draft' = draft
  BY DEF DInv, DTypeOK, RecordPriceChangeRead
<1>2. products[p].price \in Prices /\ Len(history[p]) \in Nat
  BY <1>1, ListedPrice DEF DInv, CTypeOK
<1>3. /\ edits'[e] = edit
      /\ \A f \in Editors : f # e => edits'[f] = edits[f]
  BY <1>1 DEF CTypeOK
<1>4. DTypeOK'
  BY <1>1, <1>2 DEF DTypeOK, CTypeOK, BTypeOK, Edit
<1>5. PriceInForceIsRecorded' /\ DraftFit' /\ UnlistedUnseen'
  BY <1>1 DEF DInv, PriceInForceIsRecorded, Listed, DraftFit, UnlistedUnseen
<1>6. EditsFit'
  <2> SUFFICES ASSUME NEW f \in Editors, edits'[f] # NoEdit
               PROVE  LET q == edits'[f].product
                      IN /\ products[q].status # "none"
                         /\ Listed(q) =>
                              /\ edits'[f].seen <= Len(history[q])
                              /\ edits'[f].seen = Len(history[q]) =>
                                    edits'[f].was = products[q].price
    BY <1>1 DEF EditsFit, Listed
  <2>1. CASE f = e
    BY <1>1, <1>2, <1>3, <2>1 DEF Listed
  <2>2. CASE f # e
    BY <1>3, <2>2 DEF DInv, EditsFit
  <2> QED
    BY <2>1, <2>2
<1>7. SearchesFit'
  <2> SUFFICES ASSUME NEW q \in Products, OneChangeSince(q)'
               PROVE  ShownFits(q)' /\ LineFits(q)'
    BY DEF SearchesFit
  <2>1. ShownFits(q) /\ LineFits(q)
    BY <1>1 DEF DInv, SearchesFit, OneChangeSince, Listed
  <2>2. ASSUME NEW f \in Editors, edits'[f] # NoEdit, edits'[f].product = q
        PROVE  edits'[f].seen >= shown[q].rows
    <3>1. CASE f = e
      BY <1>2, <1>3, <2>1, <2>2, <3>1 DEF ShownFits
    <3>2. CASE f # e
      BY <1>3, <2>1, <2>2, <3>2 DEF ShownFits
    <3> QED
      BY <3>1, <3>2
  <2> QED
    BY <1>1, <2>1, <2>2 DEF ShownFits, LineFits, Settled
<1> QED
  BY <1>4, <1>5, <1>6, <1>7 DEF DInv

\* An edit is committed, somewhere among the rows added since it was read.
LEMMA CommitKeeps ==
    ASSUME DInv, UNCHANGED <<addresses, saved, shown, draft>>,
           NEW e \in Editors, CommitEdit(e)
    PROVE  DInv'
<1> DEFINE p == edits[e].product
<1>1. /\ DTypeOK /\ CTypeOK /\ edits[e] # NoEdit
      /\ edits' = [edits EXCEPT ![e] = NoEdit] /\ shown' = shown /\ draft' = draft
  BY DEF DInv, DTypeOK, CommitEdit
<1>2. /\ p \in Products /\ edits[e].was \in Prices /\ edits[e].price \in Prices
      /\ edits[e].seen \in Nat
  BY <1>1, EditTypes
<1>3. /\ edits' \in [Editors -> Edit] /\ edits'[e] = NoEdit
      /\ \A f \in Editors : f # e => edits'[f] = edits[f]
  BY <1>1 DEF CTypeOK, Edit
<1>4. DraftFit'
  BY <1>1 DEF DInv, DraftFit
<1>5. CASE ~Listed(p)
  <2>1. products' = products /\ history' = history
    BY <1>5, CommitOfGone
  <2>2. DTypeOK'
    BY <1>1, <1>3, <2>1 DEF DTypeOK, CTypeOK, BTypeOK
  <2>3. PriceInForceIsRecorded' /\ UnlistedUnseen'
    BY <1>1, <2>1 DEF DInv, PriceInForceIsRecorded, Listed, UnlistedUnseen
  <2>4. EditsFit'
    BY <1>3, <2>1 DEF DInv, EditsFit, Listed
  <2>5. SearchesFit'
    <3> SUFFICES ASSUME NEW q \in Products, OneChangeSince(q)'
                 PROVE  ShownFits(q)' /\ LineFits(q)'
      BY DEF SearchesFit
    <3>1. ShownFits(q) /\ LineFits(q)
      BY <1>1, <2>1 DEF DInv, SearchesFit, OneChangeSince, Listed
    <3> QED
      BY <1>1, <1>3, <2>1, <3>1 DEF ShownFits, LineFits, Settled
  <2> QED
    BY <1>4, <2>2, <2>3, <2>4, <2>5 DEF DInv
<1>6. CASE Listed(p)
  <2>1. PICK pos \in 1..(Len(history[p]) + 1) : CommittedAt(e, p, pos)
    BY <1>1, <1>6, CommitFacts
  <2>2. /\ history' \in [Products -> Seq(Prices)] /\ products' \in [Products -> ProductRow]
        /\ products'[p].status = "listed"
        /\ \A q \in Products : q # p => history'[q] = history[q] /\ products'[q] = products[q]
    BY <2>1 DEF CommittedAt
  <2>3. /\ pos \in (edits[e].seen + 1)..(Len(history[p]) + 1)
        /\ Len(history'[p]) = Len(history[p]) + 1
        /\ \A k \in 1..(Len(history[p]) + 1) :
              history'[p][k] = IF k < pos THEN history[p][k]
                               ELSE IF k = pos THEN edits[e].price ELSE history[p][k - 1]
        /\ products'[p].price =
              IF edits[e].price = edits[e].was THEN products[p].price ELSE edits[e].price
    BY <2>1 DEF CommittedAt
  <2>4. ToSet(history[p]) \cup {edits[e].price} \subseteq ToSet(history'[p])
    BY <2>1 DEF CommittedAt
  <2> HIDE DEF p
  <2>5. history[p] \in Seq(Prices) /\ Len(history[p]) \in Nat
    BY <1>1, <1>2 DEF CTypeOK
  <2>6. DTypeOK'
    BY <1>1, <1>3, <2>2 DEF DTypeOK, CTypeOK, BTypeOK
  <2>7. PriceInForceIsRecorded'
    <3> SUFFICES ASSUME NEW q \in Products, products'[q].status = "listed"
                 PROVE  products'[q].price \in ToSet(history'[q])
      BY DEF PriceInForceIsRecorded, Listed
    <3>1. CASE q = p
      BY <1>2, <1>6, <2>3, <2>4, <3>1 DEF DInv, PriceInForceIsRecorded
    <3>2. CASE q # p
      BY <2>2, <3>2 DEF DInv, PriceInForceIsRecorded, Listed
    <3> QED
      BY <3>1, <3>2
  <2>8. UnlistedUnseen'
    BY <1>1, <1>2, <2>2 DEF DInv, UnlistedUnseen
  <2>9. EditsFit'
    <3> SUFFICES ASSUME NEW f \in Editors, edits'[f] # NoEdit
                 PROVE  LET q == edits'[f].product
                        IN /\ products'[q].status # "none"
                           /\ products'[q].status = "listed" =>
                                 /\ edits'[f].seen <= Len(history'[q])
                                 /\ edits'[f].seen = Len(history'[q]) =>
                                       edits'[f].was = products'[q].price
      BY DEF EditsFit, Listed
    <3> DEFINE q == edits[f].product
    <3>1. edits'[f] = edits[f] /\ edits[f] # NoEdit
      BY <1>3
    <3>2. q \in Products /\ edits[f].seen \in Nat
      BY <1>1, <3>1, EditTypes
    <3>3. /\ products[q].status # "none"
          /\ Listed(q) =>
                /\ edits[f].seen <= Len(history[q])
                /\ edits[f].seen = Len(history[q]) => edits[f].was = products[q].price
      BY <3>1 DEF DInv, EditsFit
    <3>4. CASE q = p
      BY <1>6, <2>2, <2>3, <2>5, <3>1, <3>2, <3>3, <3>4
    <3>5. CASE q # p
      BY <2>2, <3>1, <3>2, <3>3, <3>5 DEF Listed
    <3> QED
      BY <3>4, <3>5
  <2>10. SearchesFit'
    <3> SUFFICES ASSUME NEW q \in Products, OneChangeSince(q)'
                 PROVE  ShownFits(q)' /\ LineFits(q)'
      BY DEF SearchesFit
    <3>1. CASE q # p
      <4>1. ShownFits(q) /\ LineFits(q)
        BY <1>1, <2>2, <3>1 DEF DInv, SearchesFit, OneChangeSince, Listed
      <4> QED
        BY <1>1, <1>3, <2>2, <3>1, <4>1 DEF ShownFits, LineFits, Settled
    <3>2. CASE q = p
      <4> DEFINE n == Len(history[p])
      <4>1. shown[p] \in Shown
        BY <1>1, <1>2 DEF DTypeOK
      <4>2. OneChangeSince(p) /\ n + 1 <= shown[p].rows + 1
        BY <1>1, <1>6, <2>3, <2>5, <3>2, <4>1 DEF OneChangeSince, Shown
      <4>3. ShownFits(p) /\ LineFits(p)
        BY <1>2, <4>2 DEF DInv, SearchesFit
      <4>4. shown[p].rows = n /\ n >= 1
        BY <2>5, <4>1, <4>2, <4>3 DEF ShownFits, Shown
      <4>5. /\ history[p][n] = shown[p].price /\ products[p].price = shown[p].price
        BY <4>3, <4>4 DEF ShownFits, Settled, Last
      <4>6. edits[e].seen = n /\ edits[e].was = products[p].price
        <5>1. edits[e].seen >= n
          BY <1>1, <4>3, <4>4 DEF ShownFits, p
        <5>2. edits[e].seen <= n /\ (edits[e].seen = n => edits[e].was = products[p].price)
          BY <1>1, <1>6 DEF DInv, EditsFit, p
        <5> QED
          BY <1>2, <2>5, <5>1, <5>2
      <4>7. pos = n + 1
        BY <2>3, <2>5, <4>6
      <4>8. /\ history'[p][n] = shown[p].price /\ history'[p][n + 1] = edits[e].price
            /\ products'[p].price = edits[e].price
        BY <2>3, <2>5, <4>4, <4>5, <4>6, <4>7
      <4>9. ShownFits(q)'
        <5>1. Settled(q)'
          <6>1. history'[q] # <<>> /\ history'[q][Len(history'[q])] = products'[q].price
            BY <1>2, <2>2, <2>3, <2>5, <3>2, <4>8
          <6> QED
            BY <6>1 DEF Settled, Last
        <5>2. shown'[q].rows \in 1..Len(history'[q])
              /\ history'[q][shown'[q].rows] = shown'[q].price
          BY <1>1, <2>3, <2>5, <3>2, <4>4, <4>8
        <5>3. ASSUME NEW f \in Editors, edits'[f] # NoEdit, edits'[f].product = q
              PROVE  edits'[f].seen >= shown'[q].rows
          BY <1>1, <1>3, <3>2, <4>3, <5>3 DEF ShownFits
        <5> QED
          BY <5>1, <5>2, <5>3 DEF ShownFits
      <4>10. LineFits(q)'
        BY <1>1, <3>2, <4>3, <4>5 DEF LineFits
      <4> QED
        BY <4>9, <4>10
    <3> QED
      BY <3>1, <3>2
  <2> QED
    BY <1>4, <2>6, <2>7, <2>8, <2>9, <2>10 DEF DInv
<1> QED
  BY <1>5, <1>6

\* A product leaves the catalog with its history; edits of it are still in flight.
LEMMA DeleteProductKeeps ==
    ASSUME DInv, UNCHANGED <<addresses, saved, shown, draft>>,
           NEW p \in Products, DeleteProduct(p)
    PROVE  DInv'
<1>1. /\ DTypeOK /\ CTypeOK /\ Listed(p)
      /\ products' = [products EXCEPT ![p] = [status |-> "deleted", price |-> NoPrice]]
      /\ history' = [history EXCEPT ![p] = <<>>]
      /\ edits' = edits /\ shown' = shown /\ draft' = draft
  BY DEF DInv, DTypeOK, DeleteProduct
<1>2. /\ products'[p].status = "deleted"
      /\ \A q \in Products : q # p => products'[q] = products[q] /\ history'[q] = history[q]
  BY <1>1 DEF CTypeOK
<1>3. DTypeOK'
  BY <1>1 DEF DTypeOK, CTypeOK, BTypeOK, ProductRow
<1>4. PriceInForceIsRecorded'
  BY <1>2 DEF DInv, PriceInForceIsRecorded, Listed
<1>5. EditsFit'
  <2> SUFFICES ASSUME NEW e \in Editors, edits[e] # NoEdit
               PROVE  LET q == edits[e].product
                      IN /\ products'[q].status # "none"
                         /\ products'[q].status = "listed" =>
                              /\ edits[e].seen <= Len(history'[q])
                              /\ edits[e].seen = Len(history'[q]) =>
                                    edits[e].was = products'[q].price
    BY <1>1 DEF EditsFit, Listed
  <2> DEFINE q == edits[e].product
  <2>1. q \in Products
    BY <1>1, EditTypes
  <2>2. /\ products[q].status # "none"
        /\ Listed(q) =>
              /\ edits[e].seen <= Len(history[q])
              /\ edits[e].seen = Len(history[q]) => edits[e].was = products[q].price
    BY DEF DInv, EditsFit
  <2>3. CASE q = p
    BY <1>2, <2>3
  <2>4. CASE q # p
    BY <1>2, <2>1, <2>2, <2>4 DEF Listed
  <2> QED
    BY <2>3, <2>4
<1>6. DraftFit' /\ UnlistedUnseen'
  BY <1>1, <1>2 DEF DInv, DraftFit, UnlistedUnseen
<1>7. SearchesFit'
  <2> SUFFICES ASSUME NEW q \in Products, OneChangeSince(q)'
               PROVE  ShownFits(q)' /\ LineFits(q)'
    BY DEF SearchesFit
  <2>1. q # p
    BY <1>2 DEF OneChangeSince, Listed
  <2>2. OneChangeSince(q)
    BY <1>1, <1>2, <2>1 DEF OneChangeSince, Listed
  <2>3. ShownFits(q) /\ LineFits(q)
    BY <2>2 DEF DInv, SearchesFit
  <2> QED
    BY <1>1, <1>2, <2>1, <2>3 DEF ShownFits, LineFits, Settled
<1> QED
  BY <1>3, <1>4, <1>5, <1>6, <1>7 DEF DInv

-----------------------------------------------------------------------------
(* The requests for a draft. *)

\* A request for a draft touches neither the catalog nor the address book.
LEMMA CatalogAlone ==
    ASSUME DInv, UNCHANGED <<cvars, addresses>>
    PROVE  /\ CTypeOK' /\ BTypeOK' /\ PriceInForceIsRecorded' /\ EditsFit'
           /\ \A p \in Products : Listed(p)' = Listed(p)
<1>1. /\ DTypeOK /\ PriceInForceIsRecorded /\ EditsFit
      /\ products' = products /\ history' = history /\ edits' = edits
      /\ addresses' = addresses
  BY DEF DInv, cvars
<1> QED
  BY <1>1 DEF DTypeOK, CTypeOK, BTypeOK, PriceInForceIsRecorded, EditsFit, Listed

\* No exceeding without a change.
LEMMA SamePriceIsNoRise ==
    ASSUME NEW price \in Prices
    PROVE  ~Exceeds(price, price)
<1>1. price \in Nat
  BY PricesAssumption
<1> QED
  BY <1>1 DEF Exceeds

\* A search shows the price in force, with no draft under way.
LEMMA SearchKeeps ==
    ASSUME DInv, NEW p \in Products, Search(p)
    PROVE  DInv'
<1> DEFINE row == [price |-> products[p].price, rows |-> Len(history[p]),
                   settled |-> Settled(p) /\ \A e \in Editors :
                                  edits[e] # NoEdit => edits[e].product # p]
<1>1. /\ DTypeOK /\ CTypeOK /\ Listed(p) /\ ~draft.open
      /\ shown' = [shown EXCEPT ![p] = row]
      /\ UNCHANGED <<cvars, addresses>>
      /\ products' = products /\ history' = history /\ edits' = edits
      /\ addresses' = addresses /\ saved' = saved /\ draft' = draft
  BY DEF DInv, DTypeOK, Search, cvars
<1>2. row \in Shown
  <2>1. products[p] \in ProductRow /\ Len(history[p]) \in Nat
    BY <1>1 DEF CTypeOK
  <2>2. (Settled(p) /\ \A e \in Editors : edits[e] # NoEdit => edits[e].product # p) \in BOOLEAN
    OBVIOUS
  <2> QED
    BY <2>1, <2>2 DEF Shown, ProductRow
<1>3. shown'[p] = row /\ \A q \in Products : q # p => shown'[q] = shown[q]
  BY <1>1 DEF DTypeOK
<1>4. DTypeOK'
  BY <1>1, <1>2, CatalogAlone DEF DTypeOK
<1>5. DraftFit'
  BY <1>1 DEF DInv, DraftFit
<1>6. UnlistedUnseen'
  BY <1>1, <1>3 DEF DInv, UnlistedUnseen, Listed
<1>7. SearchesFit'
  <2> SUFFICES ASSUME NEW q \in Products, OneChangeSince(q)'
               PROVE  ShownFits(q)' /\ LineFits(q)'
    BY DEF SearchesFit
  <2>1. CASE q = p
    <3>1. Settled(p) /\ \A e \in Editors : edits[e] # NoEdit => edits[e].product # p
      <4>1. shown'[p].settled
        BY <2>1 DEF OneChangeSince
      <4>2. shown'[p].settled =
              (Settled(p) /\ \A e \in Editors : edits[e] # NoEdit => edits[e].product # p)
        BY <1>3
      <4> QED
        BY <4>1, <4>2, Zenon
    <3>2. history[p] \in Seq(Prices)
      BY <1>1 DEF CTypeOK
    <3>3. /\ Len(history[p]) \in 1..Len(history[p])
          /\ history[p][Len(history[p])] = products[p].price
      BY <3>1, <3>2 DEF Settled, Last
    <3>4. draft.price[p] = NoPrice
      BY <1>1 DEF DInv, DraftFit, NoDraft
    <3>5. ShownFits(p)'
      BY <1>1, <1>3, <3>1, <3>3 DEF ShownFits, Settled
    <3>6. LineFits(p)'
      BY <1>1, <3>4 DEF LineFits
    <3> QED
      BY <2>1, <3>5, <3>6
  <2>2. CASE q # p
    <3>1. ShownFits(q) /\ LineFits(q)
      BY <1>1, <1>3, <2>2 DEF DInv, SearchesFit, OneChangeSince, Listed
    <3> QED
      BY <1>1, <1>3, <2>2, <3>1 DEF ShownFits, LineFits, Settled
  <2> QED
    BY <2>1, <2>2
<1> QED
  BY <1>1, <1>4, <1>5, <1>6, <1>7, CatalogAlone DEF DInv

\* A step of a draft that leaves what was shown alone: it is enough to look at the
\* lines that were in order before.
LEMMA DraftStepKeeps ==
    ASSUME DInv, UNCHANGED <<cvars, addresses, shown>>, saved' \in BOOLEAN,
           draft' \in Draft, DraftFit',
           \A p \in Products :
              OneChangeSince(p) /\ ShownFits(p) /\ LineFits(p) => LineFits(p)'
    PROVE  DInv'
<1>1. /\ DTypeOK /\ UnlistedUnseen /\ SearchesFit /\ shown' = shown
      /\ products' = products /\ history' = history /\ edits' = edits
  BY DEF DInv, cvars
<1>2. DTypeOK'
  BY <1>1, CatalogAlone DEF DTypeOK
<1>3. UnlistedUnseen'
  BY <1>1 DEF UnlistedUnseen
<1>4. SearchesFit'
  <2> SUFFICES ASSUME NEW p \in Products, OneChangeSince(p)'
               PROVE  ShownFits(p)' /\ LineFits(p)'
    BY DEF SearchesFit
  <2>1. OneChangeSince(p)
    BY <1>1 DEF OneChangeSince, Listed
  <2>2. ShownFits(p) /\ LineFits(p)
    BY <1>1, <2>1 DEF SearchesFit
  <2>3. ShownFits(p)'
    BY <1>1, <2>2 DEF ShownFits, Settled
  <2> QED
    BY <2>1, <2>2, <2>3
<1> QED
  BY <1>2, <1>3, <1>4, CatalogAlone DEF DInv

\* A request begins with its address found.
LEMMA StartDraftKeeps ==
    ASSUME DInv, NEW items \in SUBSET Products, NEW given \in Given,
           NEW acknowledged \in BOOLEAN, StartDraft(items, given, acknowledged)
    PROVE  DInv'
<1>1. /\ draft' = [NoDraft EXCEPT !.open = TRUE, !.items = items, !.given = given,
                                  !.acknowledged = acknowledged]
      /\ UNCHANGED <<cvars, addresses, shown>> /\ saved' \in BOOLEAN
  BY DEF StartDraft, DInv, DTypeOK
<1>2. draft' \in Draft
  BY <1>1 DEF NoDraft, Draft
<1>3. draft'.open = TRUE /\ draft'.item = {} /\ \A p \in Products : draft'.price[p] = NoPrice
  BY <1>1 DEF NoDraft
<1>4. DraftFit'
  BY <1>3 DEF DraftFit
<1>5. \A p \in Products : LineFits(p)'
  BY <1>3 DEF LineFits
<1> QED
  BY <1>1, <1>2, <1>4, <1>5, DraftStepKeeps

\* The price in force is read.
LEMMA ReadPriceKeeps ==
    ASSUME DInv, NEW p \in Products, ReadPrice(p)
    PROVE  DInv'
<1>1. /\ draft \in Draft /\ CTypeOK /\ draft.item = {} /\ p \in draft.items
      /\ draft' = [draft EXCEPT !.items = draft.items \ {p}, !.item = {p},
                                !.price[p] = products[p].price]
      /\ UNCHANGED <<cvars, addresses, shown>> /\ saved' \in BOOLEAN
      /\ shown' = shown /\ products' = products
  BY DEF DInv, DTypeOK, ReadPrice, cvars
<1>2. products[p].price \in Prices \cup {NoPrice}
  BY <1>1 DEF CTypeOK, ProductRow
<1>3. draft' \in Draft
  BY <1>1, <1>2 DEF Draft
<1>4. /\ draft'.open = draft.open /\ draft'.item = {p}
      /\ draft'.acknowledged = draft.acknowledged
      /\ draft'.price[p] = products[p].price
      /\ \A q \in Products : q # p => draft'.price[q] = draft.price[q]
  BY <1>1 DEF Draft
<1>5. draft.open
  BY <1>1 DEF DInv, DraftFit, NoDraft
<1>6. DraftFit'
  BY <1>4, <1>5 DEF DraftFit
<1>7. ASSUME NEW q \in Products, LineFits(q)
      PROVE  LineFits(q)'
  <2>1. CASE q = p
    BY <1>1, <1>4, <2>1 DEF LineFits
  <2>2. CASE q # p
    BY <1>1, <1>4, <1>7, <2>2 DEF LineFits
  <2> QED
    BY <2>1, <2>2
<1> QED
  BY <1>1, <1>3, <1>6, <1>7, DraftStepKeeps

\* A price that passes the check, with one change since the search, is compared with
\* what the search has shown, whether the change came before the price was read,
\* between the two reads, or not at all.
LEMMA CheckPriceKeeps ==
    ASSUME DInv, NEW p \in Products, CheckPrice(p)
    PROVE  DInv'
<1>1. /\ draft \in Draft /\ CTypeOK /\ p \in draft.item /\ Passes(p)
      /\ draft' = [draft EXCEPT !.item = {}]
      /\ UNCHANGED <<cvars, addresses, shown>> /\ saved' \in BOOLEAN
      /\ shown' = shown /\ products' = products
  BY DEF DInv, DTypeOK, CheckPrice, cvars
<1>2. draft' \in Draft
  BY <1>1 DEF Draft
<1>3. /\ draft'.open = draft.open /\ draft'.item = {} /\ draft'.price = draft.price
      /\ draft'.acknowledged = draft.acknowledged
  BY <1>1 DEF Draft
<1>4. draft.open
  BY <1>1 DEF DInv, DraftFit, NoDraft
<1>5. DraftFit'
  BY <1>3, <1>4 DEF DraftFit
<1>6. ASSUME NEW q \in Products, OneChangeSince(q), ShownFits(q), LineFits(q)
      PROVE  LineFits(q)'
  <2>1. CASE q # p
    <3>1. q \notin draft.item
      BY <1>1, <2>1 DEF DInv, DraftFit
    <3> QED
      BY <1>1, <1>3, <1>6, <3>1 DEF LineFits
  <2>2. CASE q = p
    <3> DEFINE n == Len(history[p])
               price == draft.price[p]
    <3> SUFFICES ASSUME price # NoPrice, ~draft.acknowledged
                 PROVE  ~Exceeds(price, shown[p].price)
      BY <1>1, <1>3, <1>6, <2>2 DEF LineFits
    <3>1. history[p] \in Seq(Prices) /\ n \in Nat /\ shown[p] \in Shown
      BY <1>1 DEF DInv, DTypeOK, CTypeOK
    <3>2. /\ shown[p].rows \in 1..n /\ n <= shown[p].rows + 1
          /\ history[p][shown[p].rows] = shown[p].price
          /\ history[p][n] = products[p].price
          /\ price \in {shown[p].price, products[p].price}
      BY <1>6, <2>2 DEF OneChangeSince, ShownFits, LineFits, Settled, Last
    <3>3. shown[p].price \in Prices
      BY <3>1, <3>2
    <3>4. CASE n = shown[p].rows
      BY <3>2, <3>3, <3>4, SamePriceIsNoRise
    <3>5. CASE n = shown[p].rows + 1
      <4>1. n >= 2 /\ n - 1 = shown[p].rows
        BY <3>1, <3>2, <3>5
      <4>2. ~PriceHasRisen(p, price)
        BY <1>1 DEF Passes
      <4> QED
        BY <3>2, <4>1, <4>2 DEF PriceHasRisen
    <3>6. n = shown[p].rows \/ n = shown[p].rows + 1
      BY <3>1, <3>2
    <3> QED
      BY <3>4, <3>5, <3>6
  <2> QED
    BY <2>1, <2>2
<1> QED
  BY <1>1, <1>2, <1>5, <1>6, DraftStepKeeps

\* A request ends with a cart or without one.
LEMMA EndDraftKeeps ==
    ASSUME DInv, CommitDraft \/ RefuseDraft
    PROVE  DInv'
<1>1. draft' = NoDraft /\ UNCHANGED <<cvars, addresses, shown>> /\ saved' \in BOOLEAN
  BY DEF CommitDraft, RefuseDraft, DInv, DTypeOK, Draft
<1>2. draft' \in Draft
  BY <1>1 DEF NoDraft, Draft, Given
<1>3. DraftFit'
  BY <1>1 DEF DraftFit, NoDraft
<1>4. \A p \in Products : LineFits(p)'
  BY <1>1 DEF LineFits, NoDraft
<1> QED
  BY <1>1, <1>2, <1>3, <1>4, DraftStepKeeps

-----------------------------------------------------------------------------
(* The theorems. *)

\* The book alone moves nothing of the catalog or of a draft.
LEMMA BookAlone ==
    ASSUME DInv, BTypeOK', UNCHANGED <<cvars, saved, shown, draft>>
    PROVE  DInv'
<1>1. /\ products' = products /\ history' = history /\ edits' = edits
      /\ saved' = saved /\ shown' = shown /\ draft' = draft
  BY DEF cvars
<1>2. DTypeOK' /\ PriceInForceIsRecorded' /\ EditsFit' /\ DraftFit' /\ UnlistedUnseen'
  BY <1>1 DEF DInv, DTypeOK, CTypeOK, PriceInForceIsRecorded, EditsFit, DraftFit,
              UnlistedUnseen, Listed
<1>3. SearchesFit'
  BY <1>1 DEF DInv, SearchesFit, OneChangeSince, ShownFits, LineFits, Settled, Listed
<1> QED
  BY <1>2, <1>3 DEF DInv

\* Every step keeps the invariant.
LEMMA DStep ==
    ASSUME DInv, OneDefault, [DNext]_dvars
    PROVE  DInv'
<1>1. CASE Drafting
  BY <1>1, SearchKeeps, StartDraftKeeps, ReadPriceKeeps, CheckPriceKeeps, EndDraftKeeps
  DEF Drafting
<1>2. CASE CNext /\ UNCHANGED <<addresses, saved, shown, draft>>
  BY <1>2, CreateProductKeeps, ReadKeeps, CommitKeeps, DeleteProductKeeps
  DEF CNext, UpdateProductRead
<1>3. CASE BNext /\ UNCHANGED <<cvars, saved, shown, draft>>
  <2>1. BTypeOK'
    BY <1>3, BookStep DEF DInv, DTypeOK
  <2> QED
    BY <1>3, <2>1, BookAlone
<1>4. CASE UNCHANGED dvars
  <2>1. UNCHANGED <<cvars, saved, shown, draft>> /\ BTypeOK'
    BY <1>4 DEF dvars, cvars, DInv, DTypeOK, BTypeOK
  <2> QED
    BY <2>1, BookAlone
<1> QED
  BY <1>1, <1>2, <1>3, <1>4 DEF DNext

\* Before the first product, everything is empty.
LEMMA DInitially ==
    ASSUME DInit
    PROVE  DInv
<1>1. DTypeOK
  <2>1. CTypeOK
    BY DEF DInit, CInit, CTypeOK, ProductRow, Edit
  <2>2. BTypeOK /\ saved \in BOOLEAN /\ draft \in Draft
    BY DEF DInit, BInit, BTypeOK, AddressStatus, Draft, NoDraft, Given
  <2>3. shown \in [Products -> Shown]
    BY DEF DInit, Shown, NotShown
  <2> QED
    BY <2>1, <2>2, <2>3 DEF DTypeOK
<1>2. PriceInForceIsRecorded /\ EditsFit /\ DraftFit /\ UnlistedUnseen /\ SearchesFit
  BY DEF DInit, CInit, PriceInForceIsRecorded, EditsFit, DraftFit, UnlistedUnseen,
         SearchesFit, OneChangeSince, Listed, NotShown, NoDraft
<1> QED
  BY <1>1, <1>2 DEF DInv

\* The inductive invariant holds whatever is edited, searched and drafted.
THEOREM DraftingInvariance == DSpec => []DInv
<1>1. DInit => DInv
  BY DInitially
<1>2. DInv /\ OneDefault /\ [DNext]_dvars => DInv'
  BY DStep
<1> QED
  BY <1>1, <1>2, DefaultAddress, PTL DEF DSpec

\* Products, histories, edits, addresses and drafts keep their types.
THEOREM DraftingTypes == DSpec => []DTypeOK
<1>1. DInv => DTypeOK
  BY DEF DInv
<1> QED
  BY <1>1, DraftingInvariance, PTL

\* The price in force always has a row of its own in the history, however many edits
\* overlap (catalog.py, price_history.py).
THEOREM RecordedPrices == DSpec => []PriceInForceIsRecorded
<1>1. DInv => PriceInForceIsRecorded
  BY DEF DInv
<1> QED
  BY <1>1, DraftingInvariance, PTL

\* An edit that overlaps no other one leaves the newest row and the price in force
\* together, whatever the edits before it have left behind.
THEOREM LoneEdits == DSpec => EditsSettle
<1>1. ASSUME DInv, [DNext]_dvars
      PROVE  [LoneEditSettles]_dvars
  <2> SUFFICES ASSUME NEW e \in Editors, NEW p \in Products, Listed(p), Alone(e, p),
                      edits'[e] = NoEdit
               PROVE  Settled(p)'
    BY DEF LoneEditSettles
  <2>1. /\ CTypeOK /\ edits[e] # NoEdit /\ edits[e].product = p
        /\ edits[e].seen = Len(history[p]) /\ edits[e].was = products[p].price
        /\ history[p] \in Seq(Prices) /\ Len(history[p]) \in Nat
    BY SMTT(30), <1>1 DEF Alone, DInv, DTypeOK, CTypeOK, EditsFit
  <2>2. CommitEdit(e)
    <3>1. edits' # edits
      BY <2>1
    <3>2. PICK f \in Editors : \/ CommitEdit(f)
                               \/ \E q \in Products, price \in Prices :
                                     RecordPriceChangeRead(f, q, price)
      <4>1. CNext
        BY <1>1, <3>1 DEF DNext, Drafting, StartDraft, Search, ReadPrice, CheckPrice,
                          CommitDraft, RefuseDraft, dvars, cvars
      <4> QED
        BY <3>1, <4>1 DEF CNext, CreateProduct, DeleteProduct, UpdateProductRead
    <3>3. f = e
      BY <2>1, <3>2 DEF CommitEdit, RecordPriceChangeRead, CTypeOK
    <3> QED
      BY <2>1, <3>2, <3>3 DEF RecordPriceChangeRead
  <2>3. PICK pos \in 1..(Len(history[p]) + 1) : CommittedAt(e, p, pos)
    BY <2>1, <2>2, CommitFacts
  <2>4. pos = Len(history[p]) + 1
    BY <2>1, <2>3 DEF CommittedAt
  <2>5. /\ Len(history'[p]) = Len(history[p]) + 1
        /\ history'[p][Len(history[p]) + 1] = edits[e].price
        /\ products'[p].price = edits[e].price
        /\ history'[p] \in Seq(Prices)
    BY SMTT(30), <2>1, <2>3, <2>4 DEF CommittedAt
  <2> QED
    BY <2>1, <2>5 DEF Settled, Last
<1> QED
  BY <1>1, DraftingInvariance, PTL DEF DSpec, EditsSettle

\* A single change since the customer's last search never puts a line into a cart at
\* more than 10% above what was shown without an acknowledgement, for any prices and
\* wherever between the draft's reads the change is committed (price_history.py).
THEOREM CaughtRises == DSpec => SingleRiseIsCaught
<1>1. ASSUME DInv, [DNext]_dvars
      PROVE  [SingleRise]_dvars
  <2> SUFFICES ASSUME NEW p \in Products, DraftsUnacknowledged(p), Listed(p),
                      shown[p].settled, Len(history[p]) <= shown[p].rows + 1
               PROVE  ~Exceeds(draft.price[p], shown[p].price)
    BY DEF SingleRise
  <2>1. LineFits(p)
    BY <1>1 DEF DInv, SearchesFit, OneChangeSince
  <2> QED
    BY <2>1 DEF LineFits, DraftsUnacknowledged, AllChecked
<1> QED
  BY <1>1, DraftingInvariance, PTL DEF DSpec, SingleRiseIsCaught

=============================================================================
