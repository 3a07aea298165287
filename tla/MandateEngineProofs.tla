------------------------- MODULE MandateEngineProofs -------------------------
(***************************************************************************)
(* Proofs about MandateEngine for every number of workers, rows, budgets   *)
(* and totals.                                                             *)
(***************************************************************************)
EXTENDS MandateEngine, MandatesProofs

-----------------------------------------------------------------------------
(* Types. *)

\* What a worker's request holds, and that beginning and ending one keeps it so.
LEMMA RequestTypes ==
    ASSUME TypeOK, NEW w \in Workers
    PROVE  /\ req[w] \in Request
           /\ req[w].seen \in Nat
           /\ req[w].op \in IntentOps => req[w].id \in IntentIds
           /\ req[w].op = "sign_cart" => req[w].id \in CartIds
           /\ req[w].op \in PaymentOps => req[w].id \in PaymentIds
           /\ req[w].op = "cancel_payment" => req[w].id \in PaymentIds
BY DEF TypeOK, Request, Idle, IntentOps, PaymentOps

\* A request that begins is one of the known requests.
LEMMA BeginTypes ==
    ASSUME TypeOK, NEW w \in Workers, NEW op, NEW kind, NEW id, Begin(w, op, kind, id),
           \/ op \in IntentOps /\ kind = "intent" /\ id \in IntentIds
           \/ op = "sign_cart" /\ kind = "cart" /\ id \in CartIds
           \/ op \in PaymentOps \cup {"cancel_payment"}
                 /\ kind = "payment" /\ id \in PaymentIds
    PROVE  req' \in [Workers -> Request]
<1>1. <<kind, id>> \in MandateKeys
  BY KeyTypes
<1>2. Len(audit[<<kind, id>>]) \in Nat
  BY <1>1, LenProperties DEF TypeOK, MTypeOK
<1>3. [op |-> op, id |-> id, seen |-> Len(audit[<<kind, id>>])] \in Request
  BY <1>2 DEF Request
<1> QED
  BY <1>3 DEF Begin, TypeOK

\* A worker whose request has ended is idle.
LEMMA EndTypes ==
    ASSUME TypeOK, NEW w \in Workers, End(w)
    PROVE  req' \in [Workers -> Request]
BY DEF End, TypeOK, Request

\* No step breaks a type.
LEMMA TypeStep ==
    ASSUME TypeOK, [Next]_vars
    PROVE  TypeOK'
<1> USE KeyTypes
<1>1. ASSUME NEW i \in IntentIds, NEW b \in Budgets \cup {NoBudget},
             CreateDraftIntent(i, b), UNCHANGED req
      PROVE  TypeOK'
  <2>1. intents' \in [IntentIds -> IntentRow]
    BY <1>1 DEF TypeOK, MTypeOK, CreateDraftIntent, IntentRow, IntentStatus
  <2>2. audit' \in [MandateKeys -> Seq(AuditRow)]
    BY <1>1, RecordTransitionFacts DEF TypeOK, CreateDraftIntent, LoggedStatus
  <2> QED
    BY <1>1, <2>1, <2>2 DEF TypeOK, MTypeOK, CreateDraftIntent
<1>2. ASSUME NEW c \in CartIds, NEW i \in IntentIds, NEW t \in CartTotals,
             CreateDraftCart(c, i, t), UNCHANGED req
      PROVE  TypeOK'
  <2>1. carts' \in [CartIds -> CartRow]
    BY <1>2 DEF TypeOK, MTypeOK, CreateDraftCart, CartRow, CartStatus
  <2>2. audit' \in [MandateKeys -> Seq(AuditRow)]
    BY <1>2, RecordTransitionFacts DEF TypeOK, CreateDraftCart, LoggedStatus
  <2> QED
    BY <1>2, <2>1, <2>2 DEF TypeOK, MTypeOK, CreateDraftCart
<1>3. ASSUME NEW w \in Workers, NEW i \in IntentIds, ConfirmIntentRead(w, i)
      PROVE  TypeOK'
  <2>1. req' \in [Workers -> Request]
    BY <1>3, BeginTypes DEF ConfirmIntentRead, IntentOps
  <2> QED
    BY <1>3, <2>1 DEF TypeOK, MTypeOK, ConfirmIntentRead, mvars
<1>4. ASSUME NEW w \in Workers, Pending(w, "sign_intent"),
             SignIntent(req[w].id, req[w].seen), End(w)
      PROVE  TypeOK'
  <2>1. req[w].id \in IntentIds /\ req[w].seen \in Nat
    BY <1>4, RequestTypes DEF Pending, IntentOps
  <2>2. intents' \in [IntentIds -> IntentRow]
    BY ZenonT(60), <1>4, <2>1 DEF TypeOK, MTypeOK, SignIntent, IntentRow, IntentStatus
  <2>3. audit' \in [MandateKeys -> Seq(AuditRow)]
    BY <1>4, <2>1, RecordTransitionFacts DEF TypeOK, SignIntent, LoggedStatus
  <2> QED
    BY <1>4, <2>2, <2>3, EndTypes DEF TypeOK, MTypeOK, SignIntent
<1>5. ASSUME NEW w \in Workers, Pending(w, "expire_intent"),
             ExpireIntent(req[w].id, req[w].seen), End(w)
      PROVE  TypeOK'
  <2>1. req[w].id \in IntentIds /\ req[w].seen \in Nat
    BY <1>5, RequestTypes DEF Pending, IntentOps
  <2>2. intents' \in [IntentIds -> IntentRow]
    BY ZenonT(60), <1>5, <2>1 DEF TypeOK, MTypeOK, ExpireIntent, IntentRow, IntentStatus
  <2>3. audit' \in [MandateKeys -> Seq(AuditRow)]
    BY <1>5, <2>1, RecordTransitionFacts DEF TypeOK, ExpireIntent, LoggedStatus
  <2> QED
    BY <1>5, <2>2, <2>3, EndTypes DEF TypeOK, MTypeOK, ExpireIntent
<1>6. ASSUME NEW w \in Workers, NEW c \in CartIds, ConfirmCartRead(w, c)
      PROVE  TypeOK'
  <2>1. req' \in [Workers -> Request]
    BY <1>6, BeginTypes DEF ConfirmCartRead
  <2> QED
    BY <1>6, <2>1 DEF TypeOK, MTypeOK, ConfirmCartRead, mvars
<1>7. ASSUME NEW w \in Workers, ConfirmCartCommit(w)
      PROVE  TypeOK'
  <2>1. req[w].id \in CartIds /\ req[w].seen \in Nat
    BY <1>7, RequestTypes DEF Pending, ConfirmCartCommit
  <2>2. carts' \in [CartIds -> CartRow]
    <3>1. carts \in [CartIds -> CartRow]
      BY DEF TypeOK, MTypeOK
    <3>2. carts' = [carts EXCEPT ![req[w].id].status = "confirmed",
                                 ![req[w].id].signed = TRUE]
      BY <1>7 DEF ConfirmCartCommit, SignCart
    <3> QED
      BY <2>1, <3>1, <3>2 DEF CartRow, CartStatus
  <2>3. audit' \in [MandateKeys -> Seq(AuditRow)]
    BY <1>7, <2>1, RecordTransitionFacts
    DEF TypeOK, ConfirmCartCommit, SignCart, LoggedStatus
  <2> QED
    BY <1>7, <2>2, <2>3, EndTypes DEF TypeOK, MTypeOK, ConfirmCartCommit, SignCart
<1>8. ASSUME NEW w \in Workers, NEW p \in PaymentIds, NEW c \in CartIds,
             CreatePaymentFlush(w, p, c)
      PROVE  TypeOK'
  <2>1. req' \in [Workers -> Request]
    BY <1>8, BeginTypes DEF CreatePaymentFlush, PaymentOps
  <2>2. carts[c].total \in CartTotals \cup {0}
    BY <1>8 DEF TypeOK, MTypeOK, CartRow
  <2>3. payments' \in [PaymentIds -> PaymentRow]
    BY <1>8, <2>2
    DEF TypeOK, MTypeOK, CreatePaymentFlush, FlushPayment, PaymentRow, PaymentStatus
  <2> QED
    BY <1>8, <2>1, <2>3 DEF TypeOK, MTypeOK, CreatePaymentFlush, FlushPayment
<1>9. ASSUME NEW w \in Workers, CreatePaymentCharge(w)
      PROVE  TypeOK'
  <2>1. req[w].id \in PaymentIds /\ req[w].seen \in Nat
    BY <1>9, RequestTypes DEF Pending, CreatePaymentCharge, PaymentOps
  <2>2. [req[w] EXCEPT !.op = "commit_payment"] \in Request
    BY <1>9, <2>1, RequestTypes
    DEF Pending, CreatePaymentCharge, PaymentOps, IntentOps, Request, Idle
  <2>3. req' \in [Workers -> Request]
    BY <1>9, <2>2 DEF TypeOK, CreatePaymentCharge
  <2>4. charge' \in [PaymentIds -> {"none", "open", "paid"}]
    BY <1>9, <2>1 DEF TypeOK, MTypeOK, CreatePaymentCharge, CreateCharge
  <2> QED
    BY <1>9, <2>3, <2>4 DEF TypeOK, MTypeOK, CreatePaymentCharge, CreateCharge
<1>10. ASSUME NEW w \in Workers, CreatePaymentCommit(w)
       PROVE  TypeOK'
  <2>1. req[w].id \in PaymentIds
    BY <1>10, RequestTypes DEF Pending, CreatePaymentCommit, PaymentOps
  <2>2. payments' \in [PaymentIds -> PaymentRow]
    BY ZenonT(60), <1>10, <2>1
    DEF TypeOK, MTypeOK, CreatePaymentCommit, CommitPayment, PaymentRow, PaymentStatus
  <2>3. audit' \in [MandateKeys -> Seq(AuditRow)]
    BY <1>10, <2>1, RecordTransitionFacts
    DEF TypeOK, CreatePaymentCommit, CommitPayment, LoggedStatus
  <2> QED
    BY <1>10, <2>2, <2>3, EndTypes DEF TypeOK, MTypeOK, CreatePaymentCommit, CommitPayment
<1>11. ASSUME NEW w \in Workers, NEW p \in PaymentIds, CancelPaymentRead(w, p)
       PROVE  TypeOK'
  <2>1. req' \in [Workers -> Request]
    BY <1>11, BeginTypes DEF CancelPaymentRead
  <2> QED
    BY <1>11, <2>1 DEF TypeOK, MTypeOK, CancelPaymentRead, mvars
<1>12. ASSUME NEW w \in Workers, CancelPaymentCommit(w)
       PROVE  TypeOK'
  <2>1. req[w].id \in PaymentIds /\ req[w].seen \in Nat
    BY <1>12, RequestTypes DEF Pending, CancelPaymentCommit
  <2>2. payments' \in [PaymentIds -> PaymentRow]
    BY ZenonT(60), <1>12, <2>1
    DEF TypeOK, MTypeOK, CancelPaymentCommit, CancelPayment, PaymentRow, PaymentStatus,
        ResolvedStatus
  <2>3. audit' \in [MandateKeys -> Seq(AuditRow)]
    BY <1>12, <2>1, RecordTransitionFacts
    DEF TypeOK, CancelPaymentCommit, CancelPayment, LoggedStatus, ResolvedStatus
  <2> QED
    BY <1>12, <2>2, <2>3, EndTypes DEF TypeOK, MTypeOK, CancelPaymentCommit, CancelPayment
<1>13. ASSUME NEW w \in Workers, Abort(w)
       PROVE  TypeOK'
  <2>1. payments' \in [PaymentIds -> PaymentRow]
    <3>1. payments \in [PaymentIds -> PaymentRow]
      BY DEF TypeOK, MTypeOK
    <3>2. \/ payments' = payments
          \/ payments' = [payments EXCEPT ![req[w].id].status = "absent"]
      BY <1>13 DEF Abort, RollBackPayment, mvars
    <3> QED
      BY <3>1, <3>2 DEF PaymentRow, PaymentStatus
  <2> QED
    BY <1>13, <2>1, EndTypes DEF TypeOK, MTypeOK, Abort, RollBackPayment, mvars
<1>14. ASSUME NEW e \in DOMAIN EventStatus, NEW p \in PaymentIds, Webhook(e, p)
       PROVE  TypeOK'
  <2>1. CASE payments[p].status # "pending"
    BY <1>14, <2>1 DEF TypeOK, MTypeOK, Webhook, ProcessWebhook, mvars
  <2>2. CASE payments[p].status = "pending"
    <3>1. EventStatus[e] \in {"executed", "failed"}
      BY DEF EventStatus
    <3>2. payments' \in [PaymentIds -> PaymentRow]
      <4>1. payments \in [PaymentIds -> PaymentRow]
        BY DEF TypeOK, MTypeOK
      <4>2. payments' = [payments EXCEPT ![p].status = EventStatus[e],
                                         ![p].verified = TRUE]
        BY <1>14, <2>2 DEF Webhook, ProcessWebhook
      <4> QED
        BY ZenonT(60), <3>1, <4>1, <4>2 DEF PaymentRow, PaymentStatus, ResolvedStatus
    <3>3. Len(audit[<<"payment", p>>]) \in Nat
      BY LenProperties DEF TypeOK, MTypeOK
    <3>4. audit' \in [MandateKeys -> Seq(AuditRow)]
      BY <1>14, <2>2, <3>1, <3>3, RecordTransitionFacts
      DEF TypeOK, Webhook, ProcessWebhook, LoggedStatus, ResolvedStatus
    <3> QED
      BY <1>14, <2>2, <3>2, <3>4 DEF TypeOK, MTypeOK, Webhook, ProcessWebhook
  <2> QED
    BY <2>1, <2>2
<1>15. ASSUME NEW i \in IntentIds, OutliveTTL(i), UNCHANGED req
       PROVE  TypeOK'
  BY <1>15 DEF TypeOK, MTypeOK, OutliveTTL
<1>16. ASSUME NEW p \in PaymentIds, PayFails(p) \/ PaySucceeds(p), UNCHANGED req
       PROVE  TypeOK'
  BY <1>16 DEF TypeOK, MTypeOK, PayFails, PaySucceeds, Events, EventStatus
<1>17. CASE UNCHANGED vars
  BY SMTT(30), <1>17 DEF TypeOK, MTypeOK, vars
<1> QED
  BY <1>1, <1>2, <1>3, <1>4, <1>5, <1>6, <1>7, <1>8, <1>9, <1>10, <1>11, <1>12, <1>13,
     <1>14, <1>15, <1>16, <1>17
  DEF Next, Begins, Continues, ConfirmIntentCommit, Inserts, World

-----------------------------------------------------------------------------
(* The inductive invariant. *)

\* What the rows are built from stays: each conjunct of RowsGrounded is
\* disturbed only by the transitions of one kind of mandate.
LEMMA RowsStep ==
    ASSUME TypeOK, RowsGrounded, RequestsGrounded, [Next]_vars
    PROVE  RowsGrounded'
<1> USE DEF RowsGrounded
<1>0. /\ intents \in [IntentIds -> IntentRow]
      /\ carts \in [CartIds -> CartRow]
      /\ payments \in [PaymentIds -> PaymentRow]
  BY DEF TypeOK, MTypeOK
<1>1. ASSUME NEW i \in IntentIds, NEW b \in Budgets \cup {NoBudget},
             CreateDraftIntent(i, b), UNCHANGED req
      PROVE  RowsGrounded'
  <2>1. /\ intents' = [intents EXCEPT ![i] =
                         [status |-> "draft", budget |-> b, signed |-> FALSE]]
        /\ UNCHANGED <<carts, payments>>
        /\ intents[i].status = "none"
    BY <1>1 DEF CreateDraftIntent, IsNextId
  <2>2. \A c \in CartIds : carts[c].status # "none" => carts[c].intent # i
    BY <2>1
  <2> QED
    BY <1>0, <2>1, <2>2 DEF CartRow, CartStatus
<1>2. ASSUME NEW c \in CartIds, NEW i \in IntentIds, NEW t \in CartTotals,
             CreateDraftCart(c, i, t), UNCHANGED req
      PROVE  RowsGrounded'
  <2>1. /\ carts' = [carts EXCEPT ![c] = [status |-> "draft", intent |-> i,
                                          total |-> t, signed |-> FALSE]]
        /\ UNCHANGED <<intents, payments>>
        /\ carts[c].status = "none"
        /\ intents[i].status = "confirmed"
    BY <1>2 DEF CreateDraftCart, IsNextId
  <2>2. \A p \in PaymentIds : payments[p].status # "none" => payments[p].cart # c
    BY SMTT(30), <2>1
  <2> QED
    BY <1>0, <2>1, <2>2
<1>3. ASSUME NEW w \in Workers, Pending(w, "sign_intent"),
             SignIntent(req[w].id, req[w].seen), End(w)
      PROVE  RowsGrounded'
  <2>1. req[w].id \in IntentIds
    BY <1>3, RequestTypes DEF Pending, IntentOps
  <2>2. /\ intents' = [intents EXCEPT ![req[w].id].status = "confirmed",
                                      ![req[w].id].signed = TRUE]
        /\ UNCHANGED <<carts, payments>>
    BY <1>3 DEF SignIntent
  <2>3. \A i \in IntentIds :
          /\ intents'[i].budget = intents[i].budget
          /\ intents[i].signed => intents'[i].signed
          /\ intents'[i].status = "confirmed" => intents'[i].signed
          /\ intents'[i].signed => intents'[i].status # "none"
    BY <1>0, <2>1, <2>2 DEF IntentRow
  <2> QED
    BY <2>2, <2>3
<1>4. ASSUME NEW w \in Workers, Pending(w, "expire_intent"),
             ExpireIntent(req[w].id, req[w].seen), End(w)
      PROVE  RowsGrounded'
  <2>1. req[w].id \in IntentIds
    BY <1>4, RequestTypes DEF Pending, IntentOps
  <2>2. /\ intents' = [intents EXCEPT ![req[w].id].status = "expired"]
        /\ UNCHANGED <<carts, payments>>
    BY <1>4 DEF ExpireIntent
  <2>3. \A i \in IntentIds :
          /\ intents'[i].budget = intents[i].budget
          /\ intents'[i].signed = intents[i].signed
          /\ intents'[i].status = "confirmed" => intents'[i].signed
          /\ intents'[i].signed => intents'[i].status # "none"
    BY <1>0, <2>1, <2>2 DEF IntentRow
  <2> QED
    BY <2>2, <2>3
<1>5. ASSUME NEW w \in Workers, ConfirmCartCommit(w)
      PROVE  RowsGrounded'
  <2> DEFINE id == req[w].id
  <2>1. /\ id \in CartIds
        /\ carts[id].status # "none"
        /\ WithinBudget(carts[id].total, intents[carts[id].intent].budget)
    BY <1>5, RequestTypes DEF Pending, ConfirmCartCommit, RequestsGrounded, RequestGrounded
  <2>2. /\ carts' = [carts EXCEPT ![id].status = "confirmed", ![id].signed = TRUE]
        /\ UNCHANGED <<intents, payments>>
    BY <1>5 DEF ConfirmCartCommit, SignCart
  <2> HIDE DEF id
  <2>3. /\ \A c \in CartIds : carts'[c].intent = carts[c].intent
                                 /\ carts'[c].total = carts[c].total
        /\ \A c \in CartIds : c # id => carts'[c] = carts[c]
        /\ carts'[id].status = "confirmed" /\ carts'[id].signed
    BY <1>0, <2>1, <2>2 DEF CartRow
  <2>4. \A c \in CartIds :
          /\ carts'[c].status # "none" => carts[c].status # "none"
          /\ carts[c].status = "confirmed" => carts'[c].status = "confirmed"
          /\ carts'[c].status = "confirmed" =>
                /\ carts'[c].signed
                /\ WithinBudget(carts'[c].total, intents[carts'[c].intent].budget)
    BY <2>1, <2>3
  <2>5. \A p \in PaymentIds : payments[p].status # "none" =>
          /\ payments[p].cart \in CartIds
          /\ carts'[payments[p].cart].status = "confirmed"
          /\ payments[p].amount = carts'[payments[p].cart].total
    BY <2>3, <2>4
  <2> QED
    BY <2>2, <2>3, <2>4, <2>5
<1>6. ASSUME NEW w \in Workers, NEW p \in PaymentIds, NEW c \in CartIds,
             CreatePaymentFlush(w, p, c)
      PROVE  RowsGrounded'
  <2>1. /\ payments' = [payments EXCEPT ![p] = [status |-> "uncommitted", cart |-> c,
                                                amount |-> carts[c].total,
                                                verified |-> FALSE]]
        /\ UNCHANGED <<intents, carts>>
        /\ carts[c].status = "confirmed"
    BY <1>6 DEF CreatePaymentFlush, FlushPayment
  <2> QED
    BY <1>0, <2>1
<1>7. ASSUME NEW p \in PaymentIds, NEW status,
             payments' = [payments EXCEPT ![p] = [payments[p] EXCEPT !.status = status]],
             payments[p].status # "none", UNCHANGED <<intents, carts>>
      PROVE  RowsGrounded'
  <2> DEFINE r == [payments[p] EXCEPT !.status = status]
  <2>1. r.cart = payments[p].cart /\ r.amount = payments[p].amount
    BY <1>0 DEF PaymentRow
  <2>2. payments' = [payments EXCEPT ![p] = r]
    BY SMTT(30), <1>7
  <2> HIDE DEF r
  <2> QED
    BY <1>0, <1>7, <2>1, <2>2
<1>8. ASSUME NEW w \in Workers, CreatePaymentCommit(w)
      PROVE  RowsGrounded'
  <2>1. req[w].id \in PaymentIds /\ payments[req[w].id].status = "uncommitted"
    BY <1>8, RequestTypes DEF Pending, CreatePaymentCommit, PaymentOps, RequestsGrounded, RequestGrounded
  <2>2. /\ payments' = [payments EXCEPT ![req[w].id] =
                          [payments[req[w].id] EXCEPT !.status = "pending"]]
        /\ UNCHANGED <<intents, carts>>
    BY SMTT(30), <1>8 DEF CreatePaymentCommit, CommitPayment
  <2> QED
    BY <1>7, <2>1, <2>2
<1>9. ASSUME NEW w \in Workers, CancelPaymentCommit(w)
      PROVE  RowsGrounded'
  <2>1. req[w].id \in PaymentIds /\ payments[req[w].id].status # "none"
    BY <1>9, RequestTypes DEF Pending, CancelPaymentCommit, RequestsGrounded, RequestGrounded
  <2>2. /\ payments' = [payments EXCEPT ![req[w].id] =
                          [payments[req[w].id] EXCEPT !.status = "cancelled"]]
        /\ UNCHANGED <<intents, carts>>
    BY <1>9 DEF CancelPaymentCommit, CancelPayment
  <2> QED
    BY <1>7, <2>1, <2>2
<1>10. ASSUME NEW w \in Workers, Abort(w)
       PROVE  RowsGrounded'
  <2>1. CASE req[w].op \in PaymentOps
    <3>1. req[w].id \in PaymentIds /\ payments[req[w].id].status = "uncommitted"
      BY <2>1, RequestTypes DEF RequestsGrounded, RequestGrounded
    <3>2. /\ payments' = [payments EXCEPT ![req[w].id] =
                            [payments[req[w].id] EXCEPT !.status = "absent"]]
          /\ UNCHANGED <<intents, carts>>
      BY <1>10, <2>1 DEF Abort, RollBackPayment
    <3> QED
      BY <1>7, <3>1, <3>2
  <2>2. CASE req[w].op \notin PaymentOps
    BY <1>10, <2>2 DEF Abort, mvars
  <2> QED
    BY SMTT(30), <2>1, <2>2
<1>11. ASSUME NEW e \in DOMAIN EventStatus, NEW p \in PaymentIds, Webhook(e, p)
       PROVE  RowsGrounded'
  <2>1. CASE payments[p].status = "pending"
    <3>1. /\ payments' = [payments EXCEPT ![p] =
                            [payments[p] EXCEPT !.status = EventStatus[e],
                                                !.verified = TRUE]]
          /\ UNCHANGED <<intents, carts>>
      BY <1>11, <2>1 DEF Webhook, ProcessWebhook
    <3> QED
      BY <1>0, <1>7, <2>1, <3>1 DEF PaymentRow
  <2>2. CASE payments[p].status # "pending"
    BY <1>11, <2>2 DEF Webhook, ProcessWebhook, mvars
  <2> QED
    BY <2>1, <2>2
<1>12. CASE UNCHANGED <<intents, carts, payments>>
  BY <1>12
<1> QED
  BY <1>1, <1>2, <1>3, <1>4, <1>5, <1>6, <1>8, <1>9, <1>10, <1>11, <1>12
  DEF Next, Begins, Continues, ConfirmIntentCommit, Inserts, World, ConfirmIntentRead,
      ConfirmCartRead, CancelPaymentRead, CreatePaymentCharge, CreateCharge, OutliveTTL,
      PayFails, PaySucceeds, mvars, vars

\* What no step takes away from a row that exists, whoever has read it.
RowsPersist ==
    /\ \A i \in IntentIds : intents[i].status # "none" =>
          intents'[i].status # "none" /\ intents'[i].budget = intents[i].budget
    /\ \A c \in CartIds : carts[c].status # "none" =>
          /\ carts'[c].status # "none"
          /\ carts'[c].intent = carts[c].intent /\ carts'[c].total = carts[c].total
    /\ \A p \in PaymentIds : payments[p].status \in {"failed", "cancelled"} =>
          payments'[p].status \in {"failed", "cancelled"}

\* An uncommitted payment row is settled only by the request that flushed it.
SettledBy(w) ==
    \A p \in PaymentIds :
        payments[p].status = "uncommitted" /\ payments'[p].status # "uncommitted" =>
            req[w].op \in PaymentOps /\ req[w].id = p

\* No step undoes what RowsGrounded and the requests in flight rely on.
LEMMA PersistStep ==
    ASSUME TypeOK, RequestsGrounded, [Next]_vars
    PROVE  RowsPersist
<1> USE DEF RowsPersist
<1>0. /\ intents \in [IntentIds -> IntentRow]
      /\ carts \in [CartIds -> CartRow]
      /\ payments \in [PaymentIds -> PaymentRow]
  BY DEF TypeOK, MTypeOK
<1>1. ASSUME NEW i \in IntentIds, NEW b \in Budgets \cup {NoBudget},
             CreateDraftIntent(i, b)
      PROVE  RowsPersist
  BY <1>0, <1>1 DEF CreateDraftIntent, IsNextId
<1>2. ASSUME NEW c \in CartIds, NEW i \in IntentIds, NEW t \in CartTotals,
             CreateDraftCart(c, i, t)
      PROVE  RowsPersist
  BY <1>0, <1>2 DEF CreateDraftCart, IsNextId
<1>3. ASSUME NEW i \in Nat, NEW n \in Nat, SignIntent(i, n) \/ ExpireIntent(i, n)
      PROVE  RowsPersist
  BY <1>0, <1>3 DEF SignIntent, ExpireIntent, IntentRow
<1>4. ASSUME NEW c \in Nat, NEW n \in Nat, SignCart(c, n)
      PROVE  RowsPersist
  BY <1>0, <1>4 DEF SignCart, CartRow
<1>5. ASSUME NEW p \in PaymentIds, NEW c \in CartIds, FlushPayment(p, c)
      PROVE  RowsPersist
  BY <1>0, <1>5 DEF FlushPayment, IsNextId
<1>6. ASSUME NEW p \in PaymentIds, payments[p].status = "uncommitted",
             CommitPayment(p) \/ RollBackPayment(p)
      PROVE  RowsPersist
  BY <1>0, <1>6 DEF CommitPayment, RollBackPayment
<1>7. ASSUME NEW p \in Nat, NEW n \in Nat, CancelPayment(p, n)
      PROVE  RowsPersist
  BY <1>0, <1>7 DEF CancelPayment, PaymentRow
<1>8. ASSUME NEW e \in DOMAIN EventStatus, NEW p \in PaymentIds, ProcessWebhook(e, p)
      PROVE  RowsPersist
  BY <1>0, <1>8 DEF ProcessWebhook, mvars
<1>9. CASE UNCHANGED <<intents, carts, payments>>
  BY <1>9
<1>10. ASSUME NEW w \in Workers, Continues(w) \/ Abort(w)
       PROVE  RowsPersist
  <2>1. /\ req[w].seen \in Nat
        /\ req[w].op \in IntentOps => req[w].id \in Nat
        /\ req[w].op = "sign_cart" => req[w].id \in Nat
        /\ req[w].op = "cancel_payment" => req[w].id \in Nat
        /\ req[w].op \in PaymentOps =>
              req[w].id \in PaymentIds /\ payments[req[w].id].status = "uncommitted"
    BY RequestTypes DEF RequestsGrounded, RequestGrounded, IntentIds, CartIds, PaymentIds
  <2>2. CASE Abort(w)
    BY <1>6, <1>9, <2>1, <2>2 DEF Abort, mvars
  <2>3. CASE ConfirmIntentCommit(w)
    BY <1>3, <2>1, <2>3 DEF ConfirmIntentCommit, Pending, IntentOps
  <2>4. CASE ConfirmCartCommit(w)
    BY <1>4, <2>1, <2>4 DEF ConfirmCartCommit, Pending
  <2>5. CASE CreatePaymentCharge(w)
    BY <1>9, <2>5 DEF CreatePaymentCharge, CreateCharge
  <2>6. CASE CreatePaymentCommit(w)
    BY <1>6, <2>1, <2>6 DEF CreatePaymentCommit, Pending, PaymentOps
  <2>7. CASE CancelPaymentCommit(w)
    BY <1>7, <2>1, <2>7 DEF CancelPaymentCommit, Pending
  <2> QED
    BY <1>10, <2>2, <2>3, <2>4, <2>5, <2>6, <2>7 DEF Continues
<1> QED
  BY <1>1, <1>2, <1>5, <1>8, <1>9, <1>10
  DEF Next, Begins, Inserts, World, Webhook, CreatePaymentFlush, ConfirmIntentRead,
      ConfirmCartRead, CancelPaymentRead, OutliveTTL, PayFails, PaySucceeds, mvars, vars

\* A step of worker w that settles nobody else's payment leaves the other
\* requests grounded; what it makes of its own is a question for each action.
LEMMA OthersStayGrounded ==
    ASSUME TypeOK, RowsGrounded, RequestsGrounded, RowsPersist,
           NEW w \in Workers, SettledBy(w),
           \A v \in Workers : v # w => req'[v] = req[v],
           RequestGrounded(w)',
           \A v \in Workers : v # w => ~ SamePayment(v, w)'
    PROVE  RequestsGrounded'
<1>1. ASSUME NEW v \in Workers, v # w
      PROVE  RequestGrounded(v)'
  <2>0. RequestGrounded(v) /\ req'[v] = req[v]
    BY <1>1 DEF RequestsGrounded
  <2>1. CASE req[v].op \in IntentOps
    BY SMTT(30), <2>0, <2>1, RequestTypes DEF RequestGrounded, RowsPersist, IntentOps, PaymentOps
  <2>2. CASE req[v].op = "sign_cart"
    <3>1. req[v].id \in CartIds /\ carts[req[v].id].status # "none"
      BY <2>0, <2>2, RequestTypes DEF RequestGrounded
    <3>2. /\ carts[req[v].id].intent \in IntentIds
          /\ intents[carts[req[v].id].intent].status # "none"
      BY <3>1 DEF RowsGrounded
    <3>3. /\ carts'[req[v].id].status # "none"
          /\ carts'[req[v].id].intent = carts[req[v].id].intent
          /\ carts'[req[v].id].total = carts[req[v].id].total
          /\ intents'[carts[req[v].id].intent].budget = intents[carts[req[v].id].intent].budget
      BY <3>1, <3>2 DEF RowsPersist
    <3> QED
      BY ZenonT(60), <2>0, <2>2, <3>3 DEF RequestGrounded, IntentOps, PaymentOps
  <2>3. CASE req[v].op \in PaymentOps
    <3>1. req[v].id \in PaymentIds /\ payments[req[v].id].status = "uncommitted"
      BY <2>0, <2>3, RequestTypes DEF RequestGrounded
    <3>2. ~ (req[w].op \in PaymentOps /\ req[w].id = req[v].id)
      BY <1>1, <2>3 DEF RequestsGrounded, SamePayment
    <3>3. payments'[req[v].id].status = "uncommitted"
      BY <3>1, <3>2 DEF SettledBy
    <3> QED
      BY <2>0, <2>3, <3>3 DEF RequestGrounded, IntentOps, PaymentOps
  <2>4. CASE req[v].op = "cancel_payment"
    BY <2>0, <2>4, RequestTypes DEF RequestGrounded, RowsPersist, IntentOps, PaymentOps
  <2>5. CASE req[v].op \notin IntentOps \cup PaymentOps \cup {"sign_cart", "cancel_payment"}
    BY <2>0, <2>5 DEF RequestGrounded
  <2> QED
    BY <2>1, <2>2, <2>3, <2>4, <2>5
<1>2. \A u, v \in Workers : SamePayment(u, v)' => u = v
  BY DEF RequestsGrounded, SamePayment
<1> QED
  BY <1>1, <1>2 DEF RequestsGrounded

\* An idle worker rests on nothing.
LEMMA IdleGrounded ==
    ASSUME TypeOK, NEW w \in Workers, End(w)
    PROVE  /\ \A v \in Workers : v # w => req'[v] = req[v]
           /\ RequestGrounded(w)'
           /\ \A v \in Workers : ~ SamePayment(v, w)'
<1>1. req'[w] = Idle /\ \A v \in Workers : v # w => req'[v] = req[v]
  BY DEF End, TypeOK
<1> QED
  BY <1>1 DEF RequestGrounded, SamePayment, Idle, IntentOps, PaymentOps

\* What each request has read stays true enough for its commit, and no two
\* requests work on one payment row.
LEMMA RequestsStep ==
    ASSUME TypeOK, RowsGrounded, RequestsGrounded, [Next]_vars
    PROVE  RequestsGrounded'
<1>0. RowsPersist /\ payments \in [PaymentIds -> PaymentRow]
  BY PersistStep DEF TypeOK, MTypeOK
<1>1. ASSUME NEW w \in Workers, End(w), SettledBy(w)
      PROVE  RequestsGrounded'
  BY <1>0, <1>1, IdleGrounded, OthersStayGrounded
<1>2. ASSUME NEW w \in Workers, ConfirmIntentCommit(w) \/ ConfirmCartCommit(w)
      PROVE  RequestsGrounded'
  <2>1. SettledBy(w)
    BY <1>2 DEF ConfirmIntentCommit, SignIntent, ExpireIntent, ConfirmCartCommit, SignCart,
                SettledBy
  <2> QED
    BY <1>1, <1>2, <2>1 DEF ConfirmIntentCommit, ConfirmCartCommit
<1>3. ASSUME NEW w \in Workers, CreatePaymentCommit(w)
      PROVE  RequestsGrounded'
  <2>1. SettledBy(w)
    BY <1>0, <1>3
    DEF CreatePaymentCommit, CommitPayment, Pending, SettledBy, PaymentOps
  <2> QED
    BY <1>1, <1>3, <2>1 DEF CreatePaymentCommit
<1>4. ASSUME NEW w \in Workers, CancelPaymentCommit(w)
      PROVE  RequestsGrounded'
  <2>1. payments[req[w].id].status \in {"failed", "cancelled"}
    BY <1>4 DEF CancelPaymentCommit, Pending, RequestsGrounded, RequestGrounded
  <2>2. SettledBy(w)
    BY <1>0, <1>4, <2>1 DEF CancelPaymentCommit, CancelPayment, SettledBy
  <2> QED
    BY <1>1, <1>4, <2>2 DEF CancelPaymentCommit
<1>5. ASSUME NEW w \in Workers, Abort(w)
      PROVE  RequestsGrounded'
  <2>1. SettledBy(w)
    BY <1>0, <1>5 DEF Abort, RollBackPayment, SettledBy, mvars
  <2> QED
    BY <1>1, <1>5, <2>1 DEF Abort
<1>6. ASSUME NEW w \in Workers, NEW i \in IntentIds, ConfirmIntentRead(w, i)
      PROVE  RequestsGrounded'
  <2>1. /\ req'[w].op \in IntentOps /\ req'[w].id = i
        /\ \A v \in Workers : v # w => req'[v] = req[v]
        /\ intents'[i].status = "draft"
        /\ UNCHANGED payments
    BY <1>6 DEF ConfirmIntentRead, Begin, TypeOK, IntentOps, mvars
  <2>2. RequestGrounded(w)' /\ \A v \in Workers : v # w => ~ SamePayment(v, w)'
    BY <2>1 DEF RequestGrounded, SamePayment, IntentOps, PaymentOps
  <2> QED
    BY <1>0, <2>1, <2>2, OthersStayGrounded DEF SettledBy
<1>7. ASSUME NEW w \in Workers, NEW c \in CartIds, ConfirmCartRead(w, c)
      PROVE  RequestsGrounded'
  <2>1. /\ req'[w].op = "sign_cart" /\ req'[w].id = c
        /\ \A v \in Workers : v # w => req'[v] = req[v]
        /\ carts'[c].status = "draft"
        /\ WithinBudget(carts'[c].total, intents'[carts'[c].intent].budget)
        /\ UNCHANGED payments
    BY <1>7 DEF ConfirmCartRead, CartConfirmable, Begin, TypeOK, mvars
  <2>2. RequestGrounded(w)' /\ \A v \in Workers : v # w => ~ SamePayment(v, w)'
    BY <2>1 DEF RequestGrounded, SamePayment, IntentOps, PaymentOps
  <2> QED
    BY <1>0, <2>1, <2>2, OthersStayGrounded DEF SettledBy
<1>8. ASSUME NEW w \in Workers, NEW p \in PaymentIds, NEW c \in CartIds,
             CreatePaymentFlush(w, p, c)
      PROVE  RequestsGrounded'
  <2>1. /\ req'[w].op = "charge_payment" /\ req'[w].id = p
        /\ \A v \in Workers : v # w => req'[v] = req[v]
    BY <1>8 DEF CreatePaymentFlush, Begin, TypeOK
  <2>2. /\ payments[p].status = "none"
        /\ payments'[p].status = "uncommitted"
        /\ \A q \in PaymentIds : q # p => payments'[q] = payments[q]
    BY <1>0, <1>8 DEF CreatePaymentFlush, FlushPayment, IsNextId
  <2>3. \A v \in Workers : req[v].op \in PaymentOps => req[v].id # p
    BY <2>2 DEF RequestsGrounded, RequestGrounded
  <2>4. RequestGrounded(w)' /\ \A v \in Workers : v # w => ~ SamePayment(v, w)'
    BY <2>1, <2>2, <2>3 DEF RequestGrounded, SamePayment, IntentOps, PaymentOps
  <2>5. SettledBy(w)
    BY <2>2 DEF SettledBy
  <2> QED
    BY <1>0, <2>1, <2>4, <2>5, OthersStayGrounded
<1>9. ASSUME NEW w \in Workers, CreatePaymentCharge(w)
      PROVE  RequestsGrounded'
  <2>1. /\ req[w].op = "charge_payment"
        /\ req'[w].op = "commit_payment" /\ req'[w].id = req[w].id
        /\ \A v \in Workers : v # w => req'[v] = req[v]
        /\ UNCHANGED payments
    BY <1>9, RequestTypes
    DEF CreatePaymentCharge, CreateCharge, Pending, TypeOK, Request, Idle
  <2>2. RequestGrounded(w)' /\ \A v \in Workers : v # w => ~ SamePayment(v, w)'
    BY <2>1 DEF RequestsGrounded, RequestGrounded, SamePayment, IntentOps, PaymentOps
  <2> QED
    BY <1>0, <2>1, <2>2, OthersStayGrounded DEF SettledBy
<1>10. ASSUME NEW w \in Workers, NEW p \in PaymentIds, CancelPaymentRead(w, p)
       PROVE  RequestsGrounded'
  <2>1. /\ req'[w].op = "cancel_payment" /\ req'[w].id = p
        /\ \A v \in Workers : v # w => req'[v] = req[v]
        /\ payments'[p].status = "failed"
        /\ UNCHANGED payments
    BY <1>10 DEF CancelPaymentRead, Begin, TypeOK, mvars
  <2>2. RequestGrounded(w)' /\ \A v \in Workers : v # w => ~ SamePayment(v, w)'
    BY <2>1 DEF RequestGrounded, SamePayment, IntentOps, PaymentOps
  <2> QED
    BY <1>0, <2>1, <2>2, OthersStayGrounded DEF SettledBy
<1>11. ASSUME UNCHANGED req,
              \A p \in PaymentIds : payments[p].status = "uncommitted" =>
                  payments'[p].status = "uncommitted"
       PROVE  RequestsGrounded'
  <2>1. ASSUME NEW w \in Workers PROVE RequestGrounded(w)'
    <3>0. RequestGrounded(w) /\ req'[w] = req[w]
      BY <1>11 DEF RequestsGrounded
    <3>1. req[w].op = "sign_cart" =>
            /\ carts[req[w].id].intent \in IntentIds
            /\ intents[carts[req[w].id].intent].status # "none"
      BY <3>0, RequestTypes DEF RowsGrounded, RequestGrounded
    <3> QED
      BY <1>0, <1>11, <3>0, <3>1, RequestTypes DEF RequestGrounded, RowsPersist
  <2> QED
    BY <1>11, <2>1 DEF RequestsGrounded, SamePayment
<1>12. ASSUME NEW e \in DOMAIN EventStatus, NEW p \in PaymentIds, Webhook(e, p)
       PROVE  RequestsGrounded'
  BY <1>0, <1>11, <1>12 DEF Webhook, ProcessWebhook, mvars
<1> QED
  BY <1>2, <1>3, <1>4, <1>5, <1>6, <1>7, <1>8, <1>9, <1>10, <1>11, <1>12
  DEF Next, Begins, Continues, Inserts, World, CreateDraftIntent, CreateDraftCart,
      OutliveTTL, PayFails, PaySucceeds, vars

-----------------------------------------------------------------------------
(* The logs and the webhooks. *)

\* No step resolves a payment without its signed event.
LEMMA SignedEventStep ==
    ASSUME TypeOK, RequestsGrounded, ResolvedOnSignedEvent, [Next]_vars
    PROVE  ResolvedOnSignedEvent'
<1> USE DEF ResolvedOnSignedEvent, ResolvedStatus
<1>0. payments \in [PaymentIds -> PaymentRow]
  BY DEF TypeOK, MTypeOK
<1>1. ASSUME NEW p \in PaymentIds, NEW c \in CartIds, FlushPayment(p, c)
      PROVE  ResolvedOnSignedEvent'
  BY <1>0, <1>1 DEF FlushPayment
<1>2. ASSUME NEW p \in PaymentIds, payments[p].status = "uncommitted",
             CommitPayment(p) \/ RollBackPayment(p)
      PROVE  ResolvedOnSignedEvent'
  BY ZenonT(60), <1>0, <1>2 DEF CommitPayment, RollBackPayment, PaymentRow
<1>3. ASSUME NEW p \in PaymentIds, NEW n \in Nat, CancelPayment(p, n),
             payments[p].status \in {"failed", "cancelled"}
      PROVE  ResolvedOnSignedEvent'
  BY ZenonT(60), <1>0, <1>3 DEF CancelPayment, PaymentRow
<1>4. ASSUME NEW e \in DOMAIN EventStatus, NEW p \in PaymentIds, ProcessWebhook(e, p)
      PROVE  ResolvedOnSignedEvent'
  <2>1. CASE payments[p].status = "pending"
    <3>1. /\ payments' = [payments EXCEPT ![p].status = EventStatus[e],
                                          ![p].verified = TRUE]
          /\ events' = events
          /\ <<e, p>> \in events
      BY <1>4, <2>1 DEF ProcessWebhook
    <3>2. \/ e = "captured" /\ EventStatus[e] = "executed"
          \/ e = "failed" /\ EventStatus[e] = "failed"
      BY DEF EventStatus
    <3> QED
      BY ZenonT(60), <1>0, <3>1, <3>2 DEF PaymentRow
  <2>2. CASE payments[p].status # "pending"
    BY <1>4, <2>2 DEF ProcessWebhook, mvars
  <2> QED
    BY <2>1, <2>2
<1>5. CASE UNCHANGED payments /\ events \subseteq events'
  BY <1>5
<1>6. ASSUME NEW w \in Workers, Continues(w) \/ Abort(w)
      PROVE  ResolvedOnSignedEvent'
  <2>1. /\ req[w].seen \in Nat
        /\ req[w].op = "cancel_payment" =>
              req[w].id \in PaymentIds /\ payments[req[w].id].status \in {"failed", "cancelled"}
        /\ req[w].op \in PaymentOps =>
              req[w].id \in PaymentIds /\ payments[req[w].id].status = "uncommitted"
    BY RequestTypes DEF RequestsGrounded, RequestGrounded
  <2>2. CASE Abort(w)
    BY <1>2, <1>5, <2>1, <2>2 DEF Abort, mvars
  <2>3. CASE ConfirmIntentCommit(w) \/ ConfirmCartCommit(w) \/ CreatePaymentCharge(w)
    BY <1>5, <2>3
    DEF ConfirmIntentCommit, SignIntent, ExpireIntent, ConfirmCartCommit, SignCart,
        CreatePaymentCharge, CreateCharge
  <2>4. CASE CreatePaymentCommit(w)
    BY <1>2, <2>1, <2>4 DEF CreatePaymentCommit, Pending, PaymentOps
  <2>5. CASE CancelPaymentCommit(w)
    BY <1>3, <2>1, <2>5 DEF CancelPaymentCommit, Pending
  <2> QED
    BY <1>6, <2>2, <2>3, <2>4, <2>5 DEF Continues
<1> QED
  BY <1>1, <1>4, <1>5, <1>6
  DEF Next, Begins, Inserts, World, Webhook, CreatePaymentFlush, ConfirmIntentRead,
      ConfirmCartRead, CancelPaymentRead, CreateDraftIntent, CreateDraftCart, OutliveTTL,
      PayFails, PaySucceeds, mvars, vars

\* The invariant of the audit logs: every log ends in its mandate's status, and
\* a log that outgrew a request's read ends as that request would end it.
LogsReplay == CartAndPaymentLogsReplay /\ LogsGrounded

\* The log of a known mandate is a sequence of audit rows.
LEMMA LogTypes ==
    ASSUME TypeOK, NEW m \in MandateKeys
    PROVE  /\ audit[m] \in Seq(AuditRow) /\ Len(audit[m]) \in Nat
           /\ audit[m] = <<>> <=> Len(audit[m]) = 0
           /\ audit[m] # <<>> => Last(audit[m]).to \in LoggedStatus
<1>1. audit[m] \in Seq(AuditRow)
  BY DEF TypeOK, MTypeOK
<1>2. Len(audit[m]) \in Nat /\ (audit[m] = <<>> <=> Len(audit[m]) = 0)
  BY <1>1, LenProperties, EmptySeq
<1>3. audit[m] # <<>> => Last(audit[m]) \in AuditRow
  BY <1>1, <1>2 DEF Last
<1> QED
  BY <1>1, <1>2, <1>3 DEF AuditRow

\* A step that logs no cart or payment transition, and leaves each request as it
\* is or makes it idle.
LEMMA LogsUntouched ==
    ASSUME LogsReplay,
           \A m \in MandateKeys : m[1] # "intent" => audit'[m] = audit[m],
           \A c \in CartIds : carts'[c].status = carts[c].status,
           \A p \in PaymentIds :
               \/ payments'[p].status = payments[p].status
               \/ ~ Committed(p) /\ ~ Committed(p)',
           \A w \in Workers : req[w].op = "sign_cart" => req[w].id \in CartIds,
           \A w \in Workers : req[w].op = "cancel_payment" => req[w].id \in PaymentIds,
           \A w \in Workers :
               \/ req'[w] = req[w]
               \/ req'[w].op \notin {"sign_cart", "cancel_payment"}
    PROVE  LogsReplay'
<1>1. \A c \in CartIds : audit'[<<"cart", c>>] = audit[<<"cart", c>>]
  BY KeyTypes
<1>2. \A p \in PaymentIds : audit'[<<"payment", p>>] = audit[<<"payment", p>>]
  BY KeyTypes
<1>3. CartAndPaymentLogsReplay'
  BY <1>1, <1>2 DEF LogsReplay, CartAndPaymentLogsReplay, Replayed, Committed, ResolvedStatus
<1>4. LogsGrounded'
  BY <1>1, <1>2 DEF LogsReplay, LogsGrounded, Committed, ResolvedStatus
<1> QED
  BY <1>3, <1>4 DEF LogsReplay

\* A step that logs one cart or payment transition, whose end is the mandate's
\* new status.
LEMMA LogsOfOneChange ==
    ASSUME TypeOK, LogsReplay,
           NEW kind \in {"cart", "payment"}, NEW id, <<kind, id>> \in MandateKeys,
           NEW to, NEW seen, Logged(kind, id, to, seen),
           seen < Len(audit[<<kind, id>>]) => Last(audit[<<kind, id>>]).to = to,
           \A c \in CartIds : carts'[c].status =
               (IF kind = "cart" /\ c = id THEN to ELSE carts[c].status),
           \A p \in PaymentIds : payments'[p].status =
               (IF kind = "payment" /\ p = id THEN to ELSE payments[p].status),
           kind = "payment" => to \in {"pending"} \cup ResolvedStatus,
           \A w \in Workers : req[w].op = "sign_cart" =>
               /\ req[w].id \in CartIds
               /\ kind = "cart" /\ req[w].id = id => to = "confirmed",
           \A w \in Workers : req[w].op = "cancel_payment" =>
               /\ req[w].id \in PaymentIds
               /\ kind = "payment" /\ req[w].id = id => to = "cancelled",
           \A w \in Workers :
               \/ req'[w] = req[w]
               \/ req'[w].op \notin {"sign_cart", "cancel_payment"}
    PROVE  LogsReplay'
<1> DEFINE m == <<kind, id>>
<1>1. /\ audit'[m] # <<>>
      /\ \/ Last(audit'[m]).to = to
         \/ Last(audit'[m]) = Last(audit[m]) /\ seen < Len(audit[m])
      /\ \A n \in MandateKeys : n # m => audit'[n] = audit[n]
  BY DEF Logged
<1>2. audit'[m] # <<>> /\ Last(audit'[m]).to = to
  BY <1>1
<1>3. \A c \in CartIds : ~ (kind = "cart" /\ c = id) =>
          audit'[<<"cart", c>>] = audit[<<"cart", c>>]
  BY <1>1, KeyTypes
<1>4. \A p \in PaymentIds : ~ (kind = "payment" /\ p = id) =>
          audit'[<<"payment", p>>] = audit[<<"payment", p>>]
  BY <1>1, KeyTypes
<1>5. ASSUME NEW c \in CartIds PROVE Replayed("cart", c, carts[c].status)'
  <2>1. Replayed("cart", c, carts[c].status)
    BY DEF LogsReplay, CartAndPaymentLogsReplay
  <2>2. CASE kind = "cart" /\ c = id
    BY <1>2, <2>2 DEF Replayed
  <2>3. CASE ~ (kind = "cart" /\ c = id)
    BY <1>3, <2>1, <2>3 DEF Replayed
  <2> QED
    BY <2>2, <2>3
<1>6. ASSUME NEW p \in PaymentIds
      PROVE  (IF Committed(p) THEN Replayed("payment", p, payments[p].status)
                              ELSE Replayed("payment", p, "none"))'
  <2>1. IF Committed(p) THEN Replayed("payment", p, payments[p].status)
                        ELSE Replayed("payment", p, "none")
    BY DEF LogsReplay, CartAndPaymentLogsReplay
  <2>2. CASE kind = "payment" /\ p = id
    BY <1>2, <2>2 DEF Replayed, Committed
  <2>3. CASE ~ (kind = "payment" /\ p = id)
    BY <1>4, <2>1, <2>3 DEF Replayed, Committed
  <2> QED
    BY <2>2, <2>3
<1>7. LogsGrounded'
  <2> SUFFICES ASSUME NEW w \in Workers
               PROVE  /\ req'[w].op = "sign_cart"
                         /\ req'[w].seen < Len(audit'[<<"cart", req'[w].id>>])
                            => carts'[req'[w].id].status = "confirmed"
                      /\ req'[w].op = "cancel_payment"
                         /\ req'[w].seen < Len(audit'[<<"payment", req'[w].id>>])
                            => payments'[req'[w].id].status = "cancelled"
    BY DEF LogsGrounded
  <2>1. /\ req[w].op = "sign_cart" /\ req[w].seen < Len(audit[<<"cart", req[w].id>>])
            => carts[req[w].id].status = "confirmed"
        /\ req[w].op = "cancel_payment"
           /\ req[w].seen < Len(audit[<<"payment", req[w].id>>])
            => payments[req[w].id].status = "cancelled"
    BY DEF LogsReplay, LogsGrounded
  <2> QED
    BY <1>3, <1>4, <2>1
<1> QED
  BY <1>5, <1>6, <1>7 DEF LogsReplay, CartAndPaymentLogsReplay

\* What LogsOfOneChange and LogsUntouched ask of the requests in flight.
LEMMA RequestIds ==
    ASSUME TypeOK
    PROVE  /\ \A w \in Workers : req[w].op = "sign_cart" => req[w].id \in CartIds
           /\ \A w \in Workers : req[w].op = "cancel_payment" => req[w].id \in PaymentIds
BY RequestTypes

\* A worker's request is its old one, or it has ended.
LEMMA EndedOrSame ==
    ASSUME TypeOK, NEW w \in Workers, End(w)
    PROVE  \A v \in Workers : \/ req'[v] = req[v]
                              \/ req'[v].op \notin {"sign_cart", "cancel_payment"}
<1>1. \A v \in Workers : req'[v] = req[v] \/ req'[v] = Idle
  BY DEF End, TypeOK
<1> QED
  BY <1>1 DEF Idle

\* A mandate without a status has no log.
LEMMA NoStatusNoLog ==
    ASSUME TypeOK, LogsReplay
    PROVE  /\ \A c \in CartIds :
                 carts[c].status = "none" => ~ 0 < Len(audit[<<"cart", c>>])
           /\ \A p \in PaymentIds :
                 ~ Committed(p) => ~ 0 < Len(audit[<<"payment", p>>])
<1>1. "none" \notin LoggedStatus
  BY DEF LoggedStatus, ResolvedStatus
<1> QED
  BY <1>1, KeyTypes, LogTypes DEF LogsReplay, CartAndPaymentLogsReplay, Replayed

\* The commits that log a transition of a cart or a payment keep every log
\* replayable: an overtaken commit makes the transition its log already ends in.
LEMMA LogsCommitStep ==
    ASSUME TypeOK, RequestsGrounded, LogsReplay, NEW w \in Workers, Continues(w) \/ Abort(w)
    PROVE  LogsReplay'
<1>0. /\ carts \in [CartIds -> CartRow] /\ payments \in [PaymentIds -> PaymentRow]
      /\ RequestGrounded(w)
      /\ MTypeOK
  BY DEF TypeOK, MTypeOK, RequestsGrounded
<1>1. CASE ConfirmIntentCommit(w)
  <2>1. PICK to \in {"confirmed", "expired"} : Logged("intent", req[w].id, to, req[w].seen)
    <3>1. CASE Pending(w, "sign_intent") /\ SignIntent(req[w].id, req[w].seen)
      <4>1. req[w].id \in IntentIds /\ req[w].seen \in Nat
        BY <3>1, RequestTypes DEF Pending, IntentOps
      <4> QED
        BY <1>0, <3>1, <4>1, KeyTypes, RecordTransitionFacts DEF SignIntent, LoggedStatus
    <3>2. CASE Pending(w, "expire_intent") /\ ExpireIntent(req[w].id, req[w].seen)
      <4>1. req[w].id \in IntentIds /\ req[w].seen \in Nat
        BY <3>2, RequestTypes DEF Pending, IntentOps
      <4> QED
        BY <1>0, <3>2, <4>1, KeyTypes, RecordTransitionFacts DEF ExpireIntent, LoggedStatus
    <3> QED
      BY <1>1, <3>1, <3>2 DEF ConfirmIntentCommit
  <2>2. UNCHANGED <<carts, payments>> /\ End(w)
    BY <1>1 DEF ConfirmIntentCommit, SignIntent, ExpireIntent
  <2> QED
    BY <2>1, <2>2, RequestIds, EndedOrSame, LogsUntouched DEF Logged
<1>2. CASE ConfirmCartCommit(w)
  <2> DEFINE id == req[w].id
  <2>1. id \in CartIds /\ req[w].seen \in Nat /\ req[w].op = "sign_cart"
    BY <1>2, RequestTypes DEF ConfirmCartCommit, Pending
  <2>2. Logged("cart", id, "confirmed", req[w].seen)
    BY <1>0, <1>2, <2>1, KeyTypes, RecordTransitionFacts
    DEF ConfirmCartCommit, SignCart, LoggedStatus
  <2>3. /\ \A c \in CartIds :
             carts'[c].status = (IF c = id THEN "confirmed" ELSE carts[c].status)
        /\ UNCHANGED payments /\ End(w)
    BY <1>0, <1>2 DEF ConfirmCartCommit, SignCart, CartRow
  <2>4. req[w].seen < Len(audit[<<"cart", id>>]) =>
          Last(audit[<<"cart", id>>]).to = "confirmed"
    BY <2>1, KeyTypes, LogTypes
    DEF LogsReplay, LogsGrounded, CartAndPaymentLogsReplay, Replayed
  <2> HIDE DEF id
  <2> QED
    BY <2>1, <2>2, <2>3, <2>4, KeyTypes, RequestIds, EndedOrSame, LogsOfOneChange
<1>3. CASE CreatePaymentCharge(w)
  <2>1. \A v \in Workers : \/ req'[v] = req[v]
                           \/ req'[v].op \notin {"sign_cart", "cancel_payment"}
    BY <1>3, RequestTypes DEF CreatePaymentCharge, TypeOK, Request, Idle
  <2> QED
    BY <1>3, <2>1, RequestIds, LogsUntouched DEF CreatePaymentCharge, CreateCharge
<1>4. CASE CreatePaymentCommit(w)
  <2> DEFINE id == req[w].id
  <2>1. id \in PaymentIds /\ payments[id].status = "uncommitted"
    BY <1>0, <1>4, RequestTypes DEF CreatePaymentCommit, Pending, RequestGrounded, PaymentOps
  <2>2. Logged("payment", id, "pending", 0)
    BY <1>0, <1>4, <2>1, KeyTypes, RecordTransitionFacts
    DEF CreatePaymentCommit, CommitPayment, LoggedStatus
  <2>3. /\ \A p \in PaymentIds :
             payments'[p].status = (IF p = id THEN "pending" ELSE payments[p].status)
        /\ UNCHANGED carts /\ End(w)
    BY <1>0, <1>4 DEF CreatePaymentCommit, CommitPayment, PaymentRow
  <2>4. ~ 0 < Len(audit[<<"payment", id>>])
    BY <2>1, NoStatusNoLog DEF Committed, ResolvedStatus
  <2>5. \A v \in Workers : req[v].op = "cancel_payment" => req[v].id # id
    BY <2>1 DEF RequestsGrounded, RequestGrounded
  <2> HIDE DEF id
  <2> QED
    BY <2>1, <2>2, <2>3, <2>4, <2>5, KeyTypes, RequestIds, EndedOrSame, LogsOfOneChange
<1>5. CASE CancelPaymentCommit(w)
  <2> DEFINE id == req[w].id
  <2>1. /\ id \in PaymentIds /\ req[w].seen \in Nat /\ req[w].op = "cancel_payment"
        /\ Committed(id)
    BY <1>0, <1>5, RequestTypes
    DEF CancelPaymentCommit, Pending, RequestGrounded, Committed, ResolvedStatus
  <2>2. Logged("payment", id, "cancelled", req[w].seen)
    BY <1>0, <1>5, <2>1, KeyTypes, RecordTransitionFacts
    DEF CancelPaymentCommit, CancelPayment, LoggedStatus, ResolvedStatus
  <2>3. /\ \A p \in PaymentIds :
             payments'[p].status = (IF p = id THEN "cancelled" ELSE payments[p].status)
        /\ UNCHANGED carts /\ End(w)
    BY <1>0, <1>5 DEF CancelPaymentCommit, CancelPayment, PaymentRow
  <2>4. req[w].seen < Len(audit[<<"payment", id>>]) =>
          Last(audit[<<"payment", id>>]).to = "cancelled"
    BY <2>1, KeyTypes, LogTypes
    DEF LogsReplay, LogsGrounded, CartAndPaymentLogsReplay, Replayed
  <2> HIDE DEF id
  <2> QED
    BY <2>1, <2>2, <2>3, <2>4, KeyTypes, RequestIds, EndedOrSame, LogsOfOneChange
    DEF ResolvedStatus
<1>6. CASE Abort(w)
  <2>1. CASE req[w].op \in PaymentOps
    <3>1. req[w].id \in PaymentIds /\ payments[req[w].id].status = "uncommitted"
      BY <1>0, <2>1, RequestTypes DEF RequestGrounded
    <3>2. /\ payments' = [payments EXCEPT ![req[w].id].status = "absent"]
          /\ UNCHANGED <<carts, audit>> /\ End(w)
      BY <1>6, <2>1 DEF Abort, RollBackPayment
    <3>3. \A p \in PaymentIds :
            \/ payments'[p].status = payments[p].status
            \/ ~ Committed(p) /\ ~ Committed(p)'
      BY <1>0, <3>1, <3>2 DEF Committed, ResolvedStatus
    <3> QED
      BY <3>2, <3>3, RequestIds, EndedOrSame, LogsUntouched
  <2>2. CASE req[w].op \notin PaymentOps
    BY <1>6, <2>2, RequestIds, EndedOrSame, LogsUntouched DEF Abort, mvars
  <2> QED
    BY <2>1, <2>2
<1> QED
  BY <1>1, <1>2, <1>3, <1>4, <1>5, <1>6 DEF Continues

\* No step makes a cart or payment log replay to another status.
LEMMA LogsStep ==
    ASSUME TypeOK, RequestsGrounded, LogsReplay, [Next]_vars
    PROVE  LogsReplay'
<1>0. /\ carts \in [CartIds -> CartRow] /\ payments \in [PaymentIds -> PaymentRow]
      /\ MTypeOK
  BY DEF TypeOK, MTypeOK
<1>1. ASSUME NEW w \in Workers, Continues(w) \/ Abort(w)
      PROVE  LogsReplay'
  BY <1>1, LogsCommitStep
<1>2. ASSUME NEW i \in IntentIds, NEW b \in Budgets \cup {NoBudget},
             CreateDraftIntent(i, b), UNCHANGED req
      PROVE  LogsReplay'
  <2>1. Logged("intent", i, "draft", 0)
    BY <1>0, <1>2, KeyTypes, RecordTransitionFacts DEF CreateDraftIntent, LoggedStatus
  <2> QED
    BY <1>2, <2>1, RequestIds, LogsUntouched DEF Logged, CreateDraftIntent
<1>3. ASSUME NEW c \in CartIds, NEW i \in IntentIds, NEW t \in CartTotals,
             CreateDraftCart(c, i, t), UNCHANGED req
      PROVE  LogsReplay'
  <2>1. Logged("cart", c, "draft", 0)
    BY <1>0, <1>3, KeyTypes, RecordTransitionFacts DEF CreateDraftCart, LoggedStatus
  <2>2. carts[c].status = "none" /\ UNCHANGED payments
    BY <1>3 DEF CreateDraftCart, IsNextId
  <2>3. \A d \in CartIds : carts'[d].status = (IF d = c THEN "draft" ELSE carts[d].status)
    BY <1>0, <1>3 DEF CreateDraftCart
  <2>4. ~ 0 < Len(audit[<<"cart", c>>])
    BY <2>2, NoStatusNoLog
  <2>5. \A w \in Workers : req[w].op = "sign_cart" => req[w].id # c
    BY <2>2 DEF RequestsGrounded, RequestGrounded
  <2> QED
    BY <1>3, <2>1, <2>2, <2>3, <2>4, <2>5, KeyTypes, RequestIds, LogsOfOneChange
<1>4. ASSUME NEW w \in Workers, NEW p \in PaymentIds, NEW c \in CartIds,
             CreatePaymentFlush(w, p, c)
      PROVE  LogsReplay'
  <2>1. \A v \in Workers : \/ req'[v] = req[v]
                           \/ req'[v].op \notin {"sign_cart", "cancel_payment"}
    BY <1>4 DEF CreatePaymentFlush, Begin, TypeOK
  <2>2. \A q \in PaymentIds : \/ payments'[q].status = payments[q].status
                              \/ ~ Committed(q) /\ ~ Committed(q)'
    BY <1>0, <1>4 DEF CreatePaymentFlush, FlushPayment, IsNextId, Committed, ResolvedStatus
  <2> QED
    BY <1>4, <2>1, <2>2, RequestIds, LogsUntouched DEF CreatePaymentFlush, FlushPayment
<1>5. ASSUME NEW w \in Workers, NEW i \in IntentIds, ConfirmIntentRead(w, i)
      PROVE  LogsReplay'
  <2>1. \A v \in Workers : \/ req'[v] = req[v]
                           \/ req'[v].op \notin {"sign_cart", "cancel_payment"}
    BY <1>5 DEF ConfirmIntentRead, Begin, TypeOK
  <2> QED
    BY <1>5, <2>1, RequestIds, LogsUntouched DEF ConfirmIntentRead, mvars
<1>6. UNCHANGED mvars => CartAndPaymentLogsReplay'
  BY DEF LogsReplay, CartAndPaymentLogsReplay, Replayed, Committed, mvars
<1>7. ASSUME NEW w \in Workers, NEW c \in CartIds, ConfirmCartRead(w, c)
      PROVE  LogsReplay'
  <2>1. Begin(w, "sign_cart", "cart", c) /\ UNCHANGED mvars
    BY <1>7 DEF ConfirmCartRead
  <2>2. /\ req'[w].op = "sign_cart" /\ req'[w].id = c
        /\ ~ req'[w].seen < Len(audit[<<"cart", c>>])
        /\ \A v \in Workers : v # w => req'[v] = req[v]
    BY <2>1, KeyTypes, LogTypes DEF Begin, TypeOK
  <2>3. LogsGrounded'
    BY <2>1, <2>2 DEF LogsReplay, LogsGrounded, mvars
  <2> QED
    BY <1>6, <2>1, <2>3 DEF LogsReplay
<1>8. ASSUME NEW w \in Workers, NEW p \in PaymentIds, CancelPaymentRead(w, p)
      PROVE  LogsReplay'
  <2>1. Begin(w, "cancel_payment", "payment", p) /\ UNCHANGED mvars
    BY <1>8 DEF CancelPaymentRead
  <2>2. /\ req'[w].op = "cancel_payment" /\ req'[w].id = p
        /\ ~ req'[w].seen < Len(audit[<<"payment", p>>])
        /\ \A v \in Workers : v # w => req'[v] = req[v]
    BY <2>1, KeyTypes, LogTypes DEF Begin, TypeOK
  <2>3. LogsGrounded'
    BY <2>1, <2>2 DEF LogsReplay, LogsGrounded, mvars
  <2> QED
    BY <1>6, <2>1, <2>3 DEF LogsReplay
<1>9. ASSUME NEW e \in DOMAIN EventStatus, NEW p \in PaymentIds, Webhook(e, p)
      PROVE  LogsReplay'
  <2>1. CASE payments[p].status = "pending"
    <3> DEFINE len == Len(audit[<<"payment", p>>])
    <3>1. EventStatus[e] \in {"executed", "failed"} /\ len \in Nat
      BY KeyTypes, LogTypes DEF EventStatus
    <3>2. Logged("payment", p, EventStatus[e], len)
      BY <1>0, <1>9, <2>1, <3>1, KeyTypes, RecordTransitionFacts
      DEF Webhook, ProcessWebhook, LoggedStatus, ResolvedStatus
    <3>3. /\ \A q \in PaymentIds :
               payments'[q].status = (IF q = p THEN EventStatus[e] ELSE payments[q].status)
          /\ UNCHANGED <<carts, req>>
      BY <1>0, <1>9, <2>1 DEF Webhook, ProcessWebhook, PaymentRow
    <3>4. \A w \in Workers : req[w].op = "cancel_payment" => req[w].id # p
      BY <2>1 DEF RequestsGrounded, RequestGrounded
    <3>5. ~ len < Len(audit[<<"payment", p>>])
      BY <3>1
    <3> HIDE DEF len
    <3> QED
      BY <3>1, <3>2, <3>3, <3>4, <3>5, KeyTypes, RequestIds, LogsOfOneChange
      DEF ResolvedStatus
  <2>2. CASE payments[p].status # "pending"
    BY <1>9, <2>2, RequestIds, LogsUntouched DEF Webhook, ProcessWebhook, mvars
  <2> QED
    BY <2>1, <2>2
<1>10. CASE UNCHANGED <<carts, payments, audit, req>>
  BY <1>10, RequestIds, LogsUntouched
<1> QED
  BY <1>1, <1>2, <1>3, <1>4, <1>5, <1>7, <1>8, <1>9, <1>10
  DEF Next, Begins, Inserts, World, OutliveTTL, PayFails, PaySucceeds, vars

-----------------------------------------------------------------------------
(* What a step may never do. *)

\* No step takes a resolved payment back.
LEMMA ResolutionStep ==
    ASSUME TypeOK, RequestsGrounded, [Next]_vars
    PROVE  ResolutionIsFinal
<1> USE DEF ResolutionIsFinal
<1>0. payments \in [PaymentIds -> PaymentRow]
  BY DEF TypeOK, MTypeOK
<1>1. ASSUME NEW p \in PaymentIds, NEW r, payments' = [payments EXCEPT ![p] = r],
             payments[p].status \notin ResolvedStatus
      PROVE  ResolutionIsFinal
  BY <1>0, <1>1 DEF ResolvedStatus
<1>2. ASSUME NEW p \in PaymentIds, payments[p].status \in {"failed", "cancelled"},
             payments' = [payments EXCEPT ![p].status = "cancelled"]
      PROVE  ResolutionIsFinal
  BY <1>0, <1>2 DEF PaymentRow
<1>3. CASE UNCHANGED payments
  BY <1>3
<1>4. ASSUME NEW w \in Workers, Continues(w) \/ Abort(w)
      PROVE  ResolutionIsFinal
  <2>1. /\ req[w].op = "cancel_payment" =>
              req[w].id \in PaymentIds /\ payments[req[w].id].status \in {"failed", "cancelled"}
        /\ req[w].op \in PaymentOps =>
              req[w].id \in PaymentIds /\ payments[req[w].id].status = "uncommitted"
    BY RequestTypes DEF RequestsGrounded, RequestGrounded
  <2>2. CASE Abort(w)
    BY <1>1, <1>3, <2>1, <2>2 DEF Abort, RollBackPayment, mvars, ResolvedStatus
  <2>3. CASE ConfirmIntentCommit(w) \/ ConfirmCartCommit(w) \/ CreatePaymentCharge(w)
    BY <1>3, <2>3
    DEF ConfirmIntentCommit, SignIntent, ExpireIntent, ConfirmCartCommit, SignCart,
        CreatePaymentCharge, CreateCharge
  <2>4. CASE CreatePaymentCommit(w)
    BY <1>1, <2>1, <2>4
    DEF CreatePaymentCommit, CommitPayment, Pending, PaymentOps, ResolvedStatus
  <2>5. CASE CancelPaymentCommit(w)
    BY <1>2, <2>1, <2>5 DEF CancelPaymentCommit, CancelPayment, Pending
  <2> QED
    BY <1>4, <2>2, <2>3, <2>4, <2>5 DEF Continues
<1>5. ASSUME NEW e \in DOMAIN EventStatus, NEW p \in PaymentIds, ProcessWebhook(e, p)
      PROVE  ResolutionIsFinal
  BY <1>0, <1>5 DEF ProcessWebhook, mvars
<1>6. ASSUME NEW p \in PaymentIds, NEW c \in CartIds, FlushPayment(p, c)
      PROVE  ResolutionIsFinal
  BY <1>1, <1>6 DEF FlushPayment, IsNextId, ResolvedStatus
<1> QED
  BY <1>3, <1>4, <1>5, <1>6
  DEF Next, Begins, Inserts, World, Webhook, CreatePaymentFlush, ConfirmIntentRead,
      ConfirmCartRead, CancelPaymentRead, CreateDraftIntent, CreateDraftCart, OutliveTTL,
      PayFails, PaySucceeds, mvars, vars

\* A step that logs one transition, and sets that mandate's status to its end.
LEMMA OneChangeIsLogged ==
    ASSUME TypeOK, NEW kind \in {"intent", "cart", "payment"}, NEW id,
           <<kind, id>> \in MandateKeys, NEW to, NEW seen, Logged(kind, id, to, seen),
           \A i \in IntentIds : intents'[i].status =
               (IF kind = "intent" /\ i = id THEN to ELSE intents[i].status),
           \A c \in CartIds : carts'[c].status =
               (IF kind = "cart" /\ c = id THEN to ELSE carts[c].status),
           \A p \in PaymentIds : payments'[p].status =
               (IF kind = "payment" /\ p = id THEN to ELSE payments[p].status)
    PROVE  NoSilentChange
<1> DEFINE m == <<kind, id>>
<1>1. /\ Len(audit'[m]) = Len(audit[m]) + 1
      /\ \E k \in DOMAIN audit'[m] : audit'[m][k].to = to
      /\ \A n \in MandateKeys : n # m => audit'[n] = audit[n]
  BY DEF Logged
<1>2. \A n \in MandateKeys : Len(audit[n]) \in Nat
  BY LogTypes
<1>3. \A old : ChangeIsLogged(kind, id, old, to)
  BY <1>1, <1>2 DEF ChangeIsLogged
<1>4. ASSUME NEW k \in {"intent", "cart", "payment"}, NEW x, <<k, x>> \in MandateKeys,
             <<k, x>> # m, NEW same
      PROVE  ChangeIsLogged(k, x, same, same)
  BY <1>1, <1>2, <1>4 DEF ChangeIsLogged
<1> HIDE DEF m
<1>5. ASSUME NEW i \in IntentIds
      PROVE  ChangeIsLogged("intent", i, intents[i].status, intents'[i].status)
  BY <1>3, <1>4, KeyTypes DEF m
<1>6. ASSUME NEW c \in CartIds
      PROVE  ChangeIsLogged("cart", c, carts[c].status, carts'[c].status)
  BY <1>3, <1>4, KeyTypes DEF m
<1>7. ASSUME NEW p \in PaymentIds
      PROVE  ChangeIsLogged("payment", p, payments[p].status, payments'[p].status)
  BY <1>3, <1>4, KeyTypes DEF m
<1> QED
  BY <1>5, <1>6, <1>7 DEF NoSilentChange

\* The three kinds of mandate, one at a time.
LEMMA IntentChangeIsLogged ==
    ASSUME TypeOK, NEW i \in IntentIds, NEW to, NEW seen, Logged("intent", i, to, seen),
           \A x \in IntentIds : intents'[x].status = (IF x = i THEN to ELSE intents[x].status),
           UNCHANGED <<carts, payments>>
    PROVE  NoSilentChange
<1>1. <<"intent", i>> \in MandateKeys
  BY KeyTypes
<1>2. \A x \in IntentIds : intents'[x].status =
         (IF "intent" = "intent" /\ x = i THEN to ELSE intents[x].status)
  OBVIOUS
<1>3. \A x \in CartIds : carts'[x].status =
         (IF "intent" = "cart" /\ x = i THEN to ELSE carts[x].status)
  OBVIOUS
<1>4. \A x \in PaymentIds : payments'[x].status =
         (IF "intent" = "payment" /\ x = i THEN to ELSE payments[x].status)
  OBVIOUS
<1> QED
  BY <1>1, <1>2, <1>3, <1>4, OneChangeIsLogged

\* As above, for a cart.
LEMMA CartChangeIsLogged ==
    ASSUME TypeOK, NEW c \in CartIds, NEW to, NEW seen, Logged("cart", c, to, seen),
           \A x \in CartIds : carts'[x].status = (IF x = c THEN to ELSE carts[x].status),
           UNCHANGED <<intents, payments>>
    PROVE  NoSilentChange
<1>1. <<"cart", c>> \in MandateKeys
  BY KeyTypes
<1>2. \A x \in IntentIds : intents'[x].status =
         (IF "cart" = "intent" /\ x = c THEN to ELSE intents[x].status)
  OBVIOUS
<1>3. \A x \in CartIds : carts'[x].status =
         (IF "cart" = "cart" /\ x = c THEN to ELSE carts[x].status)
  OBVIOUS
<1>4. \A x \in PaymentIds : payments'[x].status =
         (IF "cart" = "payment" /\ x = c THEN to ELSE payments[x].status)
  OBVIOUS
<1> QED
  BY <1>1, <1>2, <1>3, <1>4, OneChangeIsLogged

\* As above, for a payment.
LEMMA PaymentChangeIsLogged ==
    ASSUME TypeOK, NEW p \in PaymentIds, NEW to, NEW seen, Logged("payment", p, to, seen),
           \A x \in PaymentIds : payments'[x].status = (IF x = p THEN to ELSE payments[x].status),
           UNCHANGED <<intents, carts>>
    PROVE  NoSilentChange
<1>1. <<"payment", p>> \in MandateKeys
  BY KeyTypes
<1>2. \A x \in IntentIds : intents'[x].status =
         (IF "payment" = "intent" /\ x = p THEN to ELSE intents[x].status)
  OBVIOUS
<1>3. \A x \in CartIds : carts'[x].status =
         (IF "payment" = "cart" /\ x = p THEN to ELSE carts[x].status)
  OBVIOUS
<1>4. \A x \in PaymentIds : payments'[x].status =
         (IF "payment" = "payment" /\ x = p THEN to ELSE payments[x].status)
  OBVIOUS
<1> QED
  BY <1>1, <1>2, <1>3, <1>4, OneChangeIsLogged

\* A step that logs nothing and changes no status but that of a payment row no
\* one can see.
LEMMA NothingToLog ==
    ASSUME TypeOK, UNCHANGED <<intents, carts, audit>>,
           \A p \in PaymentIds : payments'[p].status = payments[p].status \/ ~ Committed(p)'
    PROVE  NoSilentChange
<1>1. \A n \in MandateKeys : Len(audit[n]) \in Nat
  BY LogTypes
<1> QED
  BY <1>1, KeyTypes DEF NoSilentChange, ChangeIsLogged

\* Every step logs what it changes.
LEMMA LoggingStep ==
    ASSUME TypeOK, RequestsGrounded, [Next]_vars
    PROVE  NoSilentChange
<1>0. /\ intents \in [IntentIds -> IntentRow] /\ carts \in [CartIds -> CartRow]
      /\ payments \in [PaymentIds -> PaymentRow]
      /\ MTypeOK
  BY DEF TypeOK, MTypeOK
<1>1. ASSUME NEW i \in IntentIds, NEW b \in Budgets \cup {NoBudget}, CreateDraftIntent(i, b)
      PROVE  NoSilentChange
  <2>1. Logged("intent", i, "draft", 0)
    BY <1>0, <1>1, KeyTypes, RecordTransitionFacts DEF CreateDraftIntent, LoggedStatus
  <2>2. /\ \A j \in IntentIds :
             intents'[j].status = (IF j = i THEN "draft" ELSE intents[j].status)
        /\ UNCHANGED <<carts, payments>>
    BY <1>0, <1>1 DEF CreateDraftIntent
  <2> QED
    BY <2>1, <2>2, IntentChangeIsLogged
<1>2. ASSUME NEW c \in CartIds, NEW i \in IntentIds, NEW t \in CartTotals,
             CreateDraftCart(c, i, t)
      PROVE  NoSilentChange
  <2>1. Logged("cart", c, "draft", 0)
    BY <1>0, <1>2, KeyTypes, RecordTransitionFacts DEF CreateDraftCart, LoggedStatus
  <2>2. /\ \A d \in CartIds :
             carts'[d].status = (IF d = c THEN "draft" ELSE carts[d].status)
        /\ UNCHANGED <<intents, payments>>
    BY <1>0, <1>2 DEF CreateDraftCart
  <2> QED
    BY <2>1, <2>2, CartChangeIsLogged
<1>3. ASSUME NEW w \in Workers, Pending(w, "sign_intent"),
             SignIntent(req[w].id, req[w].seen)
      PROVE  NoSilentChange
  <2> DEFINE id == req[w].id
             seen == req[w].seen
  <2>1. id \in IntentIds /\ seen \in Nat
    BY <1>3, RequestTypes DEF Pending, IntentOps
  <2>2. Logged("intent", id, "confirmed", seen)
    BY <1>0, <1>3, <2>1, KeyTypes, RecordTransitionFacts DEF SignIntent, LoggedStatus
  <2>3. /\ \A j \in IntentIds :
             intents'[j].status = (IF j = id THEN "confirmed" ELSE intents[j].status)
        /\ UNCHANGED <<carts, payments>>
    BY <1>0, <1>3 DEF SignIntent, IntentRow
  <2> HIDE DEF id, seen
  <2> QED
    BY <2>1, <2>2, <2>3, IntentChangeIsLogged
<1>4. ASSUME NEW w \in Workers, Pending(w, "expire_intent"),
             ExpireIntent(req[w].id, req[w].seen)
      PROVE  NoSilentChange
  <2> DEFINE id == req[w].id
             seen == req[w].seen
  <2>1. id \in IntentIds /\ seen \in Nat
    BY <1>4, RequestTypes DEF Pending, IntentOps
  <2>2. Logged("intent", id, "expired", seen)
    BY <1>0, <1>4, <2>1, KeyTypes, RecordTransitionFacts DEF ExpireIntent, LoggedStatus
  <2>3. /\ \A j \in IntentIds :
             intents'[j].status = (IF j = id THEN "expired" ELSE intents[j].status)
        /\ UNCHANGED <<carts, payments>>
    BY <1>0, <1>4 DEF ExpireIntent, IntentRow
  <2> HIDE DEF id, seen
  <2> QED
    BY <2>1, <2>2, <2>3, IntentChangeIsLogged
<1>5. ASSUME NEW w \in Workers, ConfirmCartCommit(w)
      PROVE  NoSilentChange
  <2> DEFINE id == req[w].id
             seen == req[w].seen
  <2>1. id \in CartIds /\ seen \in Nat
    BY <1>5, RequestTypes DEF ConfirmCartCommit, Pending
  <2>2. Logged("cart", id, "confirmed", seen)
    BY <1>0, <1>5, <2>1, KeyTypes, RecordTransitionFacts
    DEF ConfirmCartCommit, SignCart, LoggedStatus
  <2>3. /\ \A d \in CartIds :
             carts'[d].status = (IF d = id THEN "confirmed" ELSE carts[d].status)
        /\ UNCHANGED <<intents, payments>>
    BY <1>0, <1>5 DEF ConfirmCartCommit, SignCart, CartRow
  <2> HIDE DEF id, seen
  <2> QED
    BY <2>1, <2>2, <2>3, CartChangeIsLogged
<1>6. ASSUME NEW w \in Workers, CreatePaymentCommit(w)
      PROVE  NoSilentChange
  <2> DEFINE id == req[w].id
  <2>1. id \in PaymentIds
    BY <1>6, RequestTypes DEF CreatePaymentCommit, Pending, PaymentOps
  <2>2. Logged("payment", id, "pending", 0)
    BY <1>0, <1>6, <2>1, KeyTypes, RecordTransitionFacts
    DEF CreatePaymentCommit, CommitPayment, LoggedStatus
  <2>3. /\ \A p \in PaymentIds :
             payments'[p].status = (IF p = id THEN "pending" ELSE payments[p].status)
        /\ UNCHANGED <<intents, carts>>
    BY <1>0, <1>6 DEF CreatePaymentCommit, CommitPayment, PaymentRow
  <2> HIDE DEF id
  <2> QED
    BY <2>1, <2>2, <2>3, PaymentChangeIsLogged
<1>7. ASSUME NEW w \in Workers, CancelPaymentCommit(w)
      PROVE  NoSilentChange
  <2> DEFINE id == req[w].id
             seen == req[w].seen
  <2>1. id \in PaymentIds /\ seen \in Nat
    BY <1>7, RequestTypes DEF CancelPaymentCommit, Pending
  <2>2. Logged("payment", id, "cancelled", seen)
    BY <1>0, <1>7, <2>1, KeyTypes, RecordTransitionFacts
    DEF CancelPaymentCommit, CancelPayment, LoggedStatus, ResolvedStatus
  <2>3. /\ \A p \in PaymentIds :
             payments'[p].status = (IF p = id THEN "cancelled" ELSE payments[p].status)
        /\ UNCHANGED <<intents, carts>>
    BY <1>0, <1>7 DEF CancelPaymentCommit, CancelPayment, PaymentRow
  <2> HIDE DEF id, seen
  <2> QED
    BY <2>1, <2>2, <2>3, PaymentChangeIsLogged
<1>8. ASSUME NEW e \in DOMAIN EventStatus, NEW p \in PaymentIds, ProcessWebhook(e, p)
      PROVE  NoSilentChange
  <2>1. CASE payments[p].status = "pending"
    <3> DEFINE to == EventStatus[e]
               len == Len(audit[<<"payment", p>>])
    <3>1. to \in {"executed", "failed"} /\ len \in Nat
      BY KeyTypes, LogTypes DEF EventStatus
    <3>2. Logged("payment", p, to, len)
      BY <1>0, <1>8, <2>1, <3>1, KeyTypes, RecordTransitionFacts
      DEF ProcessWebhook, LoggedStatus, ResolvedStatus
    <3>3. /\ \A q \in PaymentIds :
               payments'[q].status = (IF q = p THEN to ELSE payments[q].status)
          /\ UNCHANGED <<intents, carts>>
      BY <1>0, <1>8, <2>1 DEF ProcessWebhook, PaymentRow
    <3> HIDE DEF to, len
    <3> QED
      BY <3>2, <3>3, PaymentChangeIsLogged
  <2>2. CASE payments[p].status # "pending"
    BY <1>8, <2>2, NothingToLog DEF ProcessWebhook, mvars
  <2> QED
    BY <2>1, <2>2
<1>9. ASSUME NEW p \in PaymentIds, NEW c \in CartIds, FlushPayment(p, c)
      PROVE  NoSilentChange
  BY <1>0, <1>9, NothingToLog DEF FlushPayment, Committed, ResolvedStatus
<1>10. ASSUME NEW w \in Workers, Abort(w)
       PROVE  NoSilentChange
  <2>1. CASE req[w].op \in PaymentOps
    <3>1. /\ payments' = [payments EXCEPT ![req[w].id].status = "absent"]
          /\ UNCHANGED <<intents, carts, audit>>
      BY <1>10, <2>1 DEF Abort, RollBackPayment
    <3> QED
      BY <1>0, <3>1, NothingToLog DEF Committed, ResolvedStatus
  <2>2. CASE req[w].op \notin PaymentOps
    BY <1>10, <2>2, NothingToLog DEF Abort, mvars
  <2> QED
    BY <2>1, <2>2
<1>11. CASE UNCHANGED <<intents, carts, payments, audit>>
  BY <1>11, NothingToLog
<1> QED
  BY <1>1, <1>2, <1>3, <1>4, <1>5, <1>6, <1>7, <1>8, <1>9, <1>10, <1>11
  DEF Next, Begins, Continues, Inserts, World, Webhook, ConfirmIntentCommit,
      CreatePaymentFlush, ConfirmIntentRead, ConfirmCartRead, CancelPaymentRead,
      CreatePaymentCharge, CreateCharge, OutliveTTL, PayFails, PaySucceeds, mvars, vars

-----------------------------------------------------------------------------
(* The theorems. *)

\* The inductive invariant.
IInv == TypeOK /\ Grounded /\ ResolvedOnSignedEvent /\ CartAndPaymentLogsReplay

\* The empty tables satisfy the invariant.
LEMMA InitInvariant == Init => IInv
<1> SUFFICES ASSUME Init PROVE IInv
  OBVIOUS
<1> USE DEF Init, MInit
<1>1. MTypeOK
  <2>1. \A m \in MandateKeys : <<>> \in Seq(AuditRow)
    BY EmptySeq
  <2> QED
    BY <2>1 DEF MTypeOK, IntentRow, IntentStatus, CartRow, CartStatus, PaymentRow, PaymentStatus
<1>2. TypeOK
  <2>1. Idle \in Request
    BY DEF Request
  <2> QED
    BY <1>1, <2>1 DEF TypeOK
<1>3. RowsGrounded /\ RequestsGrounded /\ LogsGrounded
  BY DEF RowsGrounded, RequestsGrounded, RequestGrounded, SamePayment, LogsGrounded, Idle,
         IntentOps, PaymentOps
<1>4. ResolvedOnSignedEvent
  BY DEF ResolvedOnSignedEvent, ResolvedStatus
<1>5. CartAndPaymentLogsReplay
  BY KeyTypes DEF CartAndPaymentLogsReplay, Replayed, Committed, ResolvedStatus
<1> QED
  BY <1>2, <1>3, <1>4, <1>5 DEF IInv, Grounded

\* The invariant of every request, webhook and rollback, for any number of
\* workers: rows, requests and logs stay grounded in each other.
THEOREM Invariance == Spec => []IInv
<1>1. IInv /\ [Next]_vars => IInv'
  BY TypeStep, RowsStep, RequestsStep, SignedEventStep, LogsStep
  DEF IInv, Grounded, LogsReplay
<1> QED
  BY InitInvariant, <1>1, PTL DEF Spec

\* Every variable keeps its type.
THEOREM TypeCorrectness == Spec => []TypeOK
<1>1. IInv => TypeOK
  BY DEF IInv
<1> QED
  BY Invariance, <1>1, PTL

\* Rows rest on rows, and what a request has read and not committed yet is still good
\* enough to commit on: the services decide before they write, without a lock.
THEOREM Grounding == Spec => []Grounded
<1>1. IInv => Grounded
  BY DEF IInv
<1> QED
  BY Invariance, <1>1, PTL

\* No overlap of requests produces a payment outside the signed chain: each one
\* is for the total of a confirmed cart, within the budget of a signed intent.
THEOREM ChainSafety == Spec => []PaymentsFollowTheChain
<1>1. IInv => PaymentsFollowTheChain
  BY DEF IInv, Grounded, RowsGrounded, PaymentsFollowTheChain, Committed, ResolvedStatus
<1> QED
  BY Invariance, <1>1, PTL

\* Payments are resolved only on events the gateway signed for them.
THEOREM WebhookTrust == Spec => []ResolvedOnSignedEvent
<1>1. IInv => ResolvedOnSignedEvent
  BY DEF IInv
<1> QED
  BY Invariance, <1>1, PTL

\* Replaying the audit rows of a cart or a payment gives its status, even when
\* overlapping requests log the same transition twice.
THEOREM AuditReplay == Spec => []CartAndPaymentLogsReplay
<1>1. IInv => CartAndPaymentLogsReplay
  BY DEF IInv
<1> QED
  BY Invariance, <1>1, PTL

\* No interleaving of webhooks, retries and cancellations reopens or overwrites a
\* resolved payment.
THEOREM FinalResolution == Spec => ResolvedPaymentIsFinal
<1>1. IInv /\ [Next]_vars => [ResolutionIsFinal]_vars
  BY ResolutionStep DEF IInv, Grounded
<1> QED
  BY Invariance, <1>1, PTL DEF Spec, ResolvedPaymentIsFinal

\* Every change of a mandate's status is logged by the same commit, and no log row
\* is lost.
THEOREM AuditCompleteness == Spec => EveryChangeLogged
<1>1. IInv /\ [Next]_vars => [NoSilentChange]_vars
  BY LoggingStep DEF IInv, Grounded
<1> QED
  BY Invariance, <1>1, PTL DEF Spec, EveryChangeLogged

=============================================================================
