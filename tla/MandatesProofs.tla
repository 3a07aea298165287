---------------------------- MODULE MandatesProofs ----------------------------
(***************************************************************************)
(* Facts about the tables and transactions of Mandates, whoever runs them. *)
(***************************************************************************)
EXTENDS Mandates, LogInsertion

\* A transition adds one row to the log of its mandate and touches no other
\* log; the log ends in the new row unless others were added since it was read.
Logged(kind, id, to, seen) ==
    LET m == <<kind, id>>
    IN /\ Len(audit'[m]) = Len(audit[m]) + 1
       /\ \E k \in DOMAIN audit'[m] : audit'[m][k].to = to
       /\ audit'[m] # <<>>
       /\ \/ Last(audit'[m]).to = to
          \/ Last(audit'[m]) = Last(audit[m]) /\ seen < Len(audit[m])
       /\ \A n \in MandateKeys : n # m => audit'[n] = audit[n]

\* A transition adds one row to its own log, wherever created_at puts it.
LEMMA RecordTransitionFacts ==
    ASSUME MTypeOK, NEW kind, NEW id, <<kind, id>> \in MandateKeys,
           NEW from \in LoggedStatus \cup {"none"}, NEW to \in LoggedStatus,
           NEW actor \in {"customer", "system", "user"}, NEW seen \in Nat,
           RecordTransition(kind, id, from, to, actor, seen)
    PROVE  /\ audit' \in [MandateKeys -> Seq(AuditRow)]
           /\ Logged(kind, id, to, seen)
<1> DEFINE m == <<kind, id>>
           row == [from |-> from, to |-> to, actor |-> actor]
<1>1. row \in AuditRow /\ row.to = to
  BY DEF AuditRow
<1>2. audit \in [MandateKeys -> Seq(AuditRow)] /\ audit[m] \in Seq(AuditRow)
  BY DEF MTypeOK
<1>3. PICK pos \in (seen + 1)..(Len(audit[m]) + 1) :
        audit' = [audit EXCEPT ![m] = InsertAt(audit[m], pos, row)]
  BY <1>2 DEF RecordTransition
<1>4. pos \in 1..(Len(audit[m]) + 1)
  BY <1>2, <1>3
<1> HIDE DEF row, m
<1>5. /\ InsertAt(audit[m], pos, row) \in Seq(AuditRow)
      /\ Len(InsertAt(audit[m], pos, row)) = Len(audit[m]) + 1
      /\ InsertAt(audit[m], pos, row)[pos] = row
      /\ Last(InsertAt(audit[m], pos, row)) =
            (IF pos = Len(audit[m]) + 1 THEN row ELSE audit[m][Len(audit[m])])
  BY <1>1, <1>2, <1>4, InsertAtFacts
<1>6. m \in MandateKeys
  BY DEF m
<1>7. audit'[m] = InsertAt(audit[m], pos, row)
  BY <1>2, <1>3, <1>6
<1>8. audit' \in [MandateKeys -> Seq(AuditRow)]
  BY <1>2, <1>3, <1>5
<1>9. pos \in DOMAIN audit'[m] /\ audit'[m][pos].to = to
  BY <1>1, <1>2, <1>4, <1>5, <1>7
<1>10. audit'[m] # <<>>
  BY <1>2, <1>5, <1>7
<1>11. \/ Last(audit'[m]).to = to
       \/ Last(audit'[m]) = Last(audit[m]) /\ seen < Len(audit[m])
  BY <1>1, <1>2, <1>3, <1>4, <1>5, <1>7 DEF Last
<1>12. \A n \in MandateKeys : n # m => audit'[n] = audit[n]
  BY <1>2, <1>3
<1> QED
  BY <1>5, <1>7, <1>8, <1>9, <1>10, <1>11, <1>12 DEF m, Logged

\* The mandates audit_log can name.
LEMMA KeyTypes ==
    /\ \A i \in IntentIds : <<"intent", i>> \in MandateKeys
    /\ \A c \in CartIds : <<"cart", c>> \in MandateKeys
    /\ \A p \in PaymentIds : <<"payment", p>> \in MandateKeys
BY DEF MandateKeys

\* The row is the last of its log.
LoggedLast(kind, id, from, to, actor) ==
    LET m == <<kind, id>>
    IN /\ audit'[m] = Append(audit[m], [from |-> from, to |-> to, actor |-> actor])
       /\ \A n \in MandateKeys : n # m => audit'[n] = audit[n]

\* A transition of a mandate nobody else writes meanwhile is the last of its log.
LEMMA RecordedLast ==
    ASSUME MTypeOK, NEW kind, NEW id, <<kind, id>> \in MandateKeys,
           NEW from \in LoggedStatus \cup {"none"}, NEW to \in LoggedStatus,
           NEW actor \in {"customer", "system", "user"},
           RecordTransition(kind, id, from, to, actor, Len(audit[<<kind, id>>]))
    PROVE  LoggedLast(kind, id, from, to, actor)
<1> DEFINE m == <<kind, id>>
           row == [from |-> from, to |-> to, actor |-> actor]
<1>1. row \in AuditRow
  BY DEF AuditRow
<1>2. audit \in [MandateKeys -> Seq(AuditRow)] /\ audit[m] \in Seq(AuditRow)
  BY DEF MTypeOK
<1>3. PICK pos \in (Len(audit[m]) + 1)..(Len(audit[m]) + 1) :
        audit' = [audit EXCEPT ![m] = InsertAt(audit[m], pos, row)]
  BY <1>2 DEF RecordTransition
<1>4. Len(audit[m]) \in Nat
  BY <1>2, LenProperties
<1>5. pos = Len(audit[m]) + 1
  BY <1>3, <1>4
<1>6. InsertAt(audit[m], pos, row) = Append(audit[m], row)
  <2> HIDE DEF row, m
  <2> QED
    BY <1>1, <1>2, <1>5, InsertAtEnd
<1> QED
  BY <1>2, <1>3, <1>6 DEF LoggedLast

\* What a row of the audit log may say.
LEMMA LoggedTypes ==
    /\ "draft" \in LoggedStatus /\ "confirmed" \in LoggedStatus
    /\ "expired" \in LoggedStatus /\ "pending" \in LoggedStatus
    /\ "executed" \in LoggedStatus /\ "failed" \in LoggedStatus
    /\ "cancelled" \in LoggedStatus
    /\ "none" \in LoggedStatus \cup {"none"}
    /\ "draft" \in LoggedStatus \cup {"none"}
    /\ "pending" \in LoggedStatus \cup {"none"}
    /\ "failed" \in LoggedStatus \cup {"none"}
BY DEF LoggedStatus, ResolvedStatus

=============================================================================
