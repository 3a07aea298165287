----------------------------- MODULE LogInsertion -----------------------------
(***************************************************************************)
(* What InsertAt does to a log, for the logs ordered by a time stamp that  *)
(* is read before the commit: audit_log (Mandates) and price_history       *)
(* (Catalog).                                                              *)
(***************************************************************************)
EXTENDS Integers, Sequences, SequencesExt, SequenceTheorems, TLAPS

\* Inserting one row into a log gives a log one row longer, with the rows before
\* the new one where they were and the others one place further on.
LEMMA InsertAtElements ==
    ASSUME NEW S, NEW s \in Seq(S), NEW e \in S, NEW pos \in 1..(Len(s) + 1)
    PROVE  /\ InsertAt(s, pos, e) \in Seq(S)
           /\ Len(InsertAt(s, pos, e)) = Len(s) + 1
           /\ \A k \in 1..(Len(s) + 1) :
                 InsertAt(s, pos, e)[k] =
                    IF k < pos THEN s[k] ELSE IF k = pos THEN e ELSE s[k - 1]
<1> DEFINE before == SubSeq(s, 1, pos - 1)
           after == SubSeq(s, pos, Len(s))
           front == before \o <<e>>
           whole == front \o after
<1>1. /\ before \in Seq(S)
      /\ Len(before) = pos - 1
      /\ \A k \in 1..(pos - 1) : before[k] = s[k]
  <2>1. \A k \in 1..(pos - 1) : s[k] \in S
    OBVIOUS
  <2> QED
    BY <2>1, SubSeqProperties
<1>2. /\ after \in Seq(S)
      /\ Len(after) = Len(s) + 1 - pos
      /\ \A k \in 1..(Len(s) + 1 - pos) : after[k] = s[pos + k - 1]
  <2>1. \A k \in pos..Len(s) : s[k] \in S
    OBVIOUS
  <2> QED
    BY <2>1, SubSeqProperties
<1>3. <<e>> \in Seq(S) /\ Len(<<e>>) = 1 /\ <<e>>[1] = e
  OBVIOUS
<1>4. InsertAt(s, pos, e) = whole
  BY DEF InsertAt
<1> HIDE DEF before, after, whole
<1>5. /\ front \in Seq(S)
      /\ Len(front) = pos
      /\ \A k \in 1..pos : front[k] = IF k < pos THEN s[k] ELSE e
  BY <1>1, <1>3, ConcatProperties
<1> HIDE DEF front
<1>6. /\ whole \in Seq(S)
      /\ Len(whole) = Len(front) + Len(after)
      /\ \A k \in 1..(Len(front) + Len(after)) :
            whole[k] = IF k <= Len(front) THEN front[k] ELSE after[k - Len(front)]
  BY ZenonT(60), <1>2, <1>5, ConcatProperties DEF whole
<1>7. Len(front) + Len(after) = Len(s) + 1
  BY <1>2, <1>5, LenProperties
<1>8. ASSUME NEW k \in 1..(Len(s) + 1)
      PROVE  whole[k] = IF k < pos THEN s[k] ELSE IF k = pos THEN e ELSE s[k - 1]
  <2>1. CASE k <= pos
    BY <1>5, <1>6, <1>7, <2>1
  <2>2. CASE k > pos
    <3>1. whole[k] = after[k - pos]
      BY <1>5, <1>6, <1>7, <2>2
    <3>2. k - pos \in 1..(Len(s) + 1 - pos) /\ pos + (k - pos) - 1 = k - 1
      BY <2>2
    <3>3. after[k - pos] = s[k - 1]
      BY <1>2, <3>2
    <3> QED
      BY <2>2, <3>1, <3>3
  <2> QED
    BY <2>1, <2>2
<1> QED
  BY <1>4, <1>6, <1>7, <1>8

\* The same of one place of the log.
LEMMA InsertAtEach ==
    ASSUME NEW S, NEW s \in Seq(S), NEW e \in S, NEW pos \in 1..(Len(s) + 1),
           NEW k \in 1..(Len(s) + 1)
    PROVE  /\ k < pos => InsertAt(s, pos, e)[k] = s[k]
           /\ k = pos => InsertAt(s, pos, e)[k] = e
           /\ k > pos => InsertAt(s, pos, e)[k] = s[k - 1]
<1> DEFINE new == InsertAt(s, pos, e)
<1>1. \A j \in 1..(Len(s) + 1) :
            new[j] = IF j < pos THEN s[j] ELSE IF j = pos THEN e ELSE s[j - 1]
  BY InsertAtElements
<1> HIDE DEF new
<1>2. /\ k < pos => new[k] = s[k]
      /\ k = pos => new[k] = e
      /\ k > pos => new[k] = s[k - 1]
  BY <1>1
<1> QED
  BY <1>2 DEF new

\* The new row is where it was put, and the log ends in it or as it did.
LEMMA InsertAtFacts ==
    ASSUME NEW S, NEW s \in Seq(S), NEW e \in S, NEW pos \in 1..(Len(s) + 1)
    PROVE  /\ InsertAt(s, pos, e) \in Seq(S)
           /\ Len(InsertAt(s, pos, e)) = Len(s) + 1
           /\ InsertAt(s, pos, e)[pos] = e
           /\ Last(InsertAt(s, pos, e)) =
                (IF pos = Len(s) + 1 THEN e ELSE s[Len(s)])
<1> DEFINE new == InsertAt(s, pos, e)
<1>1. /\ new \in Seq(S)
      /\ Len(new) = Len(s) + 1
      /\ \A k \in 1..(Len(s) + 1) :
            new[k] = IF k < pos THEN s[k] ELSE IF k = pos THEN e ELSE s[k - 1]
  BY InsertAtElements
<1> HIDE DEF new
<1>2. new[pos] = e
  BY <1>1
<1>3. new[Len(s) + 1] = IF pos = Len(s) + 1 THEN e ELSE s[Len(s)]
  BY <1>1
<1> QED
  BY <1>1, <1>2, <1>3 DEF new, Last

\* Logs of up to three rows, row by row.
LEMMA ShortLogs ==
    ASSUME NEW a, NEW b, NEW c
    PROVE  /\ Append(<<>>, a) = <<a>>
           /\ Append(<<a>>, b) = <<a, b>>
           /\ Append(<<a, b>>, c) = <<a, b, c>>
<1> DEFINE S == {a, b, c}
<1>1. Append(<<>>, a) = <<a>>
  OBVIOUS
<1>2. Append(<<a>>, b) = <<a, b>>
  <2>1. <<a>> \in Seq(S) /\ <<a, b>> \in Seq(S) /\ b \in S
    OBVIOUS
  <2>2. \A k \in 1..2 : Append(<<a>>, b)[k] = <<a, b>>[k]
    OBVIOUS
  <2>3. Append(<<a>>, b) \in Seq(S) /\ Len(Append(<<a>>, b)) = 2 /\ Len(<<a, b>>) = 2
    BY <2>1, AppendProperties
  <2> QED
    BY <2>1, <2>2, <2>3, SeqEqual
<1>3. Append(<<a, b>>, c) = <<a, b, c>>
  <2>1. <<a, b>> \in Seq(S) /\ <<a, b, c>> \in Seq(S) /\ c \in S
    OBVIOUS
  <2>2. \A k \in 1..3 : Append(<<a, b>>, c)[k] = <<a, b, c>>[k]
    OBVIOUS
  <2>3. Append(<<a, b>>, c) \in Seq(S) /\ Len(Append(<<a, b>>, c)) = 3 /\ Len(<<a, b, c>>) = 3
    BY <2>1, AppendProperties
  <2> QED
    BY <2>1, <2>2, <2>3, SeqEqual
<1> QED
  BY <1>1, <1>2, <1>3

\* A row inserted last is appended.
LEMMA InsertAtEnd ==
    ASSUME NEW S, NEW s \in Seq(S), NEW e \in S
    PROVE  InsertAt(s, Len(s) + 1, e) = Append(s, e)
<1> DEFINE new == InsertAt(s, Len(s) + 1, e)
           longer == Append(s, e)
<1>1. /\ new \in Seq(S)
      /\ Len(new) = Len(s) + 1
      /\ \A k \in 1..(Len(s) + 1) : new[k] = IF k < Len(s) + 1 THEN s[k] ELSE e
  BY InsertAtElements
<1>2. /\ longer \in Seq(S)
      /\ Len(longer) = Len(s) + 1
      /\ \A k \in 1..(Len(s) + 1) : longer[k] = IF k < Len(s) + 1 THEN s[k] ELSE e
  BY AppendProperties
<1> HIDE DEF new, longer
<1>3. \A k \in 1..Len(new) : new[k] = longer[k]
  BY <1>1, <1>2
<1>4. new = longer
  BY <1>1, <1>2, <1>3, SeqEqual
<1> QED
  BY <1>4 DEF new, longer

\* Insertion adds the new row to the rows of the log, and loses none.
LEMMA InsertAtRange ==
    ASSUME NEW S, NEW s \in Seq(S), NEW e \in S, NEW pos \in 1..(Len(s) + 1)
    PROVE  ToSet(s) \cup {e} \subseteq ToSet(InsertAt(s, pos, e))
<1> DEFINE new == InsertAt(s, pos, e)
<1>1. /\ new \in Seq(S)
      /\ Len(new) = Len(s) + 1
      /\ \A k \in 1..(Len(s) + 1) :
            new[k] = IF k < pos THEN s[k] ELSE IF k = pos THEN e ELSE s[k - 1]
  BY InsertAtElements
<1> HIDE DEF new
<1>2. DOMAIN new = 1..(Len(s) + 1) /\ DOMAIN s = 1..Len(s)
  BY <1>1
<1>3. e \in ToSet(new)
  BY <1>1, <1>2 DEF ToSet
<1>4. ASSUME NEW k \in 1..Len(s)
      PROVE  s[k] \in ToSet(new)
  <2>1. CASE k < pos
    BY <1>1, <1>2, <2>1 DEF ToSet
  <2>2. CASE k >= pos
    <3>1. k + 1 \in 1..(Len(s) + 1) /\ new[k + 1] = s[k]
      BY <1>1, <2>2
    <3> QED
      BY <1>2, <3>1 DEF ToSet
  <2> QED
    BY <2>1, <2>2
<1>5. ToSet(s) \subseteq ToSet(new)
  BY <1>2, <1>4 DEF ToSet
<1> QED
  BY <1>3, <1>5 DEF new

=============================================================================
