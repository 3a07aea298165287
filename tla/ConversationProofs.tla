--------------------------- MODULE ConversationProofs ---------------------------
(***************************************************************************)
(* Proofs about Conversation for every number of messages, conversations   *)
(* and polling attempts.                                                   *)
(***************************************************************************)
EXTENDS Conversation, SequenceTheorems, TLAPS

-----------------------------------------------------------------------------
(* The inductive invariant. *)

\* The turn holds a row of the table; something of the message is still to come.
OnRow(m) == turns[m].at \in {"running", "expired", "appending"}
InFlight(m) == OnServer(m) \/ turns[m].waiting

\* A conversation some copy, load or turn refers to.
Named(c) ==
    \/ c \in {browser.conversation, cache.conversation, load.row}
    \/ \E m \in Messages : turns[m].row = c

\* Wherever a conversation is named there is a row of it, or has been; a row that was
\* never inserted has no log, and a turn has one before it runs.
NamesFit ==
    /\ \A c \in ConversationIds : rows[c].status = "none" => rows[c].log = <<>>
    /\ \A c \in ConversationIds : Named(c) => rows[c].status # "none"
    /\ \A m \in Messages : OnRow(m) \/ turns[m].at = "answered" => turns[m].row # 0
    /\ \A m \in Messages : turns[m].at = "sent" => turns[m].read = <<>> /\ turns[m].alone
    /\ Loading => load.row # 0

\* A log holds a turn in one piece.
Holds(log, m) == \E k \in 1..(Len(log) - 1) : log[k] = User(m) /\ log[k + 1] = Assistant(m)

\* Turns that run on one row know of each other, and what a turn has read holds every
\* turn that has run alone before.
TurnsFit ==
    /\ \A m, n \in Messages :
          OnRow(m) /\ OnRow(n) /\ turns[m].row = turns[n].row /\ turns[m].alone => m = n
    /\ \A m, n \in Messages :
          /\ turns[m].at = "answered" /\ turns[m].alone
          /\ turns[n].at \in {"running", "appending"} /\ turns[n].row = turns[m].row
          => Holds(turns[n].read, m)
    /\ LoneTurnsAreKept

\* The stored log of the open conversation, which may not have one yet.
StoredLog(c) == IF c = 0 THEN <<>> ELSE rows[c].log

\* Where a message that is under way has left the two logs.
FlightFits(m) ==
    /\ turns[m].waiting
    /\ turns[m].at \in {"sent", "running", "expired", "appending", "answered", "dead"}
    /\ turns[m].at = "sent" =>
          /\ turns[m].row = browser.conversation
          /\ browser.log = Append(StoredLog(browser.conversation), User(m))
    /\ OnRow(m) => browser.log = Append(rows[turns[m].row].log, User(m))
    /\ turns[m].at \in {"running", "appending"} => turns[m].read = rows[turns[m].row].log
    /\ turns[m].at = "answered" => rows[turns[m].row].log = Append(browser.log, Assistant(m))

\* In the calm there is one message under way, or the three copies are the same; a load
\* with nothing under way beside it brings the stored log.
CalmFits ==
    /\ calm /\ ~Busy =>
          /\ cache = [conversation |-> browser.conversation, log |-> browser.log]
          /\ browser.log = StoredLog(browser.conversation)
    /\ calm => \A m \in Messages : InFlight(m) =>
          /\ FlightFits(m)
          /\ \A n \in Messages : InFlight(n) => n = m
    /\ load.clean => Loading /\ ~Busy
    /\ load.clean /\ load.at = "answered" => load.log = rows[load.row].log

\* The inductive invariant.
ConvInv ==
    /\ ConvTypeOK
    /\ NamesFit
    /\ TurnsFit
    /\ CalmFits
    /\ SpinnerHasACause

-----------------------------------------------------------------------------
(* Logs. *)

\* A message, and an answer, make a log longer by one.
LEMMA LogTypes ==
    ASSUME NEW log \in Log, NEW m \in Messages
    PROVE  /\ Append(log, User(m)) \in Log
           /\ Append(log, Assistant(m)) \in Log
           /\ <<>> \in Log
<1>1. User(m) \in {"user", "assistant"} \X Messages
      /\ Assistant(m) \in {"user", "assistant"} \X Messages
  BY DEF User, Assistant
<1> HIDE DEF User, Assistant
<1> QED
  BY <1>1, AppendProperties DEF Log

\* A stored turn is its message and its answer, one after the other; it is held in one
\* piece, and so is what was held before.
LEMMA TurnAppended ==
    ASSUME NEW log \in Log, NEW m \in Messages
    PROVE  /\ log \o <<User(m), Assistant(m)>> \in Log
           /\ log \o <<User(m), Assistant(m)>> = Append(Append(log, User(m)), Assistant(m))
           /\ Holds(log \o <<User(m), Assistant(m)>>, m)
           /\ \A n \in Messages : Holds(log, n) => Holds(log \o <<User(m), Assistant(m)>>, n)
<1> DEFINE S == {"user", "assistant"} \X Messages
           u == User(m)
           a == Assistant(m)
           pair == <<u, a>>
           new == log \o pair
<1>1. u \in S /\ a \in S
  BY DEF User, Assistant
<1> HIDE DEF S, u, a
<1>2. pair \in Seq(S) /\ Len(pair) = 2 /\ pair[1] = u /\ pair[2] = a
  BY <1>1
<1>3. log \in Seq(S) /\ Len(log) \in Nat
  BY DEF Log, S
<1> HIDE DEF pair
<1>4. /\ new \in Seq(S) /\ Len(new) = Len(log) + 2
      /\ \A k \in 1..(Len(log) + 2) :
            new[k] = IF k <= Len(log) THEN log[k] ELSE pair[k - Len(log)]
  <2>1. /\ new \in Seq(S) /\ Len(new) = Len(log) + Len(pair)
        /\ \A k \in 1..(Len(log) + Len(pair)) :
              new[k] = IF k <= Len(log) THEN log[k] ELSE pair[k - Len(log)]
    BY <1>2, <1>3, ConcatProperties
  <2> QED
    BY <1>2, <2>1
<1> HIDE DEF new
<1>5. new[Len(log) + 1] = u /\ new[Len(log) + 2] = a
  <2>1. new[Len(log) + 1] = pair[1] /\ new[Len(log) + 2] = pair[2]
    BY <1>3, <1>4
  <2> QED
    BY <1>2, <2>1
<1>6. new = Append(Append(log, u), a)
  <2> DEFINE one == Append(log, u)
             two == Append(one, a)
  <2>1. /\ one \in Seq(S) /\ Len(one) = Len(log) + 1
        /\ \A k \in 1..(Len(log) + 1) : one[k] = IF k <= Len(log) THEN log[k] ELSE u
    BY <1>1, <1>3, AppendProperties
  <2> HIDE DEF one
  <2>2. /\ two \in Seq(S) /\ Len(two) = Len(log) + 2
        /\ \A k \in 1..(Len(log) + 2) : two[k] = IF k <= Len(log) + 1 THEN one[k] ELSE a
    BY <1>1, <1>3, <2>1, AppendProperties
  <2> HIDE DEF two
  <2>3. \A k \in 1..Len(new) : new[k] = two[k]
    BY SMTT(30), <1>3, <1>4, <1>5, <2>1, <2>2
  <2>4. new = two
    BY <1>4, <2>2, <2>3, SeqEqual
  <2> QED
    BY <2>4 DEF one, two
<1>7. Holds(new, m)
  BY <1>3, <1>4, <1>5 DEF Holds, u, a
<1>8. ASSUME NEW n \in Messages, Holds(log, n)
      PROVE  Holds(new, n)
  <2>1. PICK k \in 1..(Len(log) - 1) : log[k] = User(n) /\ log[k + 1] = Assistant(n)
    BY <1>8 DEF Holds
  <2>2. k \in 1..(Len(new) - 1) /\ new[k] = log[k] /\ new[k + 1] = log[k + 1]
    BY <1>3, <1>4
  <2> QED
    BY <2>1, <2>2 DEF Holds
<1> QED
  BY <1>4, <1>6, <1>7, <1>8 DEF new, pair, u, a, S, Log

-----------------------------------------------------------------------------
(* Steps that leave the turns and the rows alone. *)

\* The store, a load and the polling move none of the turns.
LEMMA TurnsAlone ==
    ASSUME TurnsFit, UNCHANGED <<rows, turns>>
    PROVE  TurnsFit'
BY DEF TurnsFit, LoneTurnsAreKept, Kept, Holds, OnRow

\* Nor do they change what is under way.
LEMMA FlightsAlone ==
    ASSUME UNCHANGED turns
    PROVE  /\ Busy' = Busy
           /\ \A m \in Messages : InFlight(m)' = InFlight(m)
BY DEF Busy, InFlight, OnServer

\* No conversation is named that was not before.
LEMMA NamesMove ==
    ASSUME NamesFit, rows' = rows,
           \A m \in Messages : /\ turns'[m].at = turns[m].at /\ turns'[m].row = turns[m].row
                              /\ turns'[m].read = turns[m].read
                              /\ turns'[m].alone = turns[m].alone,
           {browser'.conversation, cache'.conversation, load'.row}
              \subseteq {0, browser.conversation, cache.conversation, load.row},
           Loading' => load'.row # 0
    PROVE  NamesFit'
<1>1. ASSUME NEW c \in ConversationIds, Named(c)'
      PROVE  rows'[c].status # "none"
  <2>1. c # 0
    BY DEF ConversationIds
  <2>2. Named(c)
    BY <1>1, <2>1 DEF Named
  <2> QED
    BY <2>2 DEF NamesFit
<1>2. \A c \in ConversationIds : rows'[c].status = "none" => rows'[c].log = <<>>
  BY DEF NamesFit
<1>3. ASSUME NEW m \in Messages
      PROVE  /\ OnRow(m)' \/ turns'[m].at = "answered" => turns'[m].row # 0
             /\ turns'[m].at = "sent" => turns'[m].read = <<>> /\ turns'[m].alone
  BY DEF NamesFit, OnRow
<1> QED
  BY <1>1, <1>2, <1>3 DEF NamesFit

\* Starting over leaves a browser without a conversation.
LEMMA StartOverKeeps ==
    ASSUME ConvInv, StartOver
    PROVE  ConvInv'
<1>1. /\ ConvTypeOK /\ NamesFit /\ TurnsFit /\ CalmFits /\ SpinnerHasACause
      /\ browser' = [browser EXCEPT !.conversation = 0, !.log = <<>>] /\ cache' = Empty
      /\ calm' = (~Busy /\ ~Loading)
      /\ rows' = rows /\ turns' = turns /\ load' = load /\ poll' = poll
  BY DEF ConvInv, StartOver
<1>2. /\ browser'.conversation = 0 /\ browser'.log = <<>>
      /\ browser'.isSending = browser.isSending
  BY <1>1 DEF ConvTypeOK, Browser
<1>3. ConvTypeOK'
  <2>1. <<>> \in Log /\ (~Busy /\ ~Loading) \in BOOLEAN
    BY DEF Log
  <2> QED
    BY <1>1, <2>1 DEF ConvTypeOK, Browser, Empty, Snapshot, MaybeId
<1>4. NamesFit'
  BY <1>1, <1>2, NamesMove DEF NamesFit, Empty, Loading
<1>5. CalmFits'
  <2>1. calm' => ~Busy
    BY <1>1
  <2>2. cache' = [conversation |-> browser'.conversation, log |-> browser'.log]
        /\ browser'.log = StoredLog(browser.conversation)'
    BY <1>1, <1>2 DEF Empty, StoredLog
  <2>3. \A m \in Messages : InFlight(m)' => Busy
    BY <1>1 DEF InFlight, Busy, OnServer
  <2> QED
    BY <1>1, <2>1, <2>2, <2>3, FlightsAlone DEF CalmFits, Loading
<1>6. SpinnerHasACause'
  BY <1>1, <1>2 DEF SpinnerHasACause, Loading
<1> QED
  BY <1>1, <1>3, <1>4, <1>5, <1>6, TurnsAlone DEF ConvInv

\* A conversation is asked for.
LEMMA LoadConversationKeeps ==
    ASSUME ConvInv, NEW c \in ConversationIds, LoadConversation(c)
    PROVE  ConvInv'
<1>1. /\ ConvTypeOK /\ NamesFit /\ TurnsFit /\ CalmFits /\ SpinnerHasACause
      /\ ~Loading /\ rows[c].status = "stored"
      /\ browser' = [browser EXCEPT !.isSending = TRUE]
      /\ load' = [at |-> "asked", row |-> c, log |-> <<>>, clean |-> ~Busy]
      /\ rows' = rows /\ turns' = turns /\ cache' = cache /\ poll' = poll /\ calm' = calm
  BY DEF ConvInv, LoadConversation
<1>2. /\ browser'.conversation = browser.conversation /\ browser'.log = browser.log
      /\ load'.at = "asked" /\ load'.row = c /\ load'.clean = ~Busy
  BY <1>1 DEF ConvTypeOK, Browser
<1>3. ConvTypeOK'
  <2>1. <<>> \in Log /\ (~Busy) \in BOOLEAN
    BY DEF Log
  <2> QED
    BY <1>1, <2>1 DEF ConvTypeOK, Browser, Load, MaybeId
<1>4. NamesFit'
  BY <1>1, <1>2 DEF NamesFit, Named, OnRow, Loading, ConversationIds
<1>5. CalmFits'
  <2>1. load'.clean => ~Busy /\ Loading'
    BY <1>2 DEF Loading
  <2>2. \A m \in Messages : FlightFits(m) => FlightFits(m)'
    BY <1>1, <1>2 DEF FlightFits, OnRow, StoredLog
  <2> QED
    BY <1>1, <1>2, <2>1, <2>2, FlightsAlone DEF CalmFits, StoredLog
<1>6. SpinnerHasACause'
  BY <1>2 DEF SpinnerHasACause, Loading
<1> QED
  BY <1>1, <1>3, <1>4, <1>5, <1>6, TurnsAlone DEF ConvInv

\* The server answers with the stored log.
LEMMA AnswerLoadKeeps ==
    ASSUME ConvInv, AnswerLoad
    PROVE  ConvInv'
<1>1. /\ ConvTypeOK /\ NamesFit /\ TurnsFit /\ CalmFits /\ SpinnerHasACause
      /\ load.at = "asked"
      /\ load' = [load EXCEPT !.at = "answered", !.log = rows[load.row].log]
      /\ rows' = rows /\ turns' = turns /\ browser' = browser /\ cache' = cache
      /\ poll' = poll /\ calm' = calm
  BY DEF ConvInv, AnswerLoad
<1>2. load.row \in ConversationIds /\ rows[load.row].log \in Log
  BY <1>1 DEF ConvTypeOK, NamesFit, Load, Loading, MaybeId, Row
<1>3. /\ load'.at = "answered" /\ load'.row = load.row /\ load'.clean = load.clean
      /\ load'.log = rows[load.row].log
  BY <1>1 DEF ConvTypeOK, Load
<1>4. ConvTypeOK'
  BY <1>1, <1>2 DEF ConvTypeOK, Load
<1>5. NamesFit'
  BY <1>1, <1>3 DEF NamesFit, Named, OnRow, Loading
<1>6. CalmFits'
  <2>1. \A m \in Messages : FlightFits(m) => FlightFits(m)'
    BY <1>1 DEF FlightFits, OnRow, StoredLog
  <2> QED
    BY <1>1, <1>3, <2>1, FlightsAlone DEF CalmFits, StoredLog, Loading
<1>7. SpinnerHasACause'
  BY <1>1, <1>3 DEF SpinnerHasACause, Loading
<1> QED
  BY <1>1, <1>4, <1>5, <1>6, <1>7, TurnsAlone DEF ConvInv

\* The store is replaced by what was loaded.
LEMMA FinishLoadKeeps ==
    ASSUME ConvInv, FinishLoad
    PROVE  ConvInv'
<1>1. /\ ConvTypeOK /\ NamesFit /\ TurnsFit /\ CalmFits
      /\ load.at = "answered"
      /\ browser' = [conversation |-> load.row, log |-> load.log, isSending |-> FALSE]
      /\ cache' = [conversation |-> load.row, log |-> load.log]
      /\ load' = NoLoad /\ calm' = load.clean
      /\ rows' = rows /\ turns' = turns /\ poll' = poll
  BY DEF ConvInv, FinishLoad
<1>2. load.row \in ConversationIds /\ load.log \in Log /\ load.clean \in BOOLEAN
  BY <1>1 DEF ConvTypeOK, NamesFit, Load, Loading, MaybeId
<1>3. ConvTypeOK'
  BY <1>1, <1>2 DEF ConvTypeOK, Browser, Snapshot, NoLoad, Load, Log, MaybeId
<1>4. NamesFit'
  BY <1>1, <1>2, NamesMove DEF Loading, NoLoad
<1>5. CalmFits'
  <2>1. calm' => ~Busy /\ load.log = rows[load.row].log
    BY <1>1 DEF CalmFits
  <2>2. load.row # 0
    BY <1>2 DEF ConversationIds
  <2>3. calm' => browser'.log = StoredLog(browser.conversation)'
    BY <1>1, <2>1, <2>2 DEF StoredLog
  <2>4. \A m \in Messages : InFlight(m)' => Busy
    BY <1>1 DEF InFlight, Busy, OnServer
  <2>5. load'.clean = FALSE /\ cache' = [conversation |-> browser'.conversation,
                                         log |-> browser'.log]
    BY <1>1 DEF NoLoad
  <2> QED
    BY <1>1, <2>1, <2>3, <2>4, <2>5, FlightsAlone DEF CalmFits
<1>6. SpinnerHasACause'
  BY <1>1 DEF SpinnerHasACause
<1> QED
  BY <1>1, <1>3, <1>4, <1>5, <1>6, TurnsAlone DEF ConvInv

\* A load fails.
LEMMA FailLoadKeeps ==
    ASSUME ConvInv, FailLoad
    PROVE  ConvInv'
<1>1. /\ ConvTypeOK /\ NamesFit /\ TurnsFit /\ CalmFits
      /\ browser' = [browser EXCEPT !.isSending = FALSE] /\ load' = NoLoad
      /\ rows' = rows /\ turns' = turns /\ cache' = cache /\ poll' = poll /\ calm' = calm
  BY DEF ConvInv, FailLoad
<1>2. /\ browser'.conversation = browser.conversation /\ browser'.log = browser.log
      /\ browser'.isSending = FALSE
  BY <1>1 DEF ConvTypeOK, Browser
<1>3. ConvTypeOK'
  <2>1. load' \in Load
    BY <1>1, LogTypes DEF NoLoad, Load, Log, MaybeId
  <2> QED
    BY <1>1, <2>1 DEF ConvTypeOK, Browser
<1>4. NamesFit'
  BY <1>1, <1>2, NamesMove DEF Loading, NoLoad
<1>5. CalmFits'
  <2>1. \A m \in Messages : FlightFits(m) => FlightFits(m)'
    BY <1>1, <1>2 DEF FlightFits, OnRow, StoredLog
  <2>2. load'.clean = FALSE
    BY <1>1 DEF NoLoad
  <2> QED
    BY <1>1, <1>2, <2>1, <2>2, FlightsAlone DEF CalmFits, StoredLog
<1>6. SpinnerHasACause'
  BY <1>2 DEF SpinnerHasACause
<1> QED
  BY <1>1, <1>3, <1>4, <1>5, <1>6, TurnsAlone DEF ConvInv

\* A reloaded page takes over what the browser had put aside.
LEMMA ReloadKeeps ==
    ASSUME ConvInv, Reload
    PROVE  ConvInv'
<1>1. /\ ConvTypeOK /\ NamesFit /\ TurnsFit /\ CalmFits
      /\ browser' = [conversation |-> cache.conversation, log |-> cache.log,
                     isSending |-> FALSE]
      /\ turns' = [m \in Messages |-> [turns[m] EXCEPT !.waiting = FALSE]]
      /\ load' = NoLoad
      /\ poll' = IF poll.at = "polling" THEN PollIs("gone") ELSE poll
      /\ calm' = (calm /\ ~Busy)
      /\ rows' = rows /\ cache' = cache
  BY DEF ConvInv, Reload
<1>2. \A m \in Messages :
         /\ turns'[m] \in Turn /\ turns'[m].at = turns[m].at /\ turns'[m].row = turns[m].row
         /\ turns'[m].read = turns[m].read /\ turns'[m].alone = turns[m].alone
         /\ turns'[m].waiting = FALSE
  <2> SUFFICES ASSUME NEW m \in Messages
               PROVE  /\ turns'[m] \in Turn /\ turns'[m].at = turns[m].at
                      /\ turns'[m].row = turns[m].row
                      /\ turns'[m].read = turns[m].read /\ turns'[m].alone = turns[m].alone
                      /\ turns'[m].waiting = FALSE
    OBVIOUS
  <2>1. turns[m] \in Turn /\ turns'[m] = [turns[m] EXCEPT !.waiting = FALSE]
    BY <1>1 DEF ConvTypeOK
  <2> QED
    BY <2>1 DEF Turn
<1>3. ConvTypeOK'
  <2>1. turns' \in [Messages -> Turn]
    BY <1>1, <1>2
  <2>2. browser' \in Browser /\ cache' \in Snapshot /\ load' \in Load
    BY <1>1 DEF ConvTypeOK, Browser, Snapshot, NoLoad, Load, Log, MaybeId
  <2>3. poll' \in Poll
    BY <1>1, ConversationAssumption DEF ConvTypeOK, Poll, PollIs
  <2>4. (calm /\ ~Busy) \in BOOLEAN
    OBVIOUS
  <2> QED
    BY <1>1, <2>1, <2>2, <2>3, <2>4 DEF ConvTypeOK
<1>4. NamesFit'
  <2>1. /\ browser'.conversation = cache.conversation /\ cache' = cache
        /\ load'.row = 0 /\ ~Loading'
    BY <1>1 DEF NoLoad, Loading
  <2> QED
    BY <1>1, <1>2, <2>1, NamesMove
<1>5. TurnsFit'
  <2>1. \A m \in Messages : OnRow(m)' = OnRow(m)
    BY <1>2 DEF OnRow
  <2>2. \A m \in Messages : turns'[m].at = "answered" /\ turns'[m].alone => Kept(m)'
    BY <1>1, <1>2 DEF TurnsFit, LoneTurnsAreKept, Kept
  <2>3. ASSUME NEW m \in Messages, NEW n \in Messages,
               OnRow(m)', OnRow(n)', turns'[m].row = turns'[n].row, turns'[m].alone
        PROVE  m = n
    BY <1>1, <1>2, <2>1, <2>3 DEF TurnsFit
  <2>4. ASSUME NEW m \in Messages, NEW n \in Messages,
               turns'[m].at = "answered", turns'[m].alone,
               turns'[n].at \in {"running", "appending"}, turns'[n].row = turns'[m].row
        PROVE  Holds(turns'[n].read, m)
    <3>1. Holds(turns[n].read, m)
      BY <1>1, <1>2, <2>4 DEF TurnsFit
    <3> QED
      BY <1>2, <3>1
  <2> QED
    BY <2>2, <2>3, <2>4 DEF TurnsFit, LoneTurnsAreKept
<1>6. CalmFits'
  <2>1. ASSUME NEW m \in Messages, InFlight(m)'
        PROVE  Busy
    BY <1>2, <2>1 DEF InFlight, OnServer, Busy
  <2>2. load'.clean = FALSE
    BY <1>1 DEF NoLoad
  <2>3. calm' => browser'.log = StoredLog(browser.conversation)'
                 /\ cache' = [conversation |-> browser'.conversation, log |-> browser'.log]
    <3> SUFFICES ASSUME calm'
                 PROVE  browser'.log = StoredLog(browser.conversation)'
                        /\ cache' = [conversation |-> browser'.conversation,
                                     log |-> browser'.log]
      OBVIOUS
    <3>1. /\ cache = [conversation |-> browser.conversation, log |-> browser.log]
          /\ browser.log = StoredLog(browser.conversation)
      BY <1>1 DEF CalmFits
    <3>2. browser'.conversation = browser.conversation /\ browser'.log = browser.log
      BY <1>1, <3>1
    <3> QED
      BY <1>1, <3>1, <3>2 DEF StoredLog
  <2> QED
    BY <1>1, <2>1, <2>2, <2>3 DEF CalmFits
<1>7. SpinnerHasACause'
  BY <1>1 DEF SpinnerHasACause
<1> QED
  BY <1>3, <1>4, <1>5, <1>6, <1>7 DEF ConvInv

\* The polling touches neither copy of the log.
LEMMA PollingKeeps ==
    ASSUME ConvInv, StartPolling \/ WebhookLands \/ Attempt
    PROVE  ConvInv'
<1>1. /\ ConvTypeOK /\ NamesFit /\ TurnsFit /\ CalmFits /\ SpinnerHasACause
      /\ rows' = rows /\ turns' = turns /\ browser' = browser /\ cache' = cache
      /\ load' = load /\ calm' = calm
  BY DEF ConvInv, StartPolling, WebhookLands, Attempt
<1>2. poll' \in Poll
  <2>1. CASE StartPolling
    BY <2>1, ConversationAssumption DEF StartPolling, PollIs, Poll
  <2>2. CASE WebhookLands
    BY <1>1, <2>2 DEF WebhookLands, ConvTypeOK, Poll
  <2>3. CASE Attempt
    <3>1. poll.attempt + 1 \in 0..MAX_ATTEMPTS
      BY <1>1, <2>3, ConversationAssumption DEF Attempt, ConvTypeOK, Poll
    <3>2. poll' = [poll EXCEPT !.attempt = poll.attempt + 1]
      BY <2>3 DEF Attempt
    <3> QED
      BY <1>1, <3>1, <3>2 DEF ConvTypeOK, Poll
  <2> QED
    BY <2>1, <2>2, <2>3
<1>3. ConvTypeOK' /\ NamesFit' /\ SpinnerHasACause'
  BY <1>1, <1>2 DEF ConvTypeOK, NamesFit, Named, SpinnerHasACause, OnRow, Loading
<1>4. CalmFits'
  <2>1. \A m \in Messages : FlightFits(m) => FlightFits(m)'
    BY <1>1 DEF FlightFits, OnRow, StoredLog
  <2> QED
    BY <1>1, <2>1, FlightsAlone DEF CalmFits, StoredLog, Loading
<1> QED
  BY <1>1, <1>3, <1>4, TurnsAlone DEF ConvInv

-----------------------------------------------------------------------------
(* Sending a message. *)

\* A message goes to the conversation that is open; in the calm it is the only one
\* under way.
LEMMA SendKeeps ==
    ASSUME ConvInv, NEW m \in Messages, Send(m), poll' \in Poll
    PROVE  ConvInv'
<1> DEFINE new == [NoTurn EXCEPT !.at = "sent", !.row = browser.conversation, !.waiting = TRUE]
<1>1. /\ ConvTypeOK /\ NamesFit /\ TurnsFit /\ CalmFits
      /\ turns[m].at = "none"
      /\ turns' = [turns EXCEPT ![m] = new]
      /\ browser' = [browser EXCEPT !.log = Append(browser.log, User(m)), !.isSending = TRUE]
      /\ load' = [load EXCEPT !.clean = FALSE]
      /\ calm' = (calm /\ ~Busy /\ ~Loading)
      /\ rows' = rows /\ cache' = cache
  BY DEF ConvInv, Send
<1>2. /\ browser'.conversation = browser.conversation
      /\ browser'.log = Append(browser.log, User(m))
      /\ load'.at = load.at /\ load'.row = load.row /\ load'.clean = FALSE
  BY <1>1 DEF ConvTypeOK, Browser, Load
<1>3. new \in Turn /\ new.at = "sent" /\ new.row = browser.conversation /\ new.read = <<>>
      /\ new.waiting = TRUE /\ new.alone = TRUE
  <2>1. browser.conversation \in MaybeId
    BY <1>1 DEF ConvTypeOK, Browser
  <2>2. <<>> \in Log
    BY DEF Log
  <2> QED
    BY <2>1, <2>2 DEF NoTurn, Turn, TurnPhase
<1>4. turns'[m] = new /\ \A n \in Messages : n # m => turns'[n] = turns[n]
  BY <1>1 DEF ConvTypeOK
<1> HIDE DEF new
<1>5. ConvTypeOK'
  <2>1. Append(browser.log, User(m)) \in Log
    BY <1>1, LogTypes DEF ConvTypeOK, Browser
  <2>2. (calm /\ ~Busy /\ ~Loading) \in BOOLEAN
    OBVIOUS
  <2> QED
    BY <1>1, <1>3, <2>1, <2>2 DEF ConvTypeOK, Browser, Load
<1>6. NamesFit'
  <2>1. ASSUME NEW c \in ConversationIds, Named(c)'
        PROVE  Named(c)
    BY <1>1, <1>2, <1>3, <1>4, <2>1 DEF Named
  <2>2. ASSUME NEW n \in Messages
        PROVE  /\ OnRow(n)' \/ turns'[n].at = "answered" => turns'[n].row # 0
               /\ turns'[n].at = "sent" => turns'[n].read = <<>> /\ turns'[n].alone
    <3>1. CASE n = m
      BY <1>3, <1>4, <3>1 DEF OnRow
    <3>2. CASE n # m
      BY <1>1, <1>4, <3>2 DEF NamesFit, OnRow
    <3> QED
      BY <3>1, <3>2
  <2> QED
    BY <1>1, <1>2, <2>1, <2>2 DEF NamesFit, Loading
<1>7. TurnsFit'
  <2>1. \A n \in Messages : (OnRow(n)' \/ turns'[n].at = "answered") => turns'[n] = turns[n]
    BY <1>3, <1>4 DEF OnRow
  <2>2. ASSUME NEW a \in Messages, NEW b \in Messages, OnRow(a)', OnRow(b)',
               turns'[a].row = turns'[b].row, turns'[a].alone
        PROVE  a = b
    BY <1>1, <2>1, <2>2 DEF TurnsFit, OnRow
  <2>3. ASSUME NEW a \in Messages, NEW b \in Messages,
               turns'[a].at = "answered", turns'[a].alone,
               turns'[b].at \in {"running", "appending"}, turns'[b].row = turns'[a].row
        PROVE  Holds(turns'[b].read, a)
    <3>1. turns'[a] = turns[a] /\ turns'[b] = turns[b]
      BY <2>1, <2>3 DEF OnRow
    <3> QED
      BY <1>1, <2>3, <3>1 DEF TurnsFit
  <2>4. ASSUME NEW a \in Messages, turns'[a].at = "answered", turns'[a].alone
        PROVE  Kept(a)'
    BY <1>1, <2>1, <2>4 DEF TurnsFit, LoneTurnsAreKept, Kept
  <2> QED
    BY <2>2, <2>3, <2>4 DEF TurnsFit, LoneTurnsAreKept
<1>8. CalmFits'
  <2>1. Busy'
    BY <1>3, <1>4 DEF Busy
  <2>2. ASSUME calm', NEW n \in Messages, InFlight(n)'
        PROVE  n = m
    BY <1>1, <1>4, <2>2 DEF InFlight, OnServer, Busy
  <2>3. ASSUME calm'
        PROVE  FlightFits(m)'
    <3>1. browser.log = StoredLog(browser.conversation)
      BY <1>1, <2>3 DEF CalmFits
    <3> QED
      BY ZenonT(60), <1>1, <1>2, <1>3, <1>4, <3>1 DEF FlightFits, OnRow, StoredLog
  <2> QED
    BY <1>2, <2>1, <2>2, <2>3 DEF CalmFits
<1>9. SpinnerHasACause'
  BY <1>3, <1>4 DEF SpinnerHasACause
<1> QED
  BY <1>5, <1>6, <1>7, <1>8, <1>9 DEF ConvInv

-----------------------------------------------------------------------------
(* Receiving an answer, or none. *)

\* A browser that no longer waits leaves the turn where it is.
LEMMA WaitingEnds ==
    ASSUME ConvTypeOK, NEW m \in Messages, turns' = [turns EXCEPT ![m].waiting = FALSE]
    PROVE  /\ turns' \in [Messages -> Turn] /\ turns'[m].waiting = FALSE
           /\ \A n \in Messages :
                 /\ turns'[n].at = turns[n].at /\ turns'[n].row = turns[n].row
                 /\ turns'[n].read = turns[n].read /\ turns'[n].alone = turns[n].alone
                 /\ n # m => turns'[n].waiting = turns[n].waiting
BY ZenonT(60) DEF ConvTypeOK, Turn

\* The turns on the server do not notice.
LEMMA TurnsUnnoticed ==
    ASSUME TurnsFit, rows' = rows,
           \A n \in Messages :
              /\ turns'[n].at = turns[n].at /\ turns'[n].row = turns[n].row
              /\ turns'[n].read = turns[n].read /\ turns'[n].alone = turns[n].alone
    PROVE  TurnsFit'
<1>1. \A m \in Messages : OnRow(m)' = OnRow(m)
  BY DEF OnRow
<1>2. \A m \in Messages : turns'[m].at = "answered" /\ turns'[m].alone => Kept(m)'
  BY DEF TurnsFit, LoneTurnsAreKept, Kept
<1>3. ASSUME NEW m \in Messages, NEW n \in Messages,
             OnRow(m)', OnRow(n)', turns'[m].row = turns'[n].row, turns'[m].alone
      PROVE  m = n
  BY <1>1, <1>3 DEF TurnsFit
<1>4. ASSUME NEW m \in Messages, NEW n \in Messages,
             turns'[m].at = "answered", turns'[m].alone,
             turns'[n].at \in {"running", "appending"}, turns'[n].row = turns'[m].row
      PROVE  Holds(turns'[n].read, m)
  <2>1. Holds(turns[n].read, m)
    BY <1>4 DEF TurnsFit
  <2> QED
    BY <2>1
<1> QED
  BY <1>2, <1>3, <1>4 DEF TurnsFit, LoneTurnsAreKept

\* An answer brings the browser's log, its conversation and the cache together.
LEMMA DeliverKeeps ==
    ASSUME ConvInv, NEW m \in Messages, Deliver(m)
    PROVE  ConvInv'
<1>1. /\ ConvTypeOK /\ NamesFit /\ TurnsFit /\ CalmFits
      /\ turns[m].at = "answered" /\ turns[m].waiting
      /\ browser' = [conversation |-> turns[m].row, log |-> Append(browser.log, Assistant(m)),
                     isSending |-> FALSE]
      /\ cache' = [conversation |-> browser'.conversation, log |-> browser'.log]
      /\ turns' = [turns EXCEPT ![m].waiting = FALSE]
      /\ rows' = rows /\ load' = load /\ poll' = poll /\ calm' = calm
  BY DEF ConvInv, Deliver
<1>2. /\ turns' \in [Messages -> Turn] /\ turns'[m].waiting = FALSE
      /\ \A n \in Messages :
            /\ turns'[n].at = turns[n].at /\ turns'[n].row = turns[n].row
            /\ turns'[n].read = turns[n].read /\ turns'[n].alone = turns[n].alone
            /\ n # m => turns'[n].waiting = turns[n].waiting
  BY <1>1, WaitingEnds
<1>3. /\ browser'.conversation = turns[m].row /\ browser'.isSending = FALSE
      /\ browser'.log = Append(browser.log, Assistant(m))
      /\ cache'.conversation = turns[m].row
  BY <1>1
<1>4. ConvTypeOK'
  <2>1. Append(browser.log, Assistant(m)) \in Log /\ turns[m].row \in MaybeId
    BY <1>1, LogTypes DEF ConvTypeOK, Browser, Turn
  <2> QED
    BY <1>1, <1>2, <2>1 DEF ConvTypeOK, Browser, Snapshot
<1>5. NamesFit'
  <2>1. ASSUME NEW c \in ConversationIds, Named(c)'
        PROVE  Named(c)
    BY <1>1, <1>2, <1>3, <2>1 DEF Named
  <2>2. \A n \in Messages : OnRow(n)' = OnRow(n)
    BY <1>2 DEF OnRow
  <2> QED
    BY <1>1, <1>2, <2>1, <2>2 DEF NamesFit, Loading
<1>6. TurnsFit'
  BY <1>1, <1>2, TurnsUnnoticed
<1>7. CalmFits'
  <2>1. Busy
    BY <1>1 DEF Busy
  <2>2. ASSUME calm
        PROVE  /\ \A n \in Messages : ~InFlight(n)'
               /\ browser'.log = StoredLog(browser.conversation)'
    <3>1. FlightFits(m) /\ \A n \in Messages : InFlight(n) => n = m
      BY <1>1, <2>2 DEF CalmFits, InFlight
    <3>2. ~InFlight(m)'
      BY <1>1, <1>2 DEF InFlight, OnServer
    <3>3. \A n \in Messages : n # m => ~InFlight(n)'
      BY <1>2, <3>1 DEF InFlight, OnServer
    <3>4. turns[m].row # 0 /\ rows[turns[m].row].log = Append(browser.log, Assistant(m))
      BY <1>1, <3>1 DEF NamesFit, FlightFits
    <3> QED
      BY <1>1, <1>3, <3>2, <3>3, <3>4 DEF StoredLog
  <2>3. load'.clean => FALSE
    BY <1>1, <2>1 DEF CalmFits
  <2> QED
    BY <1>1, <2>2, <2>3 DEF CalmFits
<1>8. SpinnerHasACause'
  BY <1>3 DEF SpinnerHasACause
<1> QED
  BY <1>4, <1>5, <1>6, <1>7, <1>8 DEF ConvInv

\* Without an answer the calm is over.
LEMMA FailKeeps ==
    ASSUME ConvInv, NEW m \in Messages, Fail(m)
    PROVE  ConvInv'
<1>1. /\ ConvTypeOK /\ NamesFit /\ TurnsFit /\ CalmFits
      /\ turns[m].waiting
      /\ turns' = [turns EXCEPT ![m].waiting = FALSE]
      /\ browser' = [browser EXCEPT !.isSending = FALSE] /\ calm' = FALSE
      /\ rows' = rows /\ cache' = cache /\ load' = load /\ poll' = poll
  BY DEF ConvInv, Fail
<1>2. /\ turns' \in [Messages -> Turn]
      /\ \A n \in Messages :
            /\ turns'[n].at = turns[n].at /\ turns'[n].row = turns[n].row
            /\ turns'[n].read = turns[n].read /\ turns'[n].alone = turns[n].alone
  BY ZenonT(60), <1>1, WaitingEnds
<1>3. browser'.conversation = browser.conversation /\ browser'.isSending = FALSE
  BY <1>1 DEF ConvTypeOK, Browser
<1>4. ConvTypeOK'
  BY <1>1, <1>2 DEF ConvTypeOK, Browser
<1>5. NamesFit'
  BY <1>1, <1>2, <1>3, NamesMove DEF NamesFit, Loading
<1>6. TurnsFit'
  BY <1>1, <1>2, TurnsUnnoticed
<1>7. CalmFits'
  <2>1. load.clean => FALSE
    BY <1>1 DEF CalmFits, Busy
  <2> QED
    BY <1>1, <2>1 DEF CalmFits
<1>8. SpinnerHasACause'
  BY <1>3 DEF SpinnerHasACause
<1> QED
  BY <1>4, <1>5, <1>6, <1>7, <1>8 DEF ConvInv

-----------------------------------------------------------------------------
(* The turns on the server. *)

\* A turn is kept when the stored log of its row holds it.
LEMMA KeptIsHeld ==
    ASSUME NEW m \in Messages
    PROVE  /\ Kept(m) <=> Holds(rows[turns[m].row].log, m)
           /\ Kept(m)' <=> Holds(rows'[turns'[m].row].log, m)
BY DEF Kept, Holds

\* A step of one turn on the server, of which the browser sees nothing, is in order
\* when what is under way there fits the two logs as before.
LEMMA ServerStepKeeps ==
    ASSUME ConvInv, UNCHANGED <<browser, cache, load, poll, calm>>,
           NEW m \in Messages, OnServer(m), turns'[m].waiting = turns[m].waiting,
           \A n \in Messages : n # m =>
              turns'[n].at = turns[n].at /\ turns'[n].waiting = turns[n].waiting,
           rows' \in [ConversationIds -> Row], turns' \in [Messages -> Turn],
           NamesFit', TurnsFit',
           FlightFits(m) => FlightFits(m)'
    PROVE  ConvInv'
<1>1. /\ ConvTypeOK /\ CalmFits /\ SpinnerHasACause
      /\ browser' = browser /\ cache' = cache /\ load' = load /\ poll' = poll /\ calm' = calm
  BY DEF ConvInv
<1>2. ConvTypeOK'
  BY <1>1 DEF ConvTypeOK
<1>3. SpinnerHasACause'
  BY <1>1 DEF SpinnerHasACause, Loading
<1>4. Busy /\ InFlight(m)
  BY DEF Busy, InFlight
<1>5. CalmFits'
  <2>1. ~load.clean
    BY <1>1, <1>4 DEF CalmFits
  <2>2. ASSUME calm
        PROVE  /\ Busy' /\ FlightFits(m)'
               /\ \A n \in Messages : InFlight(n)' => n = m
    <3>1. FlightFits(m) /\ \A n \in Messages : InFlight(n) => n = m
      BY SMTT(30), <1>1, <1>4, <2>2 DEF CalmFits
    <3>2. Busy'
      BY <3>1 DEF FlightFits, Busy
    <3>3. \A n \in Messages : n # m => ~InFlight(n)'
      BY <3>1 DEF InFlight, OnServer
    <3> QED
      BY <3>1, <3>2, <3>3
  <2>3. calm' => \A n \in Messages : InFlight(n)' => FlightFits(n)'
    <3> SUFFICES ASSUME calm', NEW n \in Messages, InFlight(n)'
                 PROVE  FlightFits(n)'
      OBVIOUS
    <3>1. n = m /\ FlightFits(m)'
      BY <1>1, <2>2
    <3> QED
      BY <3>1
  <2> QED
    BY <1>1, <2>1, <2>2, <2>3 DEF CalmFits
<1> QED
  BY <1>2, <1>3, <1>5 DEF ConvInv

\* A turn begins on a stored row, and reads its log.  Whoever else runs there is not
\* alone any more, and neither is it.
LEMMA BeginKeeps ==
    ASSUME ConvInv, NEW m \in Messages, Begin(m)
    PROVE  ConvInv'
<1> DEFINE c == turns[m].row
           others == RunningOn(c)
<1>1. /\ ConvTypeOK /\ NamesFit /\ TurnsFit
      /\ turns[m].at = "sent" /\ c # 0
      /\ UNCHANGED <<browser, cache, load, poll, calm>>
      /\ rows' = rows /\ browser' = browser /\ cache' = cache /\ load' = load
  BY ZenonT(60) DEF ConvInv, Begin
<1>0. turns' = [n \in Messages |->
                  IF n = m THEN [turns[m] EXCEPT !.at = "running", !.read = rows[c].log,
                                                 !.alone = (others = {})]
                  ELSE IF n \in others THEN [turns[n] EXCEPT !.alone = FALSE] ELSE turns[n]]
  BY DEF Begin
<1>2. c \in ConversationIds /\ rows[c].log \in Log
  BY <1>1 DEF ConvTypeOK, Turn, MaybeId, Row
<1>3. /\ turns'[m] \in Turn /\ turns'[m].at = "running" /\ turns'[m].row = c
      /\ turns'[m].read = rows[c].log /\ turns'[m].waiting = turns[m].waiting
      /\ turns'[m].alone = (others = {})
  <2>1. turns[m] \in Turn /\ (others = {}) \in BOOLEAN
    BY <1>1 DEF ConvTypeOK
  <2>2. turns'[m] = [turns[m] EXCEPT !.at = "running", !.read = rows[c].log,
                                     !.alone = (others = {})]
    BY <1>0
  <2> HIDE DEF others, c
  <2> QED
    BY <1>2, <2>1, <2>2 DEF Turn, TurnPhase, c
<1>4. ASSUME NEW n \in Messages, n # m
      PROVE  /\ turns'[n] \in Turn
             /\ turns'[n].at = turns[n].at /\ turns'[n].row = turns[n].row
             /\ turns'[n].read = turns[n].read /\ turns'[n].waiting = turns[n].waiting
             /\ turns'[n].alone => turns[n].alone /\ n \notin others
             /\ n \notin others => turns'[n] = turns[n]
  <2>1. turns[n] \in Turn
    BY <1>1 DEF ConvTypeOK
  <2>2. turns'[n] = IF n \in others THEN [turns[n] EXCEPT !.alone = FALSE] ELSE turns[n]
    BY <1>0, <1>4
  <2> HIDE DEF others
  <2> QED
    BY <2>1, <2>2 DEF Turn
<1>5. \A n \in Messages : n \in others <=> OnRow(n) /\ turns[n].row = c
  BY SMTT(30) DEF RunningOn, OnRow
<1> HIDE DEF others, c
<1>6. turns' \in [Messages -> Turn]
  BY <1>0, <1>3, <1>4
<1>7. NamesFit'
  <2>1. ASSUME NEW d \in ConversationIds, Named(d)'
        PROVE  Named(d)
    BY <1>1, <1>3, <1>4, <2>1 DEF Named, c
  <2>2. ASSUME NEW n \in Messages
        PROVE  /\ OnRow(n)' \/ turns'[n].at = "answered" => turns'[n].row # 0
               /\ turns'[n].at = "sent" => turns'[n].read = <<>> /\ turns'[n].alone
    <3>1. CASE n = m
      BY <1>1, <1>3, <3>1
    <3>2. CASE n # m
      <4>1. turns[n].at = "sent" => n \notin others
        BY <1>5 DEF OnRow
      <4> QED
        BY <1>1, <1>4, <3>2, <4>1 DEF NamesFit, OnRow
    <3> QED
      BY <3>1, <3>2
  <2> QED
    BY <1>1, <2>1, <2>2 DEF NamesFit, Loading
<1>8. TurnsFit'
  <2>1. ASSUME NEW a \in Messages, NEW b \in Messages, OnRow(a)', OnRow(b)',
               turns'[a].row = turns'[b].row, turns'[a].alone
        PROVE  a = b
    <3>1. CASE a = m /\ b # m
      <4>1. b \in others
        BY <1>3, <1>4, <1>5, <2>1, <3>1 DEF OnRow
      <4>2. turns'[m].alone = (others = {}) /\ turns'[m].alone
        BY <1>3, <2>1, <3>1
      <4>3. others = {}
        BY <4>2, Zenon
      <4> QED
        BY <4>1, <4>3
    <3>2. CASE a # m /\ b = m
      <4>1. a \in others
        BY <1>3, <1>4, <1>5, <2>1, <3>2 DEF OnRow
      <4> QED
        BY <1>4, <2>1, <3>2, <4>1
    <3>3. CASE a # m /\ b # m
      BY <1>1, <1>4, <2>1, <3>3 DEF TurnsFit, OnRow
    <3> QED
      BY <3>1, <3>2, <3>3
  <2>2. ASSUME NEW a \in Messages, turns'[a].at = "answered", turns'[a].alone
        PROVE  /\ a # m /\ turns[a].at = "answered" /\ turns[a].alone
               /\ turns'[a].row = turns[a].row
               /\ Holds(rows[turns[a].row].log, a)
    <3>1. a # m
      BY <1>3, <2>2
    <3>2. turns[a].at = "answered" /\ turns[a].alone /\ turns'[a].row = turns[a].row
      BY <1>4, <2>2, <3>1
    <3> QED
      BY <1>1, <3>1, <3>2, KeptIsHeld DEF TurnsFit, LoneTurnsAreKept
  <2>3. ASSUME NEW a \in Messages, NEW b \in Messages,
               turns'[a].at = "answered", turns'[a].alone,
               turns'[b].at \in {"running", "appending"}, turns'[b].row = turns'[a].row
        PROVE  Holds(turns'[b].read, a)
    <3>1. CASE b = m
      BY <1>3, <2>2, <2>3, <3>1
    <3>2. CASE b # m
      <4>1. Holds(turns[b].read, a)
        BY <1>1, <1>4, <2>2, <2>3, <3>2 DEF TurnsFit
      <4> QED
        BY <1>4, <3>2, <4>1
    <3> QED
      BY <3>1, <3>2
  <2>4. ASSUME NEW a \in Messages, turns'[a].at = "answered", turns'[a].alone
        PROVE  Kept(a)'
    BY <1>1, <2>2, <2>4, KeptIsHeld
  <2> QED
    BY <2>1, <2>3, <2>4 DEF TurnsFit, LoneTurnsAreKept
<1>9. FlightFits(m) => FlightFits(m)'
  BY ZenonT(60), <1>1, <1>3 DEF FlightFits, StoredLog, OnRow, c
<1>10. OnServer(m) /\ rows' \in [ConversationIds -> Row]
  BY <1>1 DEF OnServer, ConvTypeOK
<1> QED
  BY SMTT(30), <1>1, <1>3, <1>4, <1>6, <1>7, <1>8, <1>9, <1>10, ServerStepKeeps

\* What a turn's own step on the server leaves of the turns: it moves on, on a row of
\* its own or the one it had, the others stay where they are.
TurnBecomes(m, new) == turns' = [turns EXCEPT ![m] = new]

\* A turn that steps alone.
LEMMA TurnStepFacts ==
    ASSUME ConvTypeOK, NEW m \in Messages, NEW new \in Turn, TurnBecomes(m, new)
    PROVE  /\ turns' \in [Messages -> Turn]
           /\ turns'[m] = new
           /\ \A n \in Messages : n # m => turns'[n] = turns[n]
BY DEF ConvTypeOK, TurnBecomes

\* The turns that ran alone on the row are kept by a turn that reads its log, and by
\* those that have read it before.
LEMMA TurnsFitAfter ==
    ASSUME TurnsFit, NEW m \in Messages,
           \A n \in Messages : n # m => turns'[n] = turns[n],
           \A c \in ConversationIds, n \in Messages :
              n # m /\ turns[n].at = "answered" /\ turns[n].alone /\ turns[n].row = c
              /\ Holds(rows[c].log, n) => Holds(rows'[c].log, n),
           \A n \in Messages : turns[n].at = "answered" => turns[n].row \in ConversationIds,
           \A n \in Messages : n # m /\ OnRow(n) /\ OnRow(m)' /\ turns[n].row = turns'[m].row =>
              ~turns[n].alone /\ ~turns'[m].alone,
           \A n \in Messages :
              /\ n # m /\ turns[n].at = "answered" /\ turns[n].alone
              /\ turns'[m].at \in {"running", "appending"} /\ turns[n].row = turns'[m].row
              => Holds(turns'[m].read, n),
           turns'[m].at = "answered" /\ turns'[m].alone =>
              /\ Holds(rows'[turns'[m].row].log, m)
              /\ \A n \in Messages :
                    n # m => ~ (turns[n].at \in {"running", "appending"}
                                /\ turns[n].row = turns'[m].row)
    PROVE  TurnsFit'
<1>1. ASSUME NEW a \in Messages, NEW b \in Messages, OnRow(a)', OnRow(b)',
             turns'[a].row = turns'[b].row, turns'[a].alone
      PROVE  a = b
  <2>1. CASE a # m /\ b # m
    BY <1>1, <2>1 DEF TurnsFit, OnRow
  <2>2. CASE a = m /\ b # m
    BY <1>1, <2>2 DEF OnRow
  <2>3. CASE a # m /\ b = m
    BY <1>1, <2>3 DEF OnRow
  <2> QED
    BY <2>1, <2>2, <2>3
<1>2. ASSUME NEW a \in Messages, NEW b \in Messages,
             turns'[a].at = "answered", turns'[a].alone,
             turns'[b].at \in {"running", "appending"}, turns'[b].row = turns'[a].row
      PROVE  Holds(turns'[b].read, a)
  <2>1. CASE a # m /\ b # m
    <3>1. turns'[a] = turns[a] /\ turns'[b] = turns[b]
      BY <2>1
    <3> QED
      BY <1>2, <3>1 DEF TurnsFit
  <2>2. CASE a # m /\ b = m
    BY <1>2, <2>2
  <2>3. CASE a = m
    BY <1>2, <2>3
  <2> QED
    BY <2>1, <2>2, <2>3
<1>3. ASSUME NEW a \in Messages, turns'[a].at = "answered", turns'[a].alone
      PROVE  Kept(a)'
  <2>1. CASE a = m
    BY <1>3, <2>1, KeptIsHeld
  <2>2. CASE a # m
    <3>1. turns'[a] = turns[a] /\ Holds(rows[turns[a].row].log, a)
      BY <1>3, <2>2, KeptIsHeld DEF TurnsFit, LoneTurnsAreKept
    <3> QED
      BY <1>3, <2>2, <3>1, KeptIsHeld
  <2> QED
    BY <2>1, <2>2
<1> QED
  BY <1>1, <1>2, <1>3 DEF TurnsFit, LoneTurnsAreKept

\* What is named stays named by rows that were inserted, while one turn moves on.
LEMMA NamesFitAfter ==
    ASSUME NamesFit, NEW m \in Messages, UNCHANGED <<browser, cache, load>>,
           \A n \in Messages : n # m => turns'[n] = turns[n],
           \A c \in ConversationIds :
              /\ rows[c].status # "none" => rows'[c].status # "none"
              /\ rows'[c].status = "none" => rows'[c] = rows[c],
           turns'[m].row \in {0, turns[m].row}
              \/ (turns'[m].row \in ConversationIds /\ rows'[turns'[m].row].status # "none"),
           turns'[m].at # "sent",
           OnRow(m)' \/ turns'[m].at = "answered" => turns'[m].row # 0
    PROVE  NamesFit'
<1>1. ASSUME NEW c \in ConversationIds, Named(c)'
      PROVE  rows'[c].status # "none"
  <2>1. c # 0
    BY DEF ConversationIds
  <2>2. Named(c) \/ c = turns'[m].row
    BY <1>1 DEF Named
  <2>3. turns[m].row = c => Named(c)
    BY DEF Named
  <2>4. Named(c) => rows'[c].status # "none"
    BY DEF NamesFit
  <2> QED
    BY <2>1, <2>2, <2>3, <2>4
<1>2. \A c \in ConversationIds : rows'[c].status = "none" => rows'[c].log = <<>>
  BY DEF NamesFit
<1>3. ASSUME NEW n \in Messages
      PROVE  /\ OnRow(n)' \/ turns'[n].at = "answered" => turns'[n].row # 0
             /\ turns'[n].at = "sent" => turns'[n].read = <<>> /\ turns'[n].alone
  <2>1. CASE n = m
    BY <2>1
  <2>2. CASE n # m
    BY <2>2 DEF NamesFit, OnRow
  <2> QED
    BY <2>1, <2>2
<1> QED
  BY <1>1, <1>2, <1>3 DEF NamesFit, Loading

\* The rows and turns a step on the server starts from.
LEMMA ServerTypes ==
    ASSUME ConvInv, NEW m \in Messages
    PROVE  /\ ConvTypeOK /\ NamesFit /\ TurnsFit
           /\ turns[m] \in Turn /\ turns[m].read \in Log /\ turns[m].row \in MaybeId
           /\ OnRow(m) \/ turns[m].at = "answered" => turns[m].row \in ConversationIds
           /\ \A c \in ConversationIds :
                 rows[c] \in Row /\ rows[c].log \in Log
                 /\ rows[c].status \in {"none", "flushed", "stored", "absent"}
BY DEF ConvInv, ConvTypeOK, NamesFit, Turn, MaybeId, Row

\* A turn begins on a row of its own.
LEMMA BeginNewKeeps ==
    ASSUME ConvInv, NEW m \in Messages, NEW c \in ConversationIds, BeginNew(m, c)
    PROVE  ConvInv'
<1> DEFINE new == [turns[m] EXCEPT !.at = "running", !.row = c]
<1>1. /\ ConvTypeOK /\ NamesFit /\ TurnsFit
      /\ turns[m].at = "sent" /\ turns[m].row = 0
      /\ rows[c].status = "none"
      /\ rows' = [rows EXCEPT ![c].status = "flushed"]
      /\ UNCHANGED <<browser, cache, load, poll, calm>>
      /\ browser' = browser /\ cache' = cache /\ load' = load
  BY DEF ConvInv, BeginNew
<1>2. TurnBecomes(m, new)
  BY DEF BeginNew, TurnBecomes, ConvInv, ConvTypeOK
<1>3. /\ new \in Turn /\ new.at = "running" /\ new.row = c /\ new.read = turns[m].read
      /\ new.waiting = turns[m].waiting /\ new.alone = turns[m].alone
  BY ServerTypes DEF Turn, TurnPhase, MaybeId
<1> HIDE DEF new
<1>4. /\ turns' \in [Messages -> Turn] /\ turns'[m] = new
      /\ \A n \in Messages : n # m => turns'[n] = turns[n]
  BY <1>1, <1>2, <1>3, TurnStepFacts
<1>5. /\ rows' \in [ConversationIds -> Row] /\ rows'[c].status = "flushed"
      /\ \A d \in ConversationIds : rows'[d].log = rows[d].log
      /\ \A d \in ConversationIds : d # c => rows'[d] = rows[d]
  BY <1>1 DEF ConvTypeOK, Row
<1>6. \A n \in Messages : turns[n].row # c
  BY <1>1 DEF NamesFit, Named
<1>7. NamesFit'
  <2>1. \A d \in ConversationIds :
           /\ rows[d].status # "none" => rows'[d].status # "none"
           /\ rows'[d].status = "none" => rows'[d] = rows[d]
    BY <1>5
  <2>2. turns'[m].row \in ConversationIds /\ rows'[turns'[m].row].status # "none"
        /\ turns'[m].at # "sent" /\ turns'[m].row # 0
    BY <1>3, <1>4, <1>5 DEF ConversationIds
  <2> QED
    BY <1>1, <1>4, <2>1, <2>2, NamesFitAfter
<1>8. TurnsFit'
  <2>1. \A n \in Messages : turns[n].at = "answered" => turns[n].row \in ConversationIds
    BY ServerTypes
  <2> QED
    BY <1>1, <1>3, <1>4, <1>5, <1>6, <2>1, TurnsFitAfter
<1>9. FlightFits(m) => FlightFits(m)'
  <2>1. turns[m].read = <<>> /\ rows'[c].log = <<>>
    BY <1>1, <1>5 DEF NamesFit
  <2> QED
    BY ZenonT(60), <1>1, <1>3, <1>4, <2>1 DEF FlightFits, StoredLog, OnRow
<1>10. OnServer(m)
  BY <1>1 DEF OnServer
<1> QED
  BY <1>1, <1>3, <1>4, <1>5, <1>7, <1>8, <1>9, <1>10, ServerStepKeeps

\* A tool commits the turn's session.
LEMMA ToolsCommitKeeps ==
    ASSUME ConvInv, NEW m \in Messages, ToolsCommit(m)
    PROVE  ConvInv'
<1> DEFINE c == turns[m].row
           new == [turns[m] EXCEPT !.at = "expired", !.read = <<>>]
<1>1. /\ ConvTypeOK /\ NamesFit /\ TurnsFit
      /\ turns[m].at = "running"
      /\ rows' = [rows EXCEPT ![c].status = "stored"]
      /\ UNCHANGED <<browser, cache, load, poll, calm>>
      /\ browser' = browser /\ cache' = cache /\ load' = load
  BY DEF ConvInv, ToolsCommit
<1>2. TurnBecomes(m, new) /\ c \in ConversationIds
  BY <1>1, ServerTypes DEF ToolsCommit, TurnBecomes, OnRow, ConvTypeOK
<1>3. /\ new \in Turn /\ new.at = "expired" /\ new.row = c
      /\ new.waiting = turns[m].waiting /\ new.alone = turns[m].alone
  <2>1. <<>> \in Log
    BY DEF Log
  <2> QED
    BY <2>1, ServerTypes DEF Turn, TurnPhase
<1> HIDE DEF new
<1>4. /\ turns' \in [Messages -> Turn] /\ turns'[m] = new
      /\ \A n \in Messages : n # m => turns'[n] = turns[n]
  BY <1>1, <1>2, <1>3, TurnStepFacts
<1>5. /\ rows' \in [ConversationIds -> Row]
      /\ \A d \in ConversationIds : rows'[d].log = rows[d].log
      /\ rows'[c].status = "stored"
      /\ \A d \in ConversationIds : d # c => rows'[d] = rows[d]
  BY <1>1, <1>2 DEF ConvTypeOK, Row
<1>6. NamesFit'
  <2>1. \A d \in ConversationIds :
           /\ rows[d].status # "none" => rows'[d].status # "none"
           /\ rows'[d].status = "none" => rows'[d] = rows[d]
    BY <1>5
  <2>2. turns'[m].row = turns[m].row /\ turns'[m].at # "sent" /\ turns'[m].row # 0
    BY <1>2, <1>3, <1>4 DEF ConversationIds
  <2> QED
    BY <1>1, <1>4, <2>1, <2>2, NamesFitAfter
<1>7. TurnsFit'
  <2>1. \A n \in Messages : turns[n].at = "answered" => turns[n].row \in ConversationIds
    BY ServerTypes
  <2>2. \A n \in Messages : n # m /\ OnRow(n) /\ turns[n].row = c =>
           ~turns[n].alone /\ ~turns[m].alone
    BY SMTT(30), <1>1 DEF TurnsFit, OnRow
  <2> QED
    BY <1>1, <1>3, <1>4, <1>5, <2>1, <2>2, TurnsFitAfter
<1>8. FlightFits(m) => FlightFits(m)'
  BY ZenonT(60), <1>1, <1>2, <1>3, <1>4, <1>5 DEF FlightFits, OnRow
<1>9. OnServer(m)
  BY <1>1 DEF OnServer
<1> QED
  BY <1>1, <1>3, <1>4, <1>5, <1>6, <1>7, <1>8, <1>9, ServerStepKeeps

\* append_turn reads the row again after a tool has committed.
LEMMA ReadAgainKeeps ==
    ASSUME ConvInv, NEW m \in Messages, ReadAgain(m)
    PROVE  ConvInv'
<1> DEFINE c == turns[m].row
           new == [turns[m] EXCEPT !.at = "appending", !.read = rows[c].log]
<1>1. /\ ConvTypeOK /\ NamesFit /\ TurnsFit
      /\ turns[m].at = "expired"
      /\ UNCHANGED <<browser, cache, load, poll, calm>>
      /\ rows' = rows /\ browser' = browser /\ cache' = cache /\ load' = load
  BY DEF ConvInv, ReadAgain
<1>2. TurnBecomes(m, new) /\ c \in ConversationIds /\ rows[c].log \in Log
  BY <1>1, ServerTypes DEF ReadAgain, TurnBecomes, OnRow
<1>3. /\ new \in Turn /\ new.at = "appending" /\ new.row = c /\ new.read = rows[c].log
      /\ new.waiting = turns[m].waiting /\ new.alone = turns[m].alone
  BY <1>2, ServerTypes DEF Turn, TurnPhase
<1> HIDE DEF new
<1>4. /\ turns' \in [Messages -> Turn] /\ turns'[m] = new
      /\ \A n \in Messages : n # m => turns'[n] = turns[n]
  BY <1>1, <1>2, <1>3, TurnStepFacts
<1>5. NamesFit'
  <2>1. turns'[m].row = turns[m].row /\ turns'[m].at # "sent" /\ turns'[m].row # 0
    BY <1>2, <1>3, <1>4 DEF ConversationIds
  <2> QED
    BY <1>1, <1>4, <2>1, NamesFitAfter
<1>6. TurnsFit'
  <2>1. \A n \in Messages : turns[n].at = "answered" => turns[n].row \in ConversationIds
    BY ServerTypes
  <2>2. \A n \in Messages : n # m /\ OnRow(n) /\ turns[n].row = c =>
           ~turns[n].alone /\ ~turns[m].alone
    BY <1>1 DEF TurnsFit, OnRow
  <2>3. \A n \in Messages : turns[n].at = "answered" /\ turns[n].alone /\ turns[n].row = c =>
           Holds(rows[c].log, n)
    BY <1>1, KeptIsHeld DEF TurnsFit, LoneTurnsAreKept
  <2> QED
    BY <1>1, <1>3, <1>4, <2>1, <2>2, <2>3, TurnsFitAfter
<1>7. FlightFits(m) => FlightFits(m)'
  BY <1>1, <1>2, <1>3, <1>4 DEF FlightFits, OnRow
<1>8. OnServer(m) /\ rows' \in [ConversationIds -> Row]
  BY <1>1 DEF OnServer, ConvTypeOK
<1> QED
  BY <1>1, <1>3, <1>4, <1>5, <1>6, <1>7, <1>8, ServerStepKeeps

\* append_turn overwrites the log: what it has read holds every turn that ran alone.
LEMMA AppendTurnKeeps ==
    ASSUME ConvInv, NEW m \in Messages, AppendTurn(m)
    PROVE  ConvInv'
<1> DEFINE c == turns[m].row
           new == [turns[m] EXCEPT !.at = "answered", !.read = <<>>]
           log == turns[m].read \o <<User(m), Assistant(m)>>
<1>1. /\ ConvTypeOK /\ NamesFit /\ TurnsFit
      /\ turns[m].at \in {"running", "appending"}
      /\ rows' = [rows EXCEPT ![c] = [status |-> "stored", log |-> log]]
      /\ UNCHANGED <<browser, cache, load, poll, calm>>
      /\ browser' = browser /\ cache' = cache /\ load' = load
  BY DEF ConvInv, AppendTurn
<1>2. TurnBecomes(m, new) /\ c \in ConversationIds /\ turns[m].read \in Log
  BY <1>1, ServerTypes DEF AppendTurn, TurnBecomes, OnRow
<1>3. /\ new \in Turn /\ new.at = "answered" /\ new.row = c
      /\ new.waiting = turns[m].waiting /\ new.alone = turns[m].alone
  <2>1. <<>> \in Log
    BY DEF Log
  <2> QED
    BY <2>1, ServerTypes DEF Turn, TurnPhase
<1>4. /\ log \in Log /\ log = Append(Append(turns[m].read, User(m)), Assistant(m))
      /\ Holds(log, m)
      /\ \A n \in Messages : Holds(turns[m].read, n) => Holds(log, n)
  BY <1>2, TurnAppended
<1> HIDE DEF new, log
<1>5. /\ turns' \in [Messages -> Turn] /\ turns'[m] = new
      /\ \A n \in Messages : n # m => turns'[n] = turns[n]
  BY <1>1, <1>2, <1>3, TurnStepFacts
<1>6. /\ rows' \in [ConversationIds -> Row]
      /\ rows'[c].log = log /\ rows'[c].status = "stored"
      /\ \A d \in ConversationIds : d # c => rows'[d] = rows[d]
  BY <1>1, <1>2, <1>4 DEF ConvTypeOK, Row
<1>7. NamesFit'
  <2>1. \A d \in ConversationIds :
           /\ rows[d].status # "none" => rows'[d].status # "none"
           /\ rows'[d].status = "none" => rows'[d] = rows[d]
    BY <1>6
  <2>2. turns'[m].row = turns[m].row /\ turns'[m].at # "sent" /\ turns'[m].row # 0
    BY SMTT(30), <1>2, <1>3, <1>5 DEF ConversationIds
  <2> QED
    BY <1>1, <1>5, <2>1, <2>2, NamesFitAfter
<1>8. TurnsFit'
  <2>1. \A n \in Messages : turns[n].at = "answered" => turns[n].row \in ConversationIds
    BY ServerTypes
  <2>2. \A n \in Messages : n # m /\ OnRow(n) /\ turns[n].row = c => ~turns[m].alone
    BY <1>1 DEF TurnsFit, OnRow
  <2>3. \A n \in Messages : turns[n].at = "answered" /\ turns[n].alone /\ turns[n].row = c =>
           Holds(log, n)
    BY <1>1, <1>4 DEF TurnsFit
  <2>4. \A d \in ConversationIds, n \in Messages :
           n # m /\ turns[n].at = "answered" /\ turns[n].alone /\ turns[n].row = d
           /\ Holds(rows[d].log, n) => Holds(rows'[d].log, n)
    BY <1>6, <2>3
  <2>5. ~OnRow(m)'
    BY SMTT(30), <1>3, <1>5 DEF OnRow
  <2> QED
    BY <1>1, <1>3, <1>4, <1>5, <1>6, <2>1, <2>2, <2>4, <2>5, TurnsFitAfter DEF OnRow
<1>9. FlightFits(m) => FlightFits(m)'
  <2> SUFFICES ASSUME FlightFits(m)
               PROVE  FlightFits(m)'
    OBVIOUS
  <2>1. browser.log = Append(turns[m].read, User(m)) /\ turns[m].waiting
    BY <1>1 DEF FlightFits, OnRow
  <2>2. rows'[c].log = Append(browser.log, Assistant(m))
    BY <1>4, <1>6, <2>1
  <2> QED
    BY <1>1, <1>3, <1>5, <2>1, <2>2 DEF FlightFits, OnRow
<1>10. OnServer(m)
  BY <1>1 DEF OnServer
<1> QED
  BY <1>1, <1>3, <1>5, <1>6, <1>7, <1>8, <1>9, <1>10, ServerStepKeeps

\* A turn dies, and a row that was only flushed goes with it.
LEMMA TurnDiesKeeps ==
    ASSUME ConvInv, NEW m \in Messages, TurnDies(m)
    PROVE  ConvInv'
<1> DEFINE new == [NoTurn EXCEPT !.at = "dead", !.waiting = turns[m].waiting]
<1>1. /\ ConvTypeOK /\ NamesFit /\ TurnsFit /\ OnServer(m)
      /\ rows' = [c \in ConversationIds |->
                    IF c = turns[m].row /\ rows[c].status = "flushed"
                    THEN [rows[c] EXCEPT !.status = "absent"] ELSE rows[c]]
      /\ UNCHANGED <<browser, cache, load, poll, calm>>
      /\ browser' = browser /\ cache' = cache /\ load' = load
  BY DEF ConvInv, TurnDies
<1>2. TurnBecomes(m, new)
  BY DEF TurnDies, TurnBecomes
<1>3. new \in Turn /\ new.at = "dead" /\ new.row = 0 /\ new.waiting = turns[m].waiting
  <2>1. <<>> \in Log /\ turns[m].waiting \in BOOLEAN
    BY ServerTypes DEF Log, Turn
  <2> QED
    BY <2>1 DEF NoTurn, Turn, TurnPhase, MaybeId
<1> HIDE DEF new
<1>4. /\ turns' \in [Messages -> Turn] /\ turns'[m] = new
      /\ \A n \in Messages : n # m => turns'[n] = turns[n]
  BY <1>1, <1>2, <1>3, TurnStepFacts
<1>5. \A c \in ConversationIds :
         /\ rows'[c] \in Row /\ rows'[c].log = rows[c].log
         /\ rows'[c] = rows[c] \/ (rows[c].status = "flushed" /\ rows'[c].status = "absent")
  <2> SUFFICES ASSUME NEW c \in ConversationIds
               PROVE  /\ rows'[c] \in Row /\ rows'[c].log = rows[c].log
                      /\ \/ rows'[c] = rows[c]
                         \/ rows[c].status = "flushed" /\ rows'[c].status = "absent"
    OBVIOUS
  <2>1. rows[c] \in Row
    BY <1>1 DEF ConvTypeOK
  <2>2. \/ rows'[c] = rows[c]
        \/ rows[c].status = "flushed" /\ rows'[c] = [rows[c] EXCEPT !.status = "absent"]
    BY <1>1
  <2> QED
    BY <2>1, <2>2 DEF Row
<1>6. rows' \in [ConversationIds -> Row]
  BY <1>1, <1>5
<1>7. NamesFit'
  <2>1. \A d \in ConversationIds :
           /\ rows[d].status # "none" => rows'[d].status # "none"
           /\ rows'[d].status = "none" => rows'[d] = rows[d]
    BY <1>5
  <2>2. turns'[m].row = 0 /\ turns'[m].at # "sent" /\ ~OnRow(m)' /\ turns'[m].at # "answered"
    BY <1>3, <1>4 DEF OnRow
  <2> QED
    BY <1>1, <1>4, <2>1, <2>2, NamesFitAfter
<1>8. TurnsFit'
  <2>1. \A n \in Messages : turns[n].at = "answered" => turns[n].row \in ConversationIds
    BY ServerTypes
  <2>2. ~OnRow(m)' /\ turns'[m].at = "dead"
    BY SMTT(30), <1>3, <1>4 DEF OnRow
  <2> QED
    BY <1>1, <1>4, <1>5, <2>1, <2>2, TurnsFitAfter
<1>9. FlightFits(m) => FlightFits(m)'
  BY <1>1, <1>3, <1>4 DEF FlightFits, OnRow
<1> QED
  BY <1>1, <1>3, <1>4, <1>6, <1>7, <1>8, <1>9, ServerStepKeeps

-----------------------------------------------------------------------------
(* The theorems. *)

\* Before the first message there is nothing.
LEMMA ConvInitially ==
    ASSUME ConvInit
    PROVE  ConvInv
<1>1. <<>> \in Log
  BY DEF Log
<1>2. ConvTypeOK
  <2>1. rows \in [ConversationIds -> Row] /\ browser \in Browser /\ cache \in Snapshot
    BY <1>1 DEF ConvInit, Row, Browser, Snapshot, Empty, MaybeId
  <2>2. turns \in [Messages -> Turn] /\ load \in Load
    BY <1>1 DEF ConvInit, Turn, TurnPhase, NoTurn, Load, NoLoad, MaybeId
  <2>3. poll \in Poll /\ calm \in BOOLEAN
    BY ConversationAssumption DEF ConvInit, Poll, PollIs
  <2> QED
    BY <2>1, <2>2, <2>3 DEF ConvTypeOK
<1>3. \A m \in Messages : turns[m] = NoTurn
  BY DEF ConvInit
<1>4. NamesFit
  <2>1. browser.conversation = 0 /\ cache.conversation = 0 /\ load.row = 0 /\ ~Loading
    BY DEF ConvInit, Empty, NoLoad, Loading
  <2>2. \A c \in ConversationIds : c # 0 /\ rows[c].log = <<>>
    BY DEF ConvInit, ConversationIds
  <2>3. \A m \in Messages : turns[m].row = 0 /\ turns[m].at = "none"
    BY <1>3 DEF NoTurn
  <2> QED
    BY <2>1, <2>2, <2>3 DEF NamesFit, Named, OnRow
<1>5. TurnsFit
  BY <1>3 DEF TurnsFit, LoneTurnsAreKept, OnRow, NoTurn
<1>6. CalmFits
  <2>1. \A m \in Messages : ~InFlight(m)
    BY <1>3 DEF InFlight, OnServer, NoTurn
  <2> QED
    BY <2>1 DEF ConvInit, CalmFits, StoredLog, Empty, NoLoad
<1>7. SpinnerHasACause
  BY DEF ConvInit, SpinnerHasACause
<1> QED
  BY <1>2, <1>4, <1>5, <1>6, <1>7 DEF ConvInv

\* Every step keeps the invariant.
LEMMA ConvStep ==
    ASSUME ConvInv, [ConvNext]_convvars
    PROVE  ConvInv'
<1>1. CASE \E m \in Messages : Type(m) \/ Click(m)
  <2>1. PICK m \in Messages : Send(m) /\ poll' = poll
    BY <1>1 DEF Type, Click
  <2> QED
    BY <2>1, SendKeeps DEF ConvInv, ConvTypeOK
<1>2. CASE Narrate
  <2>1. Narration \in Messages /\ poll' \in Poll
    BY <1>2, ConversationAssumption DEF Narrate, Narration, Messages, PollIs, Poll
  <2> QED
    BY <1>2, <2>1, SendKeeps DEF Narrate
<1>3. CASE \E m \in Messages : Serve(m) \/ Receive(m)
  BY <1>3, BeginKeeps, BeginNewKeeps, ToolsCommitKeeps, ReadAgainKeeps, AppendTurnKeeps,
     TurnDiesKeeps, DeliverKeeps, FailKeeps
  DEF Serve, Receive
<1>4. CASE \/ StartOver \/ Reload \/ StartPolling
           \/ \E c \in ConversationIds : LoadConversation(c)
           \/ AnswerLoad \/ FinishLoad \/ FailLoad \/ WebhookLands \/ Attempt
  BY <1>4, StartOverKeeps, ReloadKeeps, PollingKeeps, LoadConversationKeeps, AnswerLoadKeeps,
     FinishLoadKeeps, FailLoadKeeps
<1>5. CASE UNCHANGED convvars
  <2>1. /\ rows' = rows /\ turns' = turns /\ browser' = browser /\ cache' = cache
        /\ load' = load /\ poll' = poll /\ calm' = calm
    BY SMTT(30), <1>5 DEF convvars
  <2>2. \A m \in Messages : FlightFits(m) => FlightFits(m)'
    BY <2>1 DEF FlightFits, OnRow, StoredLog
  <2>3. CalmFits'
    BY <2>1, <2>2, FlightsAlone DEF ConvInv, CalmFits, StoredLog, Loading
  <2> QED
    BY <2>1, <2>3, TurnsAlone
    DEF ConvInv, ConvTypeOK, NamesFit, Named, SpinnerHasACause, OnRow, Loading
<1> QED
  BY <1>1, <1>2, <1>3, <1>4, <1>5 DEF ConvNext, Customer

\* The inductive invariant holds in every conversation.
THEOREM ConvInvariance == ConvSpec => []ConvInv
<1>1. ConvInit => ConvInv
  BY ConvInitially
<1>2. ConvInv /\ [ConvNext]_convvars => ConvInv'
  BY ConvStep
<1> QED
  BY <1>1, <1>2, PTL DEF ConvSpec

\* Rows, turns, the store and the polling keep their types, whatever the bounds.
THEOREM ConvTypes == ConvSpec => []ConvTypeOK
<1>1. ConvInv => ConvTypeOK
  BY DEF ConvInv
<1> QED
  BY <1>1, ConvInvariance, PTL

\* A turn that ran alone on its conversation stays in the stored log, in one piece, for
\* any number of turns that overlap around it (chat_history.py).
THEOREM LoneTurns == ConvSpec => []LoneTurnsAreKept
<1>1. ConvInv => LoneTurnsAreKept
  BY DEF ConvInv, TurnsFit
<1> QED
  BY <1>1, ConvInvariance, PTL

\* In the calm the browser's log has the stored one's messages in its order, however many
\* loads, reloads and fresh starts came before (chat_history.py, conversation.ts).
THEOREM LiveLogs == ConvSpec => []LiveLogIsStoredLog
<1>1. ConvInv => LiveLogIsStoredLog
  BY DEF ConvInv, CalmFits, LiveLogIsStoredLog, StoredLog
<1> QED
  BY <1>1, ConvInvariance, PTL

\* The input is disabled only while an answer or a load is awaited (conversation.ts).
THEOREM SpinnerCauses == ConvSpec => []SpinnerHasACause
<1>1. ConvInv => SpinnerHasACause
  BY DEF ConvInv
<1> QED
  BY <1>1, ConvInvariance, PTL

=============================================================================
