------------------------------ MODULE Conversation ------------------------------
(***************************************************************************)
(* The two copies of a conversation: the display log the server stores     *)
(* (routers/chat.py, services/chat_history.py) and the one the browser     *)
(* keeps (web/src/stores/conversation.ts), with the polling of a payment   *)
(* that ends in a message of its own (composables/usePaymentPolling.ts).   *)
(*                                                                         *)
(* One customer in one browser tab.  A message is one turn; what the turn  *)
(* does to the mandates is in AgentTurn.  The server runs turns in a       *)
(* thread pool, and nothing but the disabled buttons keeps them apart.     *)
(***************************************************************************)
EXTENDS Integers, Sequences, SequencesExt

CONSTANTS
    MaxMessages,        \* bound on the messages the customer sends
    MaxConversations,   \* bound on the conversations ever created
    MAX_ATTEMPTS        \* of the polling

ASSUME ConversationAssumption == {MaxMessages, MaxConversations, MAX_ATTEMPTS} \subseteq Nat

VARIABLES
    rows,      \* conversations
    turns,     \* POST /api/chat: the turn of each message, at both ends
    browser,   \* the store: the open conversation, its log and isSending
    cache,     \* localStorage
    load,      \* GET of a stored conversation
    poll,      \* pollAndNarrate
    calm       \* nothing has come between the browser and its conversation

convvars == <<rows, turns, browser, cache, load, poll, calm>>

\* The last message is "Did my payment go through?".
Messages == 1..(MaxMessages + 1)
Narration == MaxMessages + 1
ConversationIds == 1..MaxConversations
MaybeId == ConversationIds \cup {0}
User(m) == <<"user", m>>
Assistant(m) == <<"assistant", m>>
\* Who wrote each entry and in which message's turn; texts, tool calls and the mark of a
\* stalled answer are left out.
Log == Seq({"user", "assistant"} \X Messages)

\* A row is "flushed" until a commit of the session that has created it.
Row == [status : {"none", "flushed", "stored", "absent"}, log : Log]

\* at is where the server is with the turn, row and read the conversation and the
\* log it has loaded, waiting whether the browser awaits the answer, and alone
\* whether no other turn has been running on the row at the same time.
TurnPhase == {"none", "sent", "running", "expired", "appending", "answered", "dead"}
Turn == [at : TurnPhase, row : MaybeId, read : Log, waiting : BOOLEAN, alone : BOOLEAN]
NoTurn == [at |-> "none", row |-> 0, read |-> <<>>, waiting |-> FALSE, alone |-> TRUE]

Snapshot == [conversation : MaybeId, log : Log]
Empty == [conversation |-> 0, log |-> <<>>]
Browser == [conversation : MaybeId, log : Log, isSending : BOOLEAN]

Load == [at : {"none", "asked", "answered"}, row : MaybeId, log : Log, clean : BOOLEAN]
NoLoad == [at |-> "none", row |-> 0, log |-> <<>>, clean |-> FALSE]

\* resolved: the webhook has settled the payment while it is polled.
Poll == [at : {"idle", "polling", "narrated", "gone"}, attempt : 0..MAX_ATTEMPTS,
         resolved : BOOLEAN]
PollIs(at) == [at |-> at, attempt |-> 0, resolved |-> FALSE]

ConvTypeOK ==
    /\ rows \in [ConversationIds -> Row]
    /\ turns \in [Messages -> Turn]
    /\ browser \in Browser
    /\ cache \in Snapshot
    /\ load \in Load
    /\ poll \in Poll
    /\ calm \in BOOLEAN

ConvInit ==
    /\ rows = [c \in ConversationIds |-> [status |-> "none", log |-> <<>>]]
    /\ turns = [m \in Messages |-> NoTurn]
    /\ browser = [conversation |-> 0, log |-> <<>>, isSending |-> FALSE]
    /\ cache = Empty
    /\ load = NoLoad
    /\ poll = PollIs("idle")
    /\ calm = TRUE

OnServer(m) == turns[m].at \in {"sent", "running", "expired", "appending"}
Busy == \E m \in Messages : OnServer(m) \/ turns[m].waiting
Loading == load.at # "none"

-----------------------------------------------------------------------------
(* sendMessage, up to its await. *)

Send(m) ==
    /\ turns[m].at = "none"
    /\ turns' = [turns EXCEPT ![m] =
                   [NoTurn EXCEPT !.at = "sent", !.row = browser.conversation, !.waiting = TRUE]]
    /\ browser' = [browser EXCEPT !.log = Append(@, User(m)), !.isSending = TRUE]
    /\ load' = [load EXCEPT !.clean = FALSE]
    /\ calm' = (calm /\ ~Busy /\ ~Loading)
    /\ UNCHANGED <<rows, cache>>

IsNextMessage(m) ==
    m # Narration /\ turns[m].at = "none" /\ \A n \in 1..(m - 1) : turns[n].at # "none"

\* The input, and the buttons that are disabled while a message is on its way.
Type(m) == IsNextMessage(m) /\ ~browser.isSending /\ Send(m) /\ UNCHANGED poll

\* The buttons of UpsellCard, which are not: one stands under an answer.
Click(m) ==
    /\ IsNextMessage(m)
    /\ \E n \in Messages : Assistant(n) \in ToSet(browser.log)
    /\ Send(m)
    /\ UNCHANGED poll

-----------------------------------------------------------------------------
(* The server. *)

RunningOn(c) == {m \in Messages : turns[m].at \in {"running", "expired", "appending"}
                                  /\ turns[m].row = c}

\* get_or_create_conversation.
Begin(m) ==
    LET c == turns[m].row
        others == RunningOn(c)
    IN /\ turns[m].at = "sent" /\ c # 0
       /\ turns' = [n \in Messages |->
                      IF n = m THEN [turns[m] EXCEPT !.at = "running", !.read = rows[c].log,
                                                     !.alone = (others = {})]
                      ELSE IF n \in others THEN [turns[n] EXCEPT !.alone = FALSE] ELSE turns[n]]
       /\ UNCHANGED <<rows, browser, cache, load, poll, calm>>

BeginNew(m, c) ==
    /\ turns[m].at = "sent" /\ turns[m].row = 0
    /\ rows[c].status = "none" /\ \A d \in 1..(c - 1) : rows[d].status # "none"
    /\ rows' = [rows EXCEPT ![c].status = "flushed"]
    /\ turns' = [turns EXCEPT ![m].at = "running", ![m].row = c]
    /\ UNCHANGED <<browser, cache, load, poll, calm>>

\* A tool commits: what the session has flushed is stored, and what it has read
\* expires; append_turn then reads the row again.
ToolsCommit(m) ==
    /\ turns[m].at = "running"
    /\ rows' = [rows EXCEPT ![turns[m].row].status = "stored"]
    /\ turns' = [turns EXCEPT ![m].at = "expired", ![m].read = <<>>]
    /\ UNCHANGED <<browser, cache, load, poll, calm>>

ReadAgain(m) ==
    /\ turns[m].at = "expired"
    /\ turns' = [turns EXCEPT ![m].at = "appending", ![m].read = rows[turns[m].row].log]
    /\ UNCHANGED <<rows, browser, cache, load, poll, calm>>

\* Slip: the list is mutated in place, which SQLAlchemy does not see.
AppendTurnInPlace(m) ==
    /\ turns[m].at \in {"running", "appending"}
    /\ rows' = [rows EXCEPT ![turns[m].row].status = "stored"]
    /\ turns' = [turns EXCEPT ![m].at = "answered", ![m].read = <<>>]
    /\ UNCHANGED <<browser, cache, load, poll, calm>>

\* append_turn overwrites the whole log with the one it has read and this turn.
AppendTurn(m) ==
    /\ turns[m].at \in {"running", "appending"}
    /\ rows' = [rows EXCEPT ![turns[m].row] =
                  [status |-> "stored", log |-> turns[m].read \o <<User(m), Assistant(m)>>]]
    /\ turns' = [turns EXCEPT ![m].at = "answered", ![m].read = <<>>]
    /\ UNCHANGED <<browser, cache, load, poll, calm>>

\* An exception or a restart: the session is rolled back.
TurnDies(m) ==
    /\ OnServer(m)
    /\ rows' = [c \in ConversationIds |->
                  IF c = turns[m].row /\ rows[c].status = "flushed"
                  THEN [rows[c] EXCEPT !.status = "absent"] ELSE rows[c]]
    /\ turns' = [turns EXCEPT ![m] = [NoTurn EXCEPT !.at = "dead", !.waiting = turns[m].waiting]]
    /\ UNCHANGED <<browser, cache, load, poll, calm>>

-----------------------------------------------------------------------------
(* sendMessage, after its await. *)

\* Slip: the id of a new conversation is not taken over.
DeliverWithoutId(m) ==
    /\ turns[m].at = "answered" /\ turns[m].waiting
    /\ browser' = [browser EXCEPT !.log = Append(@, Assistant(m)), !.isSending = FALSE]
    /\ cache' = [conversation |-> browser'.conversation, log |-> browser'.log]
    /\ turns' = [turns EXCEPT ![m].waiting = FALSE]
    /\ UNCHANGED <<rows, load, poll, calm>>

Deliver(m) ==
    /\ turns[m].at = "answered" /\ turns[m].waiting
    /\ browser' = [conversation |-> turns[m].row, log |-> Append(browser.log, Assistant(m)),
                   isSending |-> FALSE]
    /\ cache' = [conversation |-> browser'.conversation, log |-> browser'.log]
    /\ turns' = [turns EXCEPT ![m].waiting = FALSE]
    /\ UNCHANGED <<rows, load, poll, calm>>

\* Slip: isSending is reset only by an answer.
FailSpinning(m) ==
    /\ turns[m].waiting
    /\ turns' = [turns EXCEPT ![m].waiting = FALSE]
    /\ calm' = FALSE
    /\ UNCHANGED <<rows, browser, cache, load, poll>>

\* An error, or a connection lost while the turn is still running or answered.
Fail(m) ==
    /\ turns[m].waiting
    /\ turns' = [turns EXCEPT ![m].waiting = FALSE]
    /\ browser' = [browser EXCEPT !.isSending = FALSE]
    /\ calm' = FALSE
    /\ UNCHANGED <<rows, cache, load, poll>>

-----------------------------------------------------------------------------
(* The rest of the store. *)

StartOver ==
    /\ browser' = [browser EXCEPT !.conversation = 0, !.log = <<>>]
    /\ cache' = Empty
    /\ calm' = (~Busy /\ ~Loading)
    /\ UNCHANGED <<rows, turns, load, poll>>

\* A page reload: answers on their way, a load and the polling are gone.
Reload ==
    /\ browser' = [conversation |-> cache.conversation, log |-> cache.log, isSending |-> FALSE]
    /\ turns' = [m \in Messages |-> [turns[m] EXCEPT !.waiting = FALSE]]
    /\ load' = NoLoad
    /\ poll' = IF poll.at = "polling" THEN PollIs("gone") ELSE poll
    /\ calm' = (calm /\ ~Busy)
    /\ UNCHANGED <<rows, cache>>

\* The views load one conversation at a time: a second load before the first is over
\* is left out (the guard ~Loading).
LoadConversation(c) ==
    /\ ~Loading /\ rows[c].status = "stored"
    /\ browser' = [browser EXCEPT !.isSending = TRUE]
    /\ load' = [at |-> "asked", row |-> c, log |-> <<>>, clean |-> ~Busy]
    /\ UNCHANGED <<rows, turns, cache, poll, calm>>

AnswerLoad ==
    /\ load.at = "asked"
    /\ load' = [load EXCEPT !.at = "answered", !.log = rows[load.row].log]
    /\ UNCHANGED <<rows, turns, browser, cache, poll, calm>>

FinishLoad ==
    /\ load.at = "answered"
    /\ browser' = [conversation |-> load.row, log |-> load.log, isSending |-> FALSE]
    /\ cache' = [conversation |-> load.row, log |-> load.log]
    /\ load' = NoLoad
    /\ calm' = load.clean
    /\ UNCHANGED <<rows, turns, poll>>

FailLoad ==
    /\ Loading
    /\ browser' = [browser EXCEPT !.isSending = FALSE]
    /\ load' = NoLoad
    /\ UNCHANGED <<rows, turns, cache, poll, calm>>

-----------------------------------------------------------------------------
(* The polling of a payment. *)

\* The customer has paid in the widget that stands under an answer.
StartPolling ==
    /\ poll.at = "idle"
    /\ \E n \in Messages : Assistant(n) \in ToSet(browser.log)
    /\ poll' = PollIs("polling")
    /\ UNCHANGED <<rows, turns, browser, cache, load, calm>>

WebhookLands ==
    /\ poll.at = "polling" /\ ~poll.resolved
    /\ poll' = [poll EXCEPT !.resolved = TRUE]
    /\ UNCHANGED <<rows, turns, browser, cache, load, calm>>

\* Slip: one attempt too many.
AttemptOnceMore ==
    /\ poll.at = "polling" /\ poll.attempt <= MAX_ATTEMPTS
    /\ poll' = [poll EXCEPT !.attempt = @ + 1]
    /\ UNCHANGED <<rows, turns, browser, cache, load, calm>>

\* An attempt that finds the payment pending, or whose fetch fails.
Attempt ==
    /\ poll.at = "polling" /\ poll.attempt < MAX_ATTEMPTS
    /\ poll' = [poll EXCEPT !.attempt = @ + 1]
    /\ UNCHANGED <<rows, turns, browser, cache, load, calm>>

\* Slip: it waits for the webhook, however long.
NarrateResolved ==
    /\ poll.at = "polling" /\ poll.resolved
    /\ poll' = PollIs("narrated")
    /\ Send(Narration)

\* The attempts are over, or one found the payment resolved.
Narrate ==
    /\ poll.at = "polling"
    /\ poll.resolved \/ poll.attempt = MAX_ATTEMPTS
    /\ poll' = PollIs("narrated")
    /\ Send(Narration)

-----------------------------------------------------------------------------

Serve(m) ==
    \/ Begin(m)
    \/ \E c \in ConversationIds : BeginNew(m, c)
    \/ ToolsCommit(m)
    \/ ReadAgain(m)
    \/ AppendTurn(m)
    \/ TurnDies(m)

Receive(m) == Deliver(m) \/ Fail(m)

Customer ==
    \/ \E m \in Messages : Type(m) \/ Click(m)
    \/ StartOver
    \/ Reload
    \/ \E c \in ConversationIds : LoadConversation(c)
    \/ StartPolling

ConvNext ==
    \/ Customer
    \/ \E m \in Messages : Serve(m) \/ Receive(m)
    \/ AnswerLoad \/ FinishLoad \/ FailLoad
    \/ WebhookLands \/ Attempt \/ Narrate

ConvSpec == ConvInit /\ [][ConvNext]_convvars

\* The polling's fetches return or fail, and its timers fire.  Nothing makes a turn or a
\* load end, a webhook land, or the customer do anything.
ConvFairSpec == ConvSpec /\ WF_convvars(Attempt \/ Narrate)

-----------------------------------------------------------------------------
(***************************************************************************)
(* Properties.                                                             *)
(***************************************************************************)

\* append_turn writes back the log it has read (chat_history.py:42), and a later
\* commit drops what an overlapping turn has appended.  That is the only way: a
\* turn that ran alone on its conversation stays in the stored log, in one piece,
\* whatever tools committed in between and whatever came before and after.
Kept(m) ==
    LET log == rows[turns[m].row].log
    IN \E k \in 1..(Len(log) - 1) : log[k] = User(m) /\ log[k + 1] = Assistant(m)

LoneTurnsAreKept ==
    \A m \in Messages : turns[m].at = "answered" /\ turns[m].alone => Kept(m)

\* The store and append_turn build one log each (conversation.ts:104, 127-132;
\* chat_history.py:42-46).  With nothing on its way the browser's has the messages
\* of the stored one, in the stored order, as long as each answer came before the
\* next message was sent - and again once a conversation has been loaded in peace.
\* It says nothing of how an answer is marked, on which the two logs may differ.
LiveLogIsStoredLog ==
    calm /\ ~Busy /\ ~Loading =>
        browser.log = (IF browser.conversation = 0 THEN <<>> ELSE rows[browser.conversation].log)

\* The input field is disabled for no longer than something is awaited, whatever
\* fails, is left, overlaps or is reloaded: every fetch ends, so it comes back.
\* (The converse is false: the first of two overlapping answers enables it.)
SpinnerHasACause ==
    browser.isSending => Loading \/ \E m \in Messages : turns[m].waiting

\* "hand narration back to the orchestrator" (usePaymentPolling.ts:12-14): the
\* question is asked even if the webhook never lands, unless the page is gone.
PollNarrates == poll.at = "polling" ~> poll.at \in {"narrated", "gone"}

=============================================================================
