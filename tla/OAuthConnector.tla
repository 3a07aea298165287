---------------------------- MODULE OAuthConnector ----------------------------
(***************************************************************************)
(* The OAuth server of the MCP connector: services/oauth.py behind         *)
(* routers/oauth.py, and the connector (Claude and the customer's browser) *)
(* that walks authorize, consent, token and refresh against it.            *)
(*                                                                         *)
(* Requests run in a thread pool.  Those that approve, exchange or refresh *)
(* take two steps: what they take out of memory or read from the database, *)
(* and what they then store.                                               *)
(***************************************************************************)
EXTENDS Integers, FiniteSets

CONSTANTS
    Workers,                            \* threads of the API
    MaxRequests, MaxCodes, MaxTokens,   \* bounds on the ids ever given out
    MaxMishaps                          \* bound on what goes wrong from outside

ASSUME OAuthAssumption ==
    /\ IsFiniteSet(Workers)
    /\ {MaxRequests, MaxCodes, MaxTokens, MaxMishaps} \subseteq Nat

VARIABLES
    pending,    \* _pending_requests
    codes,      \* _pending_grants
    tokens,     \* oauth_refresh_tokens
    req,        \* what each worker has taken or read, and not answered yet
    connector,  \* what the client holds; 0 is nothing
    mishaps     \* how many mishaps there have been

ovars == <<pending, codes, tokens, req, connector, mishaps>>

RequestIds == 1..MaxRequests
CodeIds == 1..MaxCodes
TokenIds == 1..MaxTokens

\* An entry is "stale" from its expires_at on, and "gone" once it is popped.
EntryStatus == {"none", "waiting", "stale", "gone"}

\* A row is "old" from the refresh TTL on.  request, code and parent say what an
\* id was given out for; the program does not keep them.
TokenStatus == {"none", "active", "old", "revoked"}
CodeEntry == [status : EntryStatus, request : RequestIds \cup {0}]
TokenRow == [status : TokenStatus, code : CodeIds \cup {0}, parent : TokenIds \cup {0}]

\* op is what the request goes on to do with id; its answer is the connector's,
\* or it was sent twice or by another tab, and the answer is nobody's.
Idle == [op |-> "idle", id |-> 0, answers |-> FALSE]
Request ==
    {Idle}
    \cup [op : {"issue"}, id : RequestIds, answers : BOOLEAN]
    \cup [op : {"mint"}, id : CodeIds, answers : BOOLEAN]
    \cup [op : {"rotate"}, id : TokenIds, answers : BOOLEAN]

Connector ==
    [request : RequestIds \cup {0}, code : CodeIds \cup {0}, token : TokenIds \cup {0}]
NoAttempt == [request |-> 0, code |-> 0, token |-> 0]

OTypeOK ==
    /\ pending \in [RequestIds -> EntryStatus]
    /\ codes \in [CodeIds -> CodeEntry]
    /\ tokens \in [TokenIds -> TokenRow]
    /\ req \in [Workers -> Request]
    /\ connector \in Connector
    /\ mishaps \in 0..MaxMishaps

OInit ==
    /\ pending = [r \in RequestIds |-> "none"]
    /\ codes = [c \in CodeIds |-> [status |-> "none", request |-> 0]]
    /\ tokens = [t \in TokenIds |-> [status |-> "none", code |-> 0, parent |-> 0]]
    /\ req = [w \in Workers |-> Idle]
    /\ connector = NoAttempt
    /\ mishaps = 0

-----------------------------------------------------------------------------
(* Helpers. *)

Mishap == mishaps < MaxMishaps /\ mishaps' = mishaps + 1

\* The connector's own calls follow one another; it waits for each answer.
Calls(answers) ==
    IF answers THEN (\A w \in Workers : ~req[w].answers) /\ UNCHANGED mishaps
               ELSE Mishap

GoOn(w, op, id, answers) ==
    /\ req' = [req EXCEPT ![w] = [op |-> op, id |-> id, answers |-> answers]]
    /\ UNCHANGED connector

\* 404 and 400: "Go back to Claude and try connecting again."
Refuse(answers) ==
    /\ connector' = IF answers THEN NoAttempt ELSE connector
    /\ UNCHANGED req

\* The end of a request: its answer arrives, is lost, or is nobody's.
Respond(w, answer) ==
    /\ req' = [req EXCEPT ![w] = Idle]
    /\ \/ req[w].answers /\ connector' = answer /\ UNCHANGED mishaps
       \/ req[w].answers /\ Mishap /\ UNCHANGED connector
       \/ ~req[w].answers /\ UNCHANGED <<connector, mishaps>>

-----------------------------------------------------------------------------
(* GET /oauth/authorize; the connector may also have given up a token.      *)
Authorize(r) ==
    /\ connector = NoAttempt
    /\ pending[r] = "none" /\ \A s \in 1..(r - 1) : pending[s] # "none"
    /\ pending' = [pending EXCEPT ![r] = "waiting"]
    /\ connector' = [NoAttempt EXCEPT !.request = r]
    /\ UNCHANGED <<codes, tokens, req, mishaps>>

-----------------------------------------------------------------------------
(* POST /oauth/authorize/{request_id}/approve. *)

\* Slips: the entry is looked up and left, and the expiry is compared backwards.
ApproveTakeLooksUp(w, r, answers) ==
    /\ req[w] = Idle /\ pending[r] # "none"
    /\ Calls(answers)
    /\ IF pending[r] = "waiting" THEN GoOn(w, "issue", r, answers) ELSE Refuse(answers)
    /\ UNCHANGED <<pending, codes, tokens>>

ApproveTakeExpired(w, r, answers) ==
    /\ req[w] = Idle /\ pending[r] # "none"
    /\ Calls(answers)
    /\ pending' = [pending EXCEPT ![r] = "gone"]
    /\ IF pending[r] = "stale" THEN GoOn(w, "issue", r, answers) ELSE Refuse(answers)
    /\ UNCHANGED <<codes, tokens>>

ApproveTake(w, r, answers) ==
    /\ req[w] = Idle /\ pending[r] # "none"
    /\ Calls(answers)
    /\ pending' = [pending EXCEPT ![r] = "gone"]
    /\ IF pending[r] = "waiting" THEN GoOn(w, "issue", r, answers) ELSE Refuse(answers)
    /\ UNCHANGED <<codes, tokens>>

IssueCode(w, c) ==
    /\ req[w].op = "issue"
    /\ codes[c].status = "none" /\ \A d \in 1..(c - 1) : codes[d].status # "none"
    /\ codes' = [codes EXCEPT ![c] = [status |-> "waiting", request |-> req[w].id]]
    /\ Respond(w, [connector EXCEPT !.code = c])
    /\ UNCHANGED <<pending, tokens>>

-----------------------------------------------------------------------------
(* POST /oauth/token. *)

\* Slip: the code is popped only by an exchange that matches, in its last step.
ExchangeTakeLate(w, c, matches, answers) ==
    /\ req[w] = Idle /\ codes[c].status # "none"
    /\ Calls(answers)
    /\ IF codes[c].status = "waiting" /\ matches
       THEN GoOn(w, "mint", c, answers) /\ UNCHANGED codes
       ELSE Refuse(answers) /\ codes' = [codes EXCEPT ![c].status = "gone"]
    /\ UNCHANGED <<pending, tokens>>

\* matches: client_id, redirect_uri and the PKCE verifier are those of the grant.
\* The code is popped whether they are or not.
ExchangeTake(w, c, matches, answers) ==
    /\ req[w] = Idle /\ codes[c].status # "none"
    /\ Calls(answers)
    /\ codes' = [codes EXCEPT ![c].status = "gone"]
    /\ IF codes[c].status = "waiting" /\ matches
       THEN GoOn(w, "mint", c, answers)
       ELSE Refuse(answers)
    /\ UNCHANGED <<pending, tokens>>

IsNextToken(t) ==
    tokens[t].status = "none" /\ \A s \in 1..(t - 1) : tokens[s].status # "none"

MintToken(w, t) ==
    /\ req[w].op = "mint"
    /\ IsNextToken(t)
    /\ tokens' = [tokens EXCEPT ![t] =
                    [status |-> "active", code |-> req[w].id, parent |-> 0]]
    /\ Respond(w, [connector EXCEPT !.token = t])
    /\ UNCHANGED <<pending, codes>>

\* Slip: revoked_at is not looked at.
RotateReadRevoked(w, t, answers) ==
    /\ req[w] = Idle /\ tokens[t].status # "none"
    /\ Calls(answers)
    /\ IF tokens[t].status \in {"active", "revoked"}
       THEN GoOn(w, "rotate", t, answers) ELSE Refuse(answers)
    /\ UNCHANGED <<pending, codes, tokens>>

RotateRead(w, t, answers) ==
    /\ req[w] = Idle /\ tokens[t].status # "none"
    /\ Calls(answers)
    /\ IF tokens[t].status = "active"
       THEN GoOn(w, "rotate", t, answers) ELSE Refuse(answers)
    /\ UNCHANGED <<pending, codes, tokens>>

\* Slips: the old row is revoked in a commit of its own, and it is deleted.
RotateCommitTwice(w, t) ==
    /\ req[w].op = "rotate"
    /\ IsNextToken(t)
    /\ tokens' = [tokens EXCEPT ![req[w].id].status = "revoked"]
    /\ Respond(w, connector)
    /\ UNCHANGED <<pending, codes>>

RotateCommitDeletes(w, t) ==
    LET old == req[w].id
    IN /\ req[w].op = "rotate"
       /\ IsNextToken(t)
       /\ tokens' = [tokens EXCEPT
                       ![old].status = "deleted",
                       ![t] = [status |-> "active", code |-> tokens[old].code, parent |-> old]]
       /\ Respond(w, [connector EXCEPT !.token = t])
       /\ UNCHANGED <<pending, codes>>

\* One commit: an UPDATE by primary key and the INSERT of the successor.
RotateCommit(w, t) ==
    LET old == req[w].id
    IN /\ req[w].op = "rotate"
       /\ IsNextToken(t)
       /\ tokens' = [tokens EXCEPT
                       ![old].status = "revoked",
                       ![t] = [status |-> "active", code |-> tokens[old].code, parent |-> old]]
       /\ Respond(w, [connector EXCEPT !.token = t])
       /\ UNCHANGED <<pending, codes>>

-----------------------------------------------------------------------------
(* Mishaps. *)

RequestExpires(r) ==
    /\ pending[r] = "waiting" /\ Mishap
    /\ pending' = [pending EXCEPT ![r] = "stale"]
    /\ UNCHANGED <<codes, tokens, req, connector>>

CodeExpires(c) ==
    /\ codes[c].status = "waiting" /\ Mishap
    /\ codes' = [codes EXCEPT ![c].status = "stale"]
    /\ UNCHANGED <<pending, tokens, req, connector>>

TokenExpires(t) ==
    /\ tokens[t].status = "active" /\ Mishap
    /\ tokens' = [tokens EXCEPT ![t].status = "old"]
    /\ UNCHANGED <<pending, codes, req, connector>>

\* The database raises before the commit.
CommitFails(w) ==
    /\ req[w].op \in {"mint", "rotate"} /\ Mishap
    /\ req' = [req EXCEPT ![w] = Idle]
    /\ UNCHANGED <<pending, codes, tokens, connector>>

\* Both dictionaries and the requests in flight are lost; the rows stay.
Restart ==
    /\ Mishap
    /\ pending' = [r \in RequestIds |-> IF pending[r] = "none" THEN "none" ELSE "gone"]
    /\ codes' = [c \in CodeIds |-> IF codes[c].status = "none"
                                   THEN codes[c] ELSE [codes[c] EXCEPT !.status = "gone"]]
    /\ req' = [w \in Workers |-> Idle]
    /\ UNCHANGED <<tokens, connector>>

-----------------------------------------------------------------------------

\* A retry after a lost answer or a restart is the same call again.
Connect(w) ==
    \/ \E r \in RequestIds :
          connector.request = r /\ connector.code = 0 /\ ApproveTake(w, r, TRUE)
    \/ \E c \in CodeIds :
          connector.code = c /\ connector.token = 0 /\ ExchangeTake(w, c, TRUE, TRUE)

Refresh(w) == \E t \in TokenIds : connector.token = t /\ RotateRead(w, t, TRUE)

\* A call that is a copy of one made before, or comes from another tab.
Replay(w) ==
    \/ \E r \in RequestIds : ApproveTake(w, r, FALSE)
    \/ \E c \in CodeIds, matches \in BOOLEAN : ExchangeTake(w, c, matches, FALSE)
    \/ \E t \in TokenIds : RotateRead(w, t, FALSE)

Finish(w) ==
    \/ \E c \in CodeIds : IssueCode(w, c)
    \/ \E t \in TokenIds : MintToken(w, t)
    \/ \E t \in TokenIds : RotateCommit(w, t)

Trouble ==
    \/ \E r \in RequestIds : RequestExpires(r)
    \/ \E c \in CodeIds : CodeExpires(c)
    \/ \E t \in TokenIds : TokenExpires(t)
    \/ \E w \in Workers : CommitFails(w)
    \/ Restart

ONext ==
    \/ \E r \in RequestIds : Authorize(r)
    \/ \E w \in Workers : Connect(w) \/ Refresh(w) \/ Replay(w) \/ Finish(w)
    \/ Trouble

OSpec == OInit /\ [][ONext]_ovars

\* Threads are scheduled, and "the customer retries the connect" (oauth.py:9-10).
\* Nothing makes the connector refresh its token.
OFairSpec ==
    /\ OSpec
    /\ WF_ovars(\E r \in RequestIds : Authorize(r))
    /\ WF_ovars(\E w \in Workers : Connect(w))
    /\ \A w \in Workers : WF_ovars(Finish(w))

-----------------------------------------------------------------------------
(***************************************************************************)
(* Properties.                                                             *)
(***************************************************************************)

\* "a request_id never grants two authorization codes" (oauth.py:81-82), and a
\* code never mints two first tokens (oauth.py:111-112): whatever is sent twice,
\* overlaps, expires or is lost in a restart, one consent is one grant.
OneCodePerRequest ==
    \A c, d \in CodeIds :
        codes[c].request # 0 /\ codes[c].request = codes[d].request => c = d

FirstToken(t) == tokens[t].status # "none" /\ tokens[t].parent = 0
OneTokenPerCode ==
    \A s, t \in TokenIds :
        FirstToken(s) /\ FirstToken(t) /\ tokens[s].code = tokens[t].code => s = t

\* "atomically revokes it and issues a replacement in one commit"
\* (oauth.py:135-136): a token is revoked exactly when it has a successor, so
\* that no failure strands a family of tokens without one that still works.
Successors(t) == {s \in TokenIds : tokens[s].parent = t}
RotationIsAtomic ==
    \A t \in TokenIds : tokens[t].status = "revoked" <=> Successors(t) # {}

\* "using it once immediately revokes it" (oauth.py:138): rotate_refresh_token
\* reads the row without a lock, so overlapping rotations each mint a successor,
\* but no more of them than there are threads: after the first commit no request
\* begins another.
ForksOnlyInOverlap ==
    \A t \in TokenIds : Cardinality(Successors(t)) <= Cardinality(Workers)

\* "losing either on a restart just means the customer retries the connect"
\* (oauth.py:9-10): whatever goes wrong, a finite number of times, the connector
\* ends up with a token.
Connects == <>(connector.token # 0)

=============================================================================
