------------------------------- MODULE Accounts -------------------------------
(***************************************************************************)
(* Accounts and login sessions: routers/auth.py over services/user_auth.py *)
(* and services/auth_tokens.py on one side, stores/auth.ts and the 401     *)
(* handling of lib/api.ts on the other.                                    *)
(*                                                                         *)
(* One person with one e-mail address, in one browser tab, who registers   *)
(* until they learn that they have an account and from then on logs in.    *)
(* Calls run in a thread pool; one whose answer nobody hears any more runs *)
(* on.                                                                     *)
(***************************************************************************)
EXTENDS Integers, FiniteSets

CONSTANTS
    Calls,       \* bound on the calls under way at once
    MaxMishaps   \* bound on what goes wrong, and on logging out

ASSUME AccountsAssumption == IsFiniteSet(Calls) /\ MaxMishaps \in Nat

VARIABLES
    users,      \* how many rows of users have the e-mail
    domain,     \* how many rows of customers or merchants were committed for it
    issued,     \* how many access tokens were issued; they are numbered
    expired,    \* tokens up to this one have outlived auth_jwt_expires_minutes
    call,       \* where each call is
    session,    \* the store's token, in memory and in localStorage; 0 is none
    knows,      \* the person has been told that they have an account
    mishaps     \* how many mishaps there have been

acvars == <<users, domain, issued, expired, call, session, knows, mishaps>>

\* heard: the page still waits for the answer.  token is the one sent with "ask", or
\* the one in the answer of a registration or a login.
Call == [op : {"none", "register", "login", "ask"},
         at : {"idle", "asked", "flushed", "answered"}, heard : BOOLEAN,
         token : Nat, status : {0, 200, 400, 401, 500}]
NoCall == [op |-> "none", at |-> "idle", heard |-> FALSE, token |-> 0, status |-> 0]

AcTypeOK ==
    /\ {users, domain, issued} \subseteq Nat
    /\ expired \in 0..issued
    /\ call \in [Calls -> Call]
    /\ session \in 0..issued
    /\ knows \in BOOLEAN
    /\ mishaps \in 0..MaxMishaps

AcInit ==
    /\ users = 0 /\ domain = 0
    /\ issued = 0 /\ expired = 0
    /\ call = [k \in Calls |-> NoCall]
    /\ session = 0
    /\ knows = FALSE
    /\ mishaps = 0

\* decode_access_token accepts the token.
Live(token) == token > expired

Mishap == mishaps < MaxMishaps /\ mishaps' = mishaps + 1

\* isSubmitting, which disables the buttons of both forms.
IsSubmitting == \E k \in Calls : call[k].op \in {"register", "login"} /\ call[k].heard

Start(k, op, token) ==
    /\ call[k] = NoCall
    /\ call' = [call EXCEPT ![k] = [op |-> op, at |-> "asked", heard |-> TRUE,
                                    token |-> token, status |-> 0]]

Runs(k, op) == call[k].op = op /\ call[k].at = "asked"

Answer(k, status, token) ==
    call' = [call EXCEPT ![k].at = "answered", ![k].status = status, ![k].token = token]

AnswerWithToken(k) == issued' = issued + 1 /\ Answer(k, 200, issued + 1)

-----------------------------------------------------------------------------
(* The pages. *)

Submit(k) ==
    /\ session = 0 /\ ~IsSubmitting
    /\ Start(k, IF knows THEN "login" ELSE "register", 0)
    /\ UNCHANGED <<users, domain, issued, expired, session, knows, mishaps>>

\* Any call of a page behind requiresAuth: authHeaders reads the stored token.
Ask(k) ==
    /\ session # 0
    /\ Start(k, "ask", session)
    /\ UNCHANGED <<users, domain, issued, expired, session, knows, mishaps>>

LogOut ==
    /\ session # 0 /\ Mishap
    /\ session' = 0
    /\ UNCHANGED <<users, domain, issued, expired, call, knows>>

-----------------------------------------------------------------------------
(* The server. *)

\* Slip: a conflict, for which the store has no words.
RegisterFlushConflict(k) ==
    /\ Runs(k, "register")
    /\ IF users > 0 THEN Answer(k, 409, 0)
                    ELSE call' = [call EXCEPT ![k].at = "flushed"]
    /\ UNCHANGED <<users, domain, issued, expired, session, knows, mishaps>>

\* register_user up to its flush; the slow hash of the password comes after it.
RegisterFlush(k) ==
    /\ Runs(k, "register")
    /\ IF users > 0 THEN Answer(k, 400, 0)
                    ELSE call' = [call EXCEPT ![k].at = "flushed"]
    /\ UNCHANGED <<users, domain, issued, expired, session, knows, mishaps>>

\* Slip: the domain row is committed, the user's row fails.
RegisterCommitDomain(k) ==
    /\ call[k].at = "flushed"
    /\ domain' = domain + 1
    /\ IF users > 0
       THEN Answer(k, 500, 0) /\ UNCHANGED <<users, issued>>
       ELSE users' = users + 1 /\ AnswerWithToken(k)
    /\ UNCHANGED <<expired, session, knows, mishaps>>

\* Both rows are committed; or users.email is taken by now, and the session with the
\* flushed row is rolled back.
RegisterCommit(k) ==
    /\ call[k].at = "flushed"
    /\ IF users > 0
       THEN Answer(k, 500, 0) /\ UNCHANGED <<users, domain, issued>>
       ELSE users' = users + 1 /\ domain' = domain + 1 /\ AnswerWithToken(k)
    /\ UNCHANGED <<expired, session, knows, mishaps>>

\* authenticate_user; the password may be mistyped.
Login(k) ==
    /\ Runs(k, "login")
    /\ \/ users > 0 /\ AnswerWithToken(k) /\ UNCHANGED mishaps
       \/ users = 0 /\ Answer(k, 401, 0) /\ UNCHANGED <<issued, mishaps>>
       \/ users > 0 /\ Mishap /\ Answer(k, 401, 0) /\ UNCHANGED issued
    /\ UNCHANGED <<users, domain, expired, session, knows>>

\* get_current_user, and whatever the endpoint does.
Serve(k) ==
    /\ Runs(k, "ask")
    /\ Answer(k, IF Live(call[k].token) THEN 200 ELSE 401, call[k].token)
    /\ UNCHANGED <<users, domain, issued, expired, session, knows, mishaps>>

\* An exception or a restart, before a commit: the session is rolled back.
CallDies(k) ==
    /\ call[k].at \in {"asked", "flushed"} /\ Mishap
    /\ Answer(k, 500, 0)
    /\ UNCHANGED <<users, domain, issued, expired, session, knows>>

-----------------------------------------------------------------------------
(* The answers. *)

Hears(k) == call[k].at = "answered" /\ call[k].heard
Close(k) == call' = [call EXCEPT ![k] = NoCall]

\* login and register of the store: the token, or the error's words.
TakeSession(k) ==
    /\ Hears(k) /\ call[k].op \in {"register", "login"}
    /\ Close(k)
    /\ session' = IF call[k].status = 200 THEN call[k].token ELSE session
    /\ knows' = (knows \/ call[k].status \in {200, 400})
    /\ UNCHANGED <<users, domain, issued, expired, mishaps>>

\* Slip: the call opts out, as login and register do.
HandleResponseUnauthed(k) ==
    /\ Hears(k) /\ call[k].op = "ask"
    /\ Close(k)
    /\ UNCHANGED <<users, domain, issued, expired, session, knows, mishaps>>

\* handleResponse: logout and the login page on a 401.
HandleResponse(k) ==
    /\ Hears(k) /\ call[k].op = "ask"
    /\ Close(k)
    /\ session' = IF call[k].status = 401 THEN 0 ELSE session
    /\ UNCHANGED <<users, domain, issued, expired, knows, mishaps>>

\* The connection is lost or the page is left, with the call still running or not.
LoseAnswer(k) ==
    /\ call[k].heard /\ Mishap
    /\ call' = [call EXCEPT ![k].heard = FALSE]
    /\ UNCHANGED <<users, domain, issued, expired, session, knows>>

Unheard(k) ==
    /\ call[k].at = "answered" /\ ~call[k].heard
    /\ Close(k)
    /\ UNCHANGED <<users, domain, issued, expired, session, knows, mishaps>>

\* Time passes; the oldest tokens are the first to expire.
TokensExpire ==
    /\ Mishap
    /\ expired' \in (expired + 1)..issued
    /\ UNCHANGED <<users, domain, issued, call, session, knows>>

-----------------------------------------------------------------------------

CallGoesOn(k) ==
    \/ RegisterFlush(k) \/ RegisterCommit(k) \/ Login(k) \/ Serve(k) \/ CallDies(k)
    \/ TakeSession(k) \/ HandleResponse(k) \/ LoseAnswer(k) \/ Unheard(k)

AcNext ==
    \/ \E k \in Calls : Submit(k) \/ Ask(k) \/ CallGoesOn(k)
    \/ LogOut
    \/ TokensExpire

AcSpec == AcInit /\ [][AcNext]_acvars

\* Threads run on and fetches end; the person keeps trying to get in, and once in
\* keeps using the pages.
AcFairSpec ==
    /\ AcSpec
    /\ \A k \in Calls : WF_acvars(CallGoesOn(k))
    /\ WF_acvars(\E k \in Calls : Submit(k))
    /\ WF_acvars(\E k \in Calls : Ask(k))

-----------------------------------------------------------------------------
(***************************************************************************)
(* Properties.                                                             *)
(***************************************************************************)

\* "Creates the domain row (Customer/Merchant) and the User row in one transaction"
\* (user_auth.py:12): registrations that overlap, are repeated after a lost answer or
\* die half way leave one account with one domain row or nothing, and whoever was told
\* that the account exists has one.
OneAccount ==
    /\ users = domain /\ users <= 1
    /\ knows => users = 1

\* Lost answers, failed and repeated registrations, expired tokens and late 401s do not
\* lock anybody out: with an end of the mishaps the person is in, and stays in.
GetsIn == <>[](session # 0 /\ Live(session))

=============================================================================
