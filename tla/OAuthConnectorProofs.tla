------------------------- MODULE OAuthConnectorProofs -------------------------
(***************************************************************************)
(* Proofs about OAuthConnector for every number of threads, requests,      *)
(* codes, tokens and mishaps.                                              *)
(***************************************************************************)
EXTENDS OAuthConnector, FiniteSetTheorems, TLAPS

\* A worker is in the middle of an operation on an id.
Doing(w, op, id) == req[w].op = op /\ req[w].id = id

(***************************************************************************)
(* Why an id is given out once: what it is exchanged for is taken away     *)
(* first, and the request that has taken it is the only one that has.      *)
(***************************************************************************)
RequestsSpent ==
    /\ \A c \in CodeIds : codes[c].status = "none" => codes[c].request = 0
    /\ \A c \in CodeIds : codes[c].request # 0 => pending[codes[c].request] = "gone"
    /\ \A w \in Workers, r \in RequestIds : Doing(w, "issue", r) =>
          /\ pending[r] = "gone"
          /\ \A c \in CodeIds : codes[c].request # r
          /\ \A v \in Workers : Doing(v, "issue", r) => v = w

\* The same of codes and first tokens.
CodesSpent ==
    /\ \A t \in TokenIds : FirstToken(t) =>
          tokens[t].code \in CodeIds /\ codes[tokens[t].code].status = "gone"
    /\ \A w \in Workers, c \in CodeIds : Doing(w, "mint", c) =>
          /\ codes[c].status = "gone"
          /\ \A t \in TokenIds : FirstToken(t) => tokens[t].code # c
          /\ \A v \in Workers : Doing(v, "mint", c) => v = w

\* Why a token forks no more often than there are threads: a rotation begins
\* only while the token has no successor, and each that commits was one of them.
Rotating(t) == {w \in Workers : Doing(w, "rotate", t)}

\* A row's parent is set by the rotation that mints it, and what rotates is a row.
TokensTraced ==
    /\ \A t \in TokenIds : tokens[t].status = "none" => tokens[t].parent = 0
    /\ \A w \in Workers, t \in TokenIds : Doing(w, "rotate", t) => tokens[t].status # "none"

\* Each thread that rotates a token accounts for one successor of it.
ForksBounded ==
    \A t \in TokenIds :
        /\ IsFiniteSet(Successors(t))
        /\ Cardinality(Successors(t)) + Cardinality(Rotating(t)) <= Cardinality(Workers)

-----------------------------------------------------------------------------
(* Types. *)

\* What a worker holds names an id of the kind its operation is about.
LEMMA RequestTypes ==
    ASSUME OTypeOK, NEW w \in Workers
    PROVE  /\ req[w] \in Request
           /\ req[w].op = "issue" => req[w].id \in RequestIds
           /\ req[w].op = "mint" => req[w].id \in CodeIds
           /\ req[w].op = "rotate" => req[w].id \in TokenIds
BY DEF OTypeOK, Request, Idle

\* A request that begins either goes on with a known id or is refused.
LEMMA BeginTypes ==
    ASSUME OTypeOK, NEW w \in Workers, NEW op, NEW id, NEW answers \in BOOLEAN,
           \/ op = "issue" /\ id \in RequestIds
           \/ op = "mint" /\ id \in CodeIds
           \/ op = "rotate" /\ id \in TokenIds,
           GoOn(w, op, id, answers) \/ Refuse(answers)
    PROVE  req' \in [Workers -> Request] /\ connector' \in Connector
<1>1. NoAttempt \in Connector /\ connector \in Connector /\ req \in [Workers -> Request]
  BY DEF OTypeOK, NoAttempt, Connector
<1>2. [op |-> op, id |-> id, answers |-> answers] \in Request
  BY DEF Request
<1>3. CASE GoOn(w, op, id, answers)
  BY <1>1, <1>2, <1>3 DEF GoOn
<1>4. CASE Refuse(answers)
  BY <1>1, <1>4 DEF Refuse
<1> QED
  BY <1>3, <1>4

\* The number of mishaps stays within its bound.
LEMMA MishapTypes ==
    ASSUME OTypeOK, Mishap \/ UNCHANGED mishaps
    PROVE  mishaps' \in 0..MaxMishaps
BY OAuthAssumption DEF OTypeOK, Mishap

\* A call of the connector, or a repeated one, keeps within the mishaps.
LEMMA CallTypes ==
    ASSUME OTypeOK, NEW answers, Calls(answers)
    PROVE  mishaps' \in 0..MaxMishaps
BY MishapTypes DEF Calls

\* A request that ends leaves its worker idle, and the connector with an answer
\* or with what it had.
LEMMA RespondTypes ==
    ASSUME OTypeOK, NEW w \in Workers, NEW answer \in Connector, Respond(w, answer)
    PROVE  /\ req' \in [Workers -> Request]
           /\ connector' \in Connector
           /\ mishaps' \in 0..MaxMishaps
<1>1. req' \in [Workers -> Request]
  BY DEF Respond, OTypeOK, Request
<1>2. connector' \in Connector
  BY DEF Respond, OTypeOK
<1>3. mishaps' \in 0..MaxMishaps
  BY MishapTypes DEF Respond
<1> QED
  BY <1>1, <1>2, <1>3

\* No step breaks a type.
LEMMA TypeStep ==
    ASSUME OTypeOK, [ONext]_ovars
    PROVE  OTypeOK'
<1>1. ASSUME NEW r \in RequestIds, Authorize(r)
      PROVE  OTypeOK'
  <2>1. connector' \in Connector
    BY <1>1 DEF Authorize, NoAttempt, Connector
  <2>2. pending' \in [RequestIds -> EntryStatus]
    BY <1>1 DEF Authorize, OTypeOK, EntryStatus
  <2> QED
    BY <1>1, <2>1, <2>2 DEF Authorize, OTypeOK
<1>2. ASSUME NEW w \in Workers, NEW r \in RequestIds, NEW answers \in BOOLEAN,
             ApproveTake(w, r, answers)
      PROVE  OTypeOK'
  <2>1. pending' \in [RequestIds -> EntryStatus]
    BY <1>2 DEF ApproveTake, OTypeOK, EntryStatus
  <2>2. GoOn(w, "issue", r, answers) \/ Refuse(answers)
    BY <1>2 DEF ApproveTake
  <2>3. req' \in [Workers -> Request] /\ connector' \in Connector
    BY <2>2, BeginTypes
  <2>4. mishaps' \in 0..MaxMishaps
    BY <1>2, CallTypes DEF ApproveTake
  <2> QED
    BY <1>2, <2>1, <2>3, <2>4 DEF ApproveTake, OTypeOK
<1>3. ASSUME NEW w \in Workers, NEW c \in CodeIds, IssueCode(w, c)
      PROVE  OTypeOK'
  <2>1. req[w].id \in RequestIds
    BY <1>3, RequestTypes DEF IssueCode
  <2>2. codes' \in [CodeIds -> CodeEntry]
    BY <1>3, <2>1 DEF IssueCode, OTypeOK, CodeEntry, EntryStatus
  <2>3. [connector EXCEPT !.code = c] \in Connector
    BY DEF OTypeOK, Connector
  <2>4. Respond(w, [connector EXCEPT !.code = c])
    BY <1>3 DEF IssueCode
  <2> QED
    BY <1>3, <2>2, <2>3, <2>4, RespondTypes DEF IssueCode, OTypeOK
<1>4. ASSUME NEW w \in Workers, NEW c \in CodeIds, NEW matches, NEW answers \in BOOLEAN,
             ExchangeTake(w, c, matches, answers)
      PROVE  OTypeOK'
  <2>1. codes' \in [CodeIds -> CodeEntry]
    BY <1>4 DEF ExchangeTake, OTypeOK, CodeEntry, EntryStatus
  <2>2. GoOn(w, "mint", c, answers) \/ Refuse(answers)
    BY <1>4 DEF ExchangeTake
  <2>3. req' \in [Workers -> Request] /\ connector' \in Connector
    BY <2>2, BeginTypes
  <2>4. mishaps' \in 0..MaxMishaps
    BY <1>4, CallTypes DEF ExchangeTake
  <2> QED
    BY <1>4, <2>1, <2>3, <2>4 DEF ExchangeTake, OTypeOK
<1>5. ASSUME NEW w \in Workers, NEW t \in TokenIds, MintToken(w, t)
      PROVE  OTypeOK'
  <2>1. req[w].id \in CodeIds
    BY <1>5, RequestTypes DEF MintToken
  <2>2. tokens' \in [TokenIds -> TokenRow]
    BY <1>5, <2>1 DEF MintToken, OTypeOK, TokenRow, TokenStatus
  <2>3. [connector EXCEPT !.token = t] \in Connector
    BY DEF OTypeOK, Connector
  <2>4. Respond(w, [connector EXCEPT !.token = t])
    BY <1>5 DEF MintToken
  <2> QED
    BY <1>5, <2>2, <2>3, <2>4, RespondTypes DEF MintToken, OTypeOK
<1>6. ASSUME NEW w \in Workers, NEW t \in TokenIds, NEW answers \in BOOLEAN,
             RotateRead(w, t, answers)
      PROVE  OTypeOK'
  <2>1. GoOn(w, "rotate", t, answers) \/ Refuse(answers)
    BY <1>6 DEF RotateRead
  <2>2. req' \in [Workers -> Request] /\ connector' \in Connector
    BY <2>1, BeginTypes
  <2>3. mishaps' \in 0..MaxMishaps
    BY <1>6, CallTypes DEF RotateRead
  <2> QED
    BY <1>6, <2>2, <2>3 DEF RotateRead, OTypeOK
<1>7. ASSUME NEW w \in Workers, NEW t \in TokenIds, RotateCommit(w, t)
      PROVE  OTypeOK'
  <2>1. req[w].id \in TokenIds
    BY <1>7, RequestTypes DEF RotateCommit
  <2>2. tokens' \in [TokenIds -> TokenRow]
    <3> DEFINE old == req[w].id
               row == [status |-> "active", code |-> tokens[old].code, parent |-> old]
    <3>1. tokens \in [TokenIds -> TokenRow]
      BY DEF OTypeOK
    <3>2. row \in TokenRow
      BY <2>1, <3>1 DEF TokenRow, TokenStatus
    <3>3. tokens' = [tokens EXCEPT ![old].status = "revoked", ![t] = row]
      BY <1>7 DEF RotateCommit
    <3> HIDE DEF row
    <3> QED
      BY <2>1, <3>1, <3>2, <3>3 DEF TokenRow, TokenStatus
  <2>3. [connector EXCEPT !.token = t] \in Connector
    BY DEF OTypeOK, Connector
  <2>4. Respond(w, [connector EXCEPT !.token = t])
    BY <1>7 DEF RotateCommit
  <2> QED
    BY <1>7, <2>2, <2>3, <2>4, RespondTypes DEF RotateCommit, OTypeOK
<1>8. ASSUME Trouble
      PROVE  OTypeOK'
  <2>1. mishaps' \in 0..MaxMishaps
    BY <1>8, MishapTypes
    DEF Trouble, RequestExpires, CodeExpires, TokenExpires, CommitFails, Restart
  <2>2. ASSUME NEW r \in RequestIds, RequestExpires(r)
        PROVE  OTypeOK'
    BY <2>1, <2>2 DEF RequestExpires, OTypeOK, EntryStatus
  <2>3. ASSUME NEW c \in CodeIds, CodeExpires(c)
        PROVE  OTypeOK'
    BY <2>1, <2>3 DEF CodeExpires, OTypeOK, CodeEntry, EntryStatus
  <2>4. ASSUME NEW t \in TokenIds, TokenExpires(t)
        PROVE  OTypeOK'
    BY <2>1, <2>4 DEF TokenExpires, OTypeOK, TokenRow, TokenStatus
  <2>5. ASSUME NEW w \in Workers, CommitFails(w)
        PROVE  OTypeOK'
    BY <2>1, <2>5 DEF CommitFails, OTypeOK, Request
  <2>6. ASSUME Restart
        PROVE  OTypeOK'
    BY <2>1, <2>6 DEF Restart, OTypeOK, Request, EntryStatus, CodeEntry
  <2> QED
    BY <1>8, <2>2, <2>3, <2>4, <2>5, <2>6 DEF Trouble
<1>9. CASE UNCHANGED ovars
  BY <1>9 DEF ovars, OTypeOK
<1> QED
  BY <1>1, <1>2, <1>3, <1>4, <1>5, <1>6, <1>7, <1>8, <1>9
  DEF ONext, Connect, Refresh, Replay, Finish

\* Nothing is what 0 names.
LEMMA ZeroIsNoId == 0 \notin RequestIds /\ 0 \notin CodeIds /\ 0 \notin TokenIds
BY OAuthAssumption DEF RequestIds, CodeIds, TokenIds

-----------------------------------------------------------------------------
(* What the halves of a request do to the requests in flight. *)

\* A worker that takes something is the only one whose request changes.
LEMMA BeginFacts ==
    ASSUME OTypeOK, NEW w \in Workers, NEW op, NEW id, NEW answers, req[w] = Idle,
           GoOn(w, op, id, answers) \/ Refuse(answers)
    PROVE  /\ \A v \in Workers : v # w => req'[v] = req[v]
           /\ \A o, i : Doing(w, o, i)' =>
                 \/ GoOn(w, op, id, answers) /\ o = op /\ i = id
                 \/ o = "idle"
<1>1. CASE GoOn(w, op, id, answers)
  BY <1>1 DEF GoOn, OTypeOK, Doing
<1>2. CASE Refuse(answers)
  BY <1>2 DEF Refuse, OTypeOK, Doing, Idle
<1> QED
  BY <1>1, <1>2

\* A request that ends leaves the others alone.
LEMMA RespondFacts ==
    ASSUME OTypeOK, NEW w \in Workers, NEW answer, Respond(w, answer)
    PROVE  /\ \A v \in Workers : v # w => req'[v] = req[v]
           /\ req'[w].op = "idle"
BY DEF Respond, OTypeOK, Idle

\* Nobody does anything after a restart, and nobody begins anything in trouble.
LEMMA TroubleFacts ==
    ASSUME OTypeOK, Trouble
    PROVE  \A w \in Workers : req'[w] = req[w] \/ req'[w].op = "idle"
BY DEF Trouble, RequestExpires, CodeExpires, TokenExpires, CommitFails, Restart, OTypeOK, Idle

\* Only the step that takes an id begins an operation on it.
LEMMA MintsElsewhere ==
    ASSUME OTypeOK, [ONext]_ovars,
           ~ \E w \in Workers, c \in CodeIds, matches \in BOOLEAN, answers \in BOOLEAN :
                ExchangeTake(w, c, matches, answers)
    PROVE  \A v \in Workers, c \in CodeIds : Doing(v, "mint", c)' => Doing(v, "mint", c)
<1>1. ASSUME NEW w \in Workers, NEW r \in RequestIds, NEW answers \in BOOLEAN,
             ApproveTake(w, r, answers)
      PROVE  \A v \in Workers, c \in CodeIds : Doing(v, "mint", c)' => Doing(v, "mint", c)
  <2>1. req[w] = Idle /\ (GoOn(w, "issue", r, answers) \/ Refuse(answers))
    BY <1>1 DEF ApproveTake
  <2> QED
    BY SMTT(30), <2>1, BeginFacts DEF Doing
<1>2. ASSUME NEW w \in Workers, NEW t \in TokenIds, NEW answers \in BOOLEAN,
             RotateRead(w, t, answers)
      PROVE  \A v \in Workers, c \in CodeIds : Doing(v, "mint", c)' => Doing(v, "mint", c)
  <2>1. req[w] = Idle /\ (GoOn(w, "rotate", t, answers) \/ Refuse(answers))
    BY <1>2 DEF RotateRead
  <2>2. /\ \A v \in Workers : v # w => req'[v] = req[v]
        /\ \A o, i : Doing(w, o, i)' => o = "rotate" \/ o = "idle"
    BY <2>1, BeginFacts
  <2> QED
    BY <2>2 DEF Doing
<1>3. ASSUME NEW w \in Workers, Finish(w)
      PROVE  \A v \in Workers, c \in CodeIds : Doing(v, "mint", c)' => Doing(v, "mint", c)
  BY <1>3, RespondFacts DEF Finish, IssueCode, MintToken, RotateCommit, Doing
<1>4. ASSUME Trouble
      PROVE  \A v \in Workers, c \in CodeIds : Doing(v, "mint", c)' => Doing(v, "mint", c)
  BY <1>4, TroubleFacts DEF Doing
<1>5. CASE UNCHANGED req
  BY <1>5 DEF Doing
<1> QED
  BY <1>1, <1>2, <1>3, <1>4, <1>5 DEF ONext, ovars, Connect, Refresh, Replay, Authorize

\* Only reading a live token for it begins a rotation.
LEMMA RotationsElsewhere ==
    ASSUME OTypeOK, [ONext]_ovars,
           ~ \E w \in Workers, t \in TokenIds, answers \in BOOLEAN : RotateRead(w, t, answers)
    PROVE  \A v \in Workers, t \in TokenIds : Doing(v, "rotate", t)' => Doing(v, "rotate", t)
<1>1. ASSUME NEW w \in Workers, NEW r \in RequestIds, NEW answers \in BOOLEAN,
             ApproveTake(w, r, answers)
      PROVE  \A v \in Workers, t \in TokenIds : Doing(v, "rotate", t)' => Doing(v, "rotate", t)
  <2>1. req[w] = Idle /\ (GoOn(w, "issue", r, answers) \/ Refuse(answers))
    BY <1>1 DEF ApproveTake
  <2> QED
    BY SMTT(30), <2>1, BeginFacts DEF Doing
<1>2. ASSUME NEW w \in Workers, NEW c \in CodeIds, NEW matches, NEW answers \in BOOLEAN,
             ExchangeTake(w, c, matches, answers)
      PROVE  \A v \in Workers, t \in TokenIds : Doing(v, "rotate", t)' => Doing(v, "rotate", t)
  <2>1. req[w] = Idle /\ (GoOn(w, "mint", c, answers) \/ Refuse(answers))
    BY <1>2 DEF ExchangeTake
  <2>2. /\ \A v \in Workers : v # w => req'[v] = req[v]
        /\ \A o, i : Doing(w, o, i)' => o = "mint" \/ o = "idle"
    BY <2>1, BeginFacts
  <2> QED
    BY <2>2 DEF Doing
<1>3. ASSUME NEW w \in Workers, Finish(w)
      PROVE  \A v \in Workers, t \in TokenIds : Doing(v, "rotate", t)' => Doing(v, "rotate", t)
  BY <1>3, RespondFacts DEF Finish, IssueCode, MintToken, RotateCommit, Doing
<1>4. ASSUME Trouble
      PROVE  \A v \in Workers, t \in TokenIds : Doing(v, "rotate", t)' => Doing(v, "rotate", t)
  BY <1>4, TroubleFacts DEF Doing
<1>5. CASE UNCHANGED req
  BY <1>5 DEF Doing
<1> QED
  BY <1>1, <1>2, <1>3, <1>4, <1>5 DEF ONext, ovars, Connect, Refresh, Replay, Authorize

-----------------------------------------------------------------------------
(* One code per request. *)

\* A request that was taken stays spent: its code and the approval that issues it are one.
LEMMA RequestsSpentStep ==
    ASSUME OTypeOK, RequestsSpent, [ONext]_ovars
    PROVE  RequestsSpent'
<1>1. ASSUME NEW r \in RequestIds, Authorize(r)
      PROVE  RequestsSpent'
  BY <1>1 DEF Authorize, RequestsSpent, OTypeOK, CodeEntry, Doing
<1>2. ASSUME NEW w \in Workers, NEW r \in RequestIds, NEW answers \in BOOLEAN,
             ApproveTake(w, r, answers)
      PROVE  RequestsSpent'
  <2>1. /\ \A v \in Workers : v # w => req'[v] = req[v]
        /\ \A o, i : Doing(w, o, i)' =>
              \/ GoOn(w, "issue", r, answers) /\ o = "issue" /\ i = r
              \/ o = "idle"
    BY <1>2, BeginFacts DEF ApproveTake
  <2>2. GoOn(w, "issue", r, answers) => pending[r] = "waiting"
    BY <1>2 DEF ApproveTake, GoOn, Refuse, OTypeOK, Idle
  <2>3. /\ codes' = codes
        /\ pending'[r] = "gone"
        /\ \A q \in RequestIds : q # r => pending'[q] = pending[q]
    BY <1>2 DEF ApproveTake, OTypeOK
  <2>4. ASSUME NEW v \in Workers, NEW q \in RequestIds, Doing(v, "issue", q)'
        PROVE  /\ pending'[q] = "gone"
               /\ \A c \in CodeIds : codes'[c].request # q
               /\ \A u \in Workers : Doing(u, "issue", q)' => u = v
    <3>1. CASE v = w
      <4>1. GoOn(w, "issue", r, answers) /\ q = r /\ pending[r] = "waiting"
        BY <2>1, <2>2, <2>4, <3>1
      <4>2. \A u \in Workers : ~ Doing(u, "issue", r)
        BY <4>1 DEF RequestsSpent
      <4>3. \A c \in CodeIds : codes[c].request # r
        BY <4>1, ZeroIsNoId DEF RequestsSpent
      <4> QED
        BY <2>1, <2>3, <3>1, <4>1, <4>2, <4>3 DEF Doing
    <3>2. CASE v # w
      <4>1. Doing(v, "issue", q)
        BY <2>1, <2>4, <3>2 DEF Doing
      <4>2. q # r \/ ~ Doing(w, "issue", q)'
        BY <2>1, <2>2, <4>1 DEF RequestsSpent
      <4> QED
        BY <2>1, <2>3, <3>2, <4>1, <4>2 DEF RequestsSpent, Doing
    <3> QED
      BY <3>1, <3>2
  <2>5. \A c \in CodeIds : codes[c].request # 0 => codes[c].request \in RequestIds
    BY DEF OTypeOK, CodeEntry
  <2> QED
    BY <2>3, <2>4, <2>5 DEF RequestsSpent
<1>3. ASSUME NEW w \in Workers, NEW c \in CodeIds, IssueCode(w, c)
      PROVE  RequestsSpent'
  <2>1. /\ \A v \in Workers : v # w => req'[v] = req[v]
        /\ req'[w].op = "idle"
    BY <1>3, RespondFacts DEF IssueCode
  <2>2. req[w].id \in RequestIds /\ Doing(w, "issue", req[w].id)
    BY <1>3, RequestTypes DEF IssueCode, Doing
  <2>3. /\ pending' = pending
        /\ codes'[c] = [status |-> "waiting", request |-> req[w].id]
        /\ \A d \in CodeIds : d # c => codes'[d] = codes[d]
    BY <1>3 DEF IssueCode, OTypeOK
  <2>4. \A d \in CodeIds : codes'[d].status = "none" => codes'[d].request = 0
    BY <2>3 DEF RequestsSpent
  <2>5. \A d \in CodeIds : codes'[d].request # 0 => pending'[codes'[d].request] = "gone"
    BY <2>2, <2>3 DEF RequestsSpent
  <2>6. ASSUME NEW v \in Workers, NEW q \in RequestIds, Doing(v, "issue", q)'
        PROVE  /\ pending'[q] = "gone"
               /\ \A d \in CodeIds : codes'[d].request # q
               /\ \A u \in Workers : Doing(u, "issue", q)' => u = v
    <3>1. v # w /\ Doing(v, "issue", q)
      BY <2>1, <2>6 DEF Doing
    <3>2. q # req[w].id
      BY <2>2, <3>1 DEF RequestsSpent, Doing
    <3> QED
      BY <2>1, <2>3, <3>1, <3>2 DEF RequestsSpent, Doing
  <2> QED
    BY <2>4, <2>5, <2>6 DEF RequestsSpent
<1>4. ASSUME NEW w \in Workers, NEW c \in CodeIds, NEW matches, NEW answers \in BOOLEAN,
             ExchangeTake(w, c, matches, answers)
      PROVE  RequestsSpent'
  <2>1. /\ \A v \in Workers : v # w => req'[v] = req[v]
        /\ \A r \in RequestIds : ~ Doing(w, "issue", r)'
    <3>1. req[w] = Idle /\ (GoOn(w, "mint", c, answers) \/ Refuse(answers))
      BY <1>4 DEF ExchangeTake
    <3> QED
      BY <3>1, BeginFacts
  <2>2. /\ pending' = pending
        /\ \A d \in CodeIds : codes'[d].request = codes[d].request
        /\ \A d \in CodeIds : codes'[d].status = "none" => codes[d].status = "none"
    BY <1>4 DEF ExchangeTake, OTypeOK, CodeEntry
  <2> QED
    BY <2>1, <2>2 DEF RequestsSpent, Doing
<1>5. ASSUME NEW w \in Workers, NEW t \in TokenIds,
             MintToken(w, t) \/ RotateCommit(w, t)
      PROVE  RequestsSpent'
  <2>1. /\ \A v \in Workers : v # w => req'[v] = req[v]
        /\ req'[w].op = "idle"
    BY <1>5, RespondFacts DEF MintToken, RotateCommit
  <2>2. UNCHANGED <<pending, codes>>
    BY <1>5 DEF MintToken, RotateCommit
  <2> QED
    BY <2>1, <2>2 DEF RequestsSpent, Doing
<1>6. ASSUME NEW w \in Workers, NEW t \in TokenIds, NEW answers \in BOOLEAN,
             RotateRead(w, t, answers)
      PROVE  RequestsSpent'
  <2>1. /\ \A v \in Workers : v # w => req'[v] = req[v]
        /\ \A r \in RequestIds : ~ Doing(w, "issue", r)'
    BY <1>6, BeginFacts DEF RotateRead
  <2>2. UNCHANGED <<pending, codes>>
    BY <1>6 DEF RotateRead
  <2> QED
    BY <2>1, <2>2 DEF RequestsSpent, Doing
<1>7. ASSUME Trouble
      PROVE  RequestsSpent'
  <2>1. \A w \in Workers : req'[w] = req[w] \/ req'[w].op = "idle"
    BY <1>7, TroubleFacts
  <2>2. \A r \in RequestIds : pending[r] = "gone" => pending'[r] = "gone"
    BY <1>7 DEF Trouble, RequestExpires, CodeExpires, TokenExpires, CommitFails, Restart, OTypeOK
  <2>3. \A d \in CodeIds :
           /\ codes'[d].request = codes[d].request
           /\ codes'[d].status = "none" => codes[d].status = "none"
    BY <1>7 DEF Trouble, RequestExpires, CodeExpires, TokenExpires, CommitFails, Restart,
                OTypeOK, CodeEntry
  <2>4. \A d \in CodeIds : codes[d].request \in RequestIds \cup {0}
    BY DEF OTypeOK, CodeEntry
  <2> QED
    <3>1. \A w \in Workers, r \in RequestIds : Doing(w, "issue", r)' => Doing(w, "issue", r)
      BY <2>1 DEF Doing
    <3>2. \A d \in CodeIds : codes'[d].request # 0 => pending'[codes'[d].request] = "gone"
      BY <2>2, <2>3, <2>4 DEF RequestsSpent
    <3> QED
      BY <2>2, <2>3, <3>1, <3>2 DEF RequestsSpent
<1>8. CASE UNCHANGED ovars
  BY <1>8 DEF ovars, RequestsSpent, Doing
<1> QED
  BY <1>1, <1>2, <1>3, <1>4, <1>5, <1>6, <1>7, <1>8
  DEF ONext, Connect, Refresh, Replay, Finish

\* Nothing but IssueCode gives out a code; a code that is gone stays so.
LEMMA CodesElsewhere ==
    ASSUME OTypeOK, [ONext]_ovars, ~ \E w \in Workers, c \in CodeIds : IssueCode(w, c)
    PROVE  \A d \in CodeIds :
              /\ codes'[d].request = codes[d].request
              /\ codes[d].status = "gone" => codes'[d].status = "gone"
<1>1. codes \in [CodeIds -> CodeEntry]
  BY DEF OTypeOK
<1>2. ASSUME NEW w \in Workers, NEW c \in CodeIds, NEW matches, NEW answers,
             ExchangeTake(w, c, matches, answers)
      PROVE  codes' = [codes EXCEPT ![c].status = "gone"]
  BY <1>2 DEF ExchangeTake
<1>3. ASSUME NEW c \in CodeIds, CodeExpires(c)
      PROVE  codes' = [codes EXCEPT ![c].status = "stale"] /\ codes[c].status = "waiting"
  BY <1>3 DEF CodeExpires
<1>4. CASE Restart
  BY <1>1, <1>4 DEF Restart, CodeEntry
<1>5. CASE UNCHANGED codes
  BY <1>5
<1>6. \/ \E c \in CodeIds : codes' = [codes EXCEPT ![c].status = "gone"]
      \/ \E c \in CodeIds : CodeExpires(c)
      \/ Restart
      \/ UNCHANGED codes
  BY <1>2 DEF ONext, ovars, Connect, Refresh, Replay, Finish, Trouble, Authorize, ApproveTake,
      MintToken, RotateRead, RotateCommit, RequestExpires, TokenExpires, CommitFails
<1> QED
  BY <1>1, <1>3, <1>4, <1>5, <1>6 DEF CodeEntry

\* Two codes of one request: the second was not issued.
LEMMA OneCodeStep ==
    ASSUME OTypeOK, RequestsSpent, OneCodePerRequest, [ONext]_ovars
    PROVE  OneCodePerRequest'
<1>1. ASSUME NEW w \in Workers, NEW c \in CodeIds, IssueCode(w, c)
      PROVE  OneCodePerRequest'
  <2>1. /\ codes'[c].request = req[w].id
        /\ \A d \in CodeIds : d # c => codes'[d] = codes[d]
    BY <1>1 DEF IssueCode, OTypeOK
  <2>2. \A d \in CodeIds : codes[d].request # req[w].id
    BY <1>1, RequestTypes DEF IssueCode, RequestsSpent, Doing
  <2> QED
    BY <2>1, <2>2 DEF OneCodePerRequest
<1>2. CASE ~ \E w \in Workers, c \in CodeIds : IssueCode(w, c)
  <2>1. \A d \in CodeIds : codes'[d].request = codes[d].request
    BY <1>2, CodesElsewhere
  <2> QED
    BY <2>1 DEF OneCodePerRequest
<1> QED
  BY <1>1, <1>2

-----------------------------------------------------------------------------
(* One first token per code. *)

\* A commit makes one new token, and changes nothing but the status of others.
LEMMA CommitFacts ==
    ASSUME OTypeOK, NEW w \in Workers, NEW t \in TokenIds, MintToken(w, t) \/ RotateCommit(w, t)
    PROVE  /\ tokens[t].status = "none"
           /\ tokens'[t].status = "active"
           /\ MintToken(w, t) => tokens'[t].code = req[w].id /\ tokens'[t].parent = 0
           /\ RotateCommit(w, t) => tokens'[t].parent = req[w].id
           /\ \A s \in TokenIds : s # t =>
                 /\ tokens'[s].code = tokens[s].code
                 /\ tokens'[s].parent = tokens[s].parent
                 /\ tokens'[s].status =
                       IF RotateCommit(w, t) /\ s = req[w].id THEN "revoked" ELSE tokens[s].status
<1>1. tokens \in [TokenIds -> TokenRow]
  BY DEF OTypeOK
<1>2. CASE MintToken(w, t)
  <2>1. req[w].op = "mint" /\ ~ RotateCommit(w, t)
    BY <1>2 DEF MintToken, RotateCommit
  <2>2. tokens' = [tokens EXCEPT ![t] = [status |-> "active", code |-> req[w].id, parent |-> 0]]
    BY <1>2 DEF MintToken
  <2> QED
    BY <1>1, <1>2, <2>1, <2>2 DEF MintToken, IsNextToken, TokenRow
<1>3. CASE RotateCommit(w, t)
  <2> DEFINE old == req[w].id
             row == [status |-> "active", code |-> tokens[old].code, parent |-> old]
  <2>1. old \in TokenIds /\ req[w].op = "rotate" /\ ~ MintToken(w, t)
    BY <1>3, RequestTypes DEF MintToken, RotateCommit
  <2>2. tokens' = [tokens EXCEPT ![old].status = "revoked", ![t] = row]
    BY <1>3 DEF RotateCommit
  <2>3. row.status = "active" /\ row.parent = old
    OBVIOUS
  <2> HIDE DEF row
  <2> QED
    BY <1>1, <1>3, <2>1, <2>2, <2>3 DEF RotateCommit, IsNextToken, TokenRow
<1> QED
  BY <1>2, <1>3

\* Nothing but a commit adds a token or a successor.
LEMMA TokensElsewhere ==
    ASSUME OTypeOK, [ONext]_ovars,
           ~ \E w \in Workers, t \in TokenIds : MintToken(w, t) \/ RotateCommit(w, t)
    PROVE  \A t \in TokenIds :
              /\ tokens'[t].code = tokens[t].code
              /\ tokens'[t].parent = tokens[t].parent
              /\ \/ tokens'[t].status = tokens[t].status
                 \/ tokens[t].status = "active" /\ tokens'[t].status = "old"
<1>1. tokens \in [TokenIds -> TokenRow]
  BY DEF OTypeOK
<1>2. UNCHANGED tokens \/ \E t \in TokenIds : TokenExpires(t)
  BY ZenonT(60) DEF ONext, ovars, Connect, Refresh, Replay, Finish, Trouble, Authorize, ApproveTake,
         IssueCode, ExchangeTake, RotateRead, RequestExpires, CodeExpires, CommitFails, Restart
<1>3. ASSUME NEW t \in TokenIds, TokenExpires(t)
      PROVE  tokens' = [tokens EXCEPT ![t].status = "old"] /\ tokens[t].status = "active"
  BY <1>3 DEF TokenExpires
<1>4. ASSUME NEW t \in TokenIds, TokenExpires(t), NEW s \in TokenIds
      PROVE  /\ tokens'[s].code = tokens[s].code
             /\ tokens'[s].parent = tokens[s].parent
             /\ \/ tokens'[s].status = tokens[s].status
                \/ tokens[s].status = "active" /\ tokens'[s].status = "old"
  <2>1. CASE s = t
    BY <1>1, <1>3, <1>4, <2>1 DEF TokenRow
  <2>2. CASE s # t
    BY <1>1, <1>3, <1>4, <2>2
  <2> QED
    BY <2>1, <2>2
<1> QED
  BY <1>2, <1>4

\* Successors are successors of rows, and what is rotated is a row.
LEMMA TokensTracedStep ==
    ASSUME OTypeOK, TokensTraced, [ONext]_ovars
    PROVE  TokensTraced'
<1>1. ASSUME NEW w \in Workers, NEW t \in TokenIds, MintToken(w, t) \/ RotateCommit(w, t)
      PROVE  TokensTraced'
  <2>1. /\ \A v \in Workers : v # w => req'[v] = req[v]
        /\ req'[w].op = "idle"
    BY <1>1, RespondFacts DEF MintToken, RotateCommit
  <2>2. \A s \in TokenIds :
           /\ tokens[s].status # "none" => tokens'[s].status # "none"
           /\ tokens'[s].status = "none" => tokens'[s].parent = tokens[s].parent
                                            /\ tokens[s].status = "none"
    BY <1>1, CommitFacts
  <2> QED
    BY <2>1, <2>2 DEF TokensTraced, Doing
<1>2. ASSUME NEW w \in Workers, NEW t \in TokenIds, NEW answers \in BOOLEAN,
             RotateRead(w, t, answers)
      PROVE  TokensTraced'
  <2>1. req[w] = Idle /\ (GoOn(w, "rotate", t, answers) \/ Refuse(answers))
    BY <1>2 DEF RotateRead
  <2>2. /\ \A v \in Workers : v # w => req'[v] = req[v]
        /\ \A s \in TokenIds : Doing(w, "rotate", s)' => s = t
    BY SMTT(30), <2>1, BeginFacts
  <2>3. tokens' = tokens /\ tokens[t].status # "none"
    BY <1>2 DEF RotateRead
  <2> QED
    BY <2>2, <2>3 DEF TokensTraced, Doing
<1>3. CASE /\ ~ \E w \in Workers, t \in TokenIds : MintToken(w, t) \/ RotateCommit(w, t)
           /\ ~ \E w \in Workers, t \in TokenIds, answers \in BOOLEAN : RotateRead(w, t, answers)
  <2>1. \A t \in TokenIds :
           /\ tokens'[t].parent = tokens[t].parent
           /\ tokens'[t].status = "none" <=> tokens[t].status = "none"
    BY <1>3, TokensElsewhere
  <2>2. \A w \in Workers, t \in TokenIds : Doing(w, "rotate", t)' => Doing(w, "rotate", t)
    BY <1>3, RotationsElsewhere
  <2> QED
    BY <2>1, <2>2 DEF TokensTraced
<1> QED
  BY <1>1, <1>2, <1>3

\* What a rotation commits on is a row of the table.
LEMMA RotatesARow ==
    ASSUME OTypeOK, TokensTraced, NEW w \in Workers, NEW t, RotateCommit(w, t)
    PROVE  req[w].id \in TokenIds /\ tokens[req[w].id].status # "none" /\ req[w].op = "rotate"
BY RequestTypes DEF RotateCommit, TokensTraced, Doing

\* A code that was taken stays spent: its first token and the exchange that mints it are one.
LEMMA CodesSpentStep ==
    ASSUME OTypeOK, TokensTraced, CodesSpent, [ONext]_ovars
    PROVE  CodesSpent'
<1>1. ASSUME NEW w \in Workers, NEW t \in TokenIds, MintToken(w, t) \/ RotateCommit(w, t)
      PROVE  CodesSpent'
  <2>1. /\ \A v \in Workers : v # w => req'[v] = req[v]
        /\ req'[w].op = "idle"
    BY <1>1, RespondFacts DEF MintToken, RotateCommit
  <2>2. codes' = codes
    BY <1>1 DEF MintToken, RotateCommit
  <2>3. \A s \in TokenIds : s # t => (FirstToken(s)' <=> FirstToken(s)) /\ tokens'[s].code = tokens[s].code
    BY <1>1, CommitFacts, RotatesARow DEF FirstToken
  <2>4. CASE RotateCommit(w, t)
    <3>1. ~ FirstToken(t)'
      BY <2>4, CommitFacts, RotatesARow, ZeroIsNoId DEF FirstToken
    <3> QED
      BY <2>1, <2>2, <2>3, <3>1 DEF CodesSpent, Doing
  <2>5. CASE MintToken(w, t)
    <3>1. req[w].id \in CodeIds /\ Doing(w, "mint", req[w].id)
      BY <2>5, RequestTypes DEF MintToken, Doing
    <3>2. tokens'[t].code = req[w].id
      BY <2>5, CommitFacts
    <3>3. ASSUME NEW v \in Workers, NEW c \in CodeIds, Doing(v, "mint", c)'
          PROVE  v # w /\ Doing(v, "mint", c) /\ c # req[w].id
      <4>1. v # w /\ Doing(v, "mint", c)
        BY <2>1, <3>3 DEF Doing
      <4> QED
        BY <3>1, <4>1 DEF CodesSpent
    <3> QED
      BY <2>2, <2>3, <3>1, <3>2, <3>3 DEF CodesSpent
  <2> QED
    BY <1>1, <2>4, <2>5
<1>2. CASE ~ \E w \in Workers, t \in TokenIds : MintToken(w, t) \/ RotateCommit(w, t)
  <2>1. \A t \in TokenIds : (FirstToken(t)' <=> FirstToken(t)) /\ tokens'[t].code = tokens[t].code
    BY <1>2, TokensElsewhere DEF FirstToken
  <2>2. \A c \in CodeIds : codes[c].status = "gone" => codes'[c].status = "gone"
    <3>1. CASE ~ \E w \in Workers, c \in CodeIds : IssueCode(w, c)
      BY <3>1, CodesElsewhere
    <3>2. ASSUME NEW w \in Workers, NEW c \in CodeIds, IssueCode(w, c)
          PROVE  \A d \in CodeIds : codes[d].status = "gone" => codes'[d].status = "gone"
      BY <3>2 DEF IssueCode, OTypeOK
    <3> QED
      BY <3>1, <3>2
  <2>3. ASSUME NEW w \in Workers, NEW c \in CodeIds, NEW matches, NEW answers \in BOOLEAN,
               ExchangeTake(w, c, matches, answers)
        PROVE  CodesSpent'
    <3>1. req[w] = Idle /\ (GoOn(w, "mint", c, answers) \/ Refuse(answers))
      BY <2>3 DEF ExchangeTake
    <3>2. /\ \A v \in Workers : v # w => req'[v] = req[v]
          /\ \A d \in CodeIds : Doing(w, "mint", d)' => d = c /\ GoOn(w, "mint", c, answers)
      BY <3>1, BeginFacts
    <3>3. codes'[c].status = "gone"
      BY <2>3 DEF ExchangeTake, OTypeOK, CodeEntry
    <3>4. GoOn(w, "mint", c, answers) => codes[c].status = "waiting"
      BY <2>3 DEF ExchangeTake, GoOn, Refuse, OTypeOK, Idle
    <3>5. \A v \in Workers, d \in CodeIds : v # w => (Doing(v, "mint", d)' <=> Doing(v, "mint", d))
      BY <3>2 DEF Doing
    <3>6. ASSUME NEW v \in Workers, NEW d \in CodeIds, Doing(v, "mint", d)'
          PROVE  /\ codes'[d].status = "gone"
                 /\ \A t \in TokenIds : FirstToken(t) => tokens[t].code # d
                 /\ \A u \in Workers : Doing(u, "mint", d)' => u = v
      <4>1. CASE v = w
        <5>1. d = c /\ codes[c].status = "waiting"
          BY <3>2, <3>4, <3>6, <4>1
        <5>2. /\ \A u \in Workers : ~ Doing(u, "mint", c)
              /\ \A t \in TokenIds : FirstToken(t) => tokens[t].code # c
          BY <5>1 DEF CodesSpent
        <5> QED
          BY <3>3, <3>5, <4>1, <5>1, <5>2
      <4>2. CASE v # w
        <5>1. Doing(v, "mint", d)
          BY <3>5, <3>6, <4>2
        <5>2. ~ Doing(w, "mint", d)'
          BY <3>2, <3>4, <5>1 DEF CodesSpent
        <5> QED
          BY <2>2, <3>5, <5>1, <5>2 DEF CodesSpent
      <4> QED
        BY <4>1, <4>2
    <3> QED
      BY <2>1, <2>2, <3>6 DEF CodesSpent
  <2>4. CASE ~ \E w \in Workers, c \in CodeIds, matches \in BOOLEAN, answers \in BOOLEAN :
               ExchangeTake(w, c, matches, answers)
    <3>1. \A w \in Workers, c \in CodeIds : Doing(w, "mint", c)' => Doing(w, "mint", c)
      BY <2>4, MintsElsewhere
    <3> QED
      BY <2>1, <2>2, <3>1 DEF CodesSpent
  <2> QED
    BY <2>3, <2>4
<1> QED
  BY <1>1, <1>2

\* Two first tokens of one code: the second was not minted.
LEMMA OneTokenStep ==
    ASSUME OTypeOK, TokensTraced, CodesSpent, OneTokenPerCode, [ONext]_ovars
    PROVE  OneTokenPerCode'
<1>1. ASSUME NEW w \in Workers, NEW t \in TokenIds, MintToken(w, t)
      PROVE  OneTokenPerCode'
  <2>1. \A s \in TokenIds : FirstToken(s) => tokens[s].code # req[w].id
    BY <1>1, RequestTypes DEF MintToken, CodesSpent, Doing
  <2>2. /\ tokens'[t].code = req[w].id
        /\ \A s \in TokenIds : s # t =>
              (FirstToken(s)' <=> FirstToken(s)) /\ tokens'[s].code = tokens[s].code
    BY <1>1, CommitFacts, RotatesARow DEF FirstToken
  <2> QED
    BY <2>1, <2>2 DEF OneTokenPerCode
<1>2. ASSUME NEW w \in Workers, NEW t \in TokenIds, RotateCommit(w, t)
      PROVE  OneTokenPerCode'
  <2>1. ~ FirstToken(t)'
    BY <1>2, CommitFacts, RotatesARow, ZeroIsNoId DEF FirstToken
  <2>2. \A s \in TokenIds : s # t =>
           (FirstToken(s)' => FirstToken(s)) /\ tokens'[s].code = tokens[s].code
    BY <1>2, CommitFacts, RotatesARow DEF FirstToken
  <2> QED
    BY <2>1, <2>2 DEF OneTokenPerCode
<1>3. CASE ~ \E w \in Workers, t \in TokenIds : MintToken(w, t) \/ RotateCommit(w, t)
  BY <1>3, TokensElsewhere DEF OneTokenPerCode, FirstToken
<1> QED
  BY <1>1, <1>2, <1>3

-----------------------------------------------------------------------------
(* Rotation. *)

\* A commit of a rotation gives the old token a successor, and no other token.
LEMMA SuccessorFacts ==
    ASSUME OTypeOK, TokensTraced, NEW w \in Workers, NEW t \in TokenIds, NEW s \in TokenIds,
           MintToken(w, t) \/ RotateCommit(w, t)
    PROVE  /\ t \notin Successors(s)
           /\ Successors(s)' = IF RotateCommit(w, t) /\ s = req[w].id
                               THEN Successors(s) \cup {t} ELSE Successors(s)
<1>1. tokens[t].parent = 0
  BY CommitFacts DEF TokensTraced
<1>2. \A u \in TokenIds : u # t => tokens'[u].parent = tokens[u].parent
  BY CommitFacts
<1>3. CASE MintToken(w, t)
  <2>1. tokens'[t].parent = 0 /\ ~ RotateCommit(w, t)
    BY ZenonT(60), <1>3, CommitFacts DEF MintToken, RotateCommit
  <2> QED
    BY <1>1, <1>2, <2>1, ZeroIsNoId DEF Successors
<1>4. CASE RotateCommit(w, t)
  <2>1. tokens'[t].parent = req[w].id
    BY <1>4, CommitFacts
  <2> QED
    BY <1>1, <1>2, <1>4, <2>1, ZeroIsNoId DEF Successors
<1> QED
  BY <1>3, <1>4

\* A token is revoked by the commit that mints its successor, and by nothing else.
LEMMA RotationStep ==
    ASSUME OTypeOK, TokensTraced, RotationIsAtomic, [ONext]_ovars
    PROVE  RotationIsAtomic'
<1>1. ASSUME NEW w \in Workers, NEW t \in TokenIds, MintToken(w, t) \/ RotateCommit(w, t),
             NEW s \in TokenIds
      PROVE  (tokens[s].status = "revoked" <=> Successors(s) # {})'
  <2>1. /\ tokens[t].status = "none" /\ tokens'[t].status = "active"
        /\ s # t => tokens'[s].status =
                       IF RotateCommit(w, t) /\ s = req[w].id THEN "revoked" ELSE tokens[s].status
    BY <1>1, CommitFacts
  <2>2. Successors(s)' = IF RotateCommit(w, t) /\ s = req[w].id
                         THEN Successors(s) \cup {t} ELSE Successors(s)
    BY <1>1, SuccessorFacts
  <2>3. RotateCommit(w, t) => req[w].id # t
    BY <2>1, RotatesARow
  <2> QED
    BY <2>1, <2>2, <2>3 DEF RotationIsAtomic
<1>2. CASE ~ \E w \in Workers, t \in TokenIds : MintToken(w, t) \/ RotateCommit(w, t)
  <2>1. \A t \in TokenIds : Successors(t)' = Successors(t)
    BY <1>2, TokensElsewhere DEF Successors
  <2>2. \A t \in TokenIds : (tokens[t].status = "revoked")' <=> tokens[t].status = "revoked"
    BY <1>2, TokensElsewhere
  <2> QED
    BY <2>1, <2>2 DEF RotationIsAtomic
<1> QED
  BY <1>1, <1>2 DEF RotationIsAtomic

\* A rotation that begins is one of at most as many as there are threads, of a
\* token without a successor; one that commits leaves the rotating threads.
LEMMA ForksStep ==
    ASSUME OTypeOK, TokensTraced, RotationIsAtomic, ForksBounded, [ONext]_ovars
    PROVE  ForksBounded'
<1> SUFFICES ASSUME NEW t \in TokenIds
             PROVE  /\ IsFiniteSet(Successors(t))'
                    /\ (Cardinality(Successors(t)) + Cardinality(Rotating(t))
                           <= Cardinality(Workers))'
  BY DEF ForksBounded
<1> DEFINE S == Successors(t)
           R == Rotating(t)
<1>1. /\ IsFiniteSet(S) /\ IsFiniteSet(R) /\ IsFiniteSet(R')
      /\ Cardinality(S) \in Nat /\ Cardinality(R) \in Nat /\ Cardinality(R') \in Nat
      /\ Cardinality(R') <= Cardinality(Workers) /\ Cardinality(Workers) \in Nat
      /\ Cardinality(S) + Cardinality(R) <= Cardinality(Workers)
  <2>1. IsFiniteSet(Workers)
    BY OAuthAssumption
  <2>2. IsFiniteSet(S) /\ Cardinality(S) + Cardinality(R) <= Cardinality(Workers)
    BY DEF ForksBounded
  <2>3. R \in SUBSET Workers /\ R' \in SUBSET Workers
    BY DEF Rotating
  <2> HIDE DEF S, R
  <2> QED
    BY <2>1, <2>2, <2>3, FS_Subset, FS_CardinalityType
<1>2. ASSUME NEW w \in Workers, NEW n \in TokenIds, RotateCommit(w, n), req[w].id = t
      PROVE  IsFiniteSet(S') /\ Cardinality(S') + Cardinality(R') <= Cardinality(Workers)
  <2>1. n \notin S /\ S' = S \cup {n}
    BY <1>2, SuccessorFacts
  <2>2. w \in R
    BY <1>2 DEF Rotating, Doing, RotateCommit
  <2>3. R' = R \ {w}
    BY <1>2, RespondFacts DEF Rotating, Doing, RotateCommit
  <2> HIDE DEF S, R
  <2>4. IsFiniteSet(S') /\ Cardinality(S') = Cardinality(S) + 1
    BY <1>1, <2>1, FS_AddElement
  <2>5. Cardinality(R') = Cardinality(R) - 1
    BY <1>1, <2>2, <2>3, FS_RemoveElement
  <2> QED
    BY <1>1, <2>4, <2>5
<1>3. ASSUME NEW w \in Workers, NEW answers \in BOOLEAN, RotateRead(w, t, answers),
             GoOn(w, "rotate", t, answers)
      PROVE  IsFiniteSet(S') /\ Cardinality(S') + Cardinality(R') <= Cardinality(Workers)
  <2>1. tokens[t].status = "active"
    BY <1>3 DEF RotateRead, GoOn, Refuse, OTypeOK, Idle
  <2>2. S = {}
    BY <2>1 DEF RotationIsAtomic
  <2>3. S' = {}
    BY <1>3, <2>2 DEF RotateRead, Successors
  <2> HIDE DEF S, R
  <2> QED
    BY <1>1, <2>3, FS_EmptySet
<1>4. CASE /\ ~ \E w \in Workers, n \in TokenIds : RotateCommit(w, n) /\ req[w].id = t
           /\ ~ \E w \in Workers, answers \in BOOLEAN :
                   RotateRead(w, t, answers) /\ GoOn(w, "rotate", t, answers)
  <2>1. S' = S
    <3>1. CASE \E w \in Workers, n \in TokenIds : MintToken(w, n) \/ RotateCommit(w, n)
      BY <1>4, <3>1, SuccessorFacts
    <3>2. CASE ~ \E w \in Workers, n \in TokenIds : MintToken(w, n) \/ RotateCommit(w, n)
      BY <3>2, TokensElsewhere DEF Successors
    <3> QED
      BY <3>1, <3>2
  <2>2. R' \subseteq R
    <3>1. ASSUME NEW w \in Workers, NEW n \in TokenIds, NEW answers \in BOOLEAN,
                 RotateRead(w, n, answers)
          PROVE  R' \subseteq R
      <4>1. req[w] = Idle /\ (GoOn(w, "rotate", n, answers) \/ Refuse(answers))
        BY <3>1 DEF RotateRead
      <4>2. ~ Doing(w, "rotate", t)'
        <5>1. Doing(w, "rotate", t)' => GoOn(w, "rotate", n, answers) /\ n = t
          BY <4>1, BeginFacts
        <5> QED
          BY <1>4, <3>1, <5>1
      <4>3. \A v \in Workers : v # w => req'[v] = req[v]
        BY <4>1, BeginFacts
      <4> QED
        BY <4>2, <4>3 DEF Rotating, Doing
    <3>2. CASE ~ \E w \in Workers, n \in TokenIds, answers \in BOOLEAN : RotateRead(w, n, answers)
      BY <3>2, RotationsElsewhere DEF Rotating
    <3> QED
      BY <3>1, <3>2
  <2>3. R' \in SUBSET R
    BY <2>2
  <2> HIDE DEF S, R
  <2>4. Cardinality(R') <= Cardinality(R)
    BY <1>1, <2>3, FS_Subset
  <2>5. IsFiniteSet(S') /\ Cardinality(S') = Cardinality(S)
    BY <1>1, <2>1
  <2>6. IsFiniteSet(S') /\ Cardinality(S') + Cardinality(R') <= Cardinality(Workers)
    BY <1>1, <2>4, <2>5
  <2> QED
    BY <2>6 DEF S, R
<1> QED
  BY <1>2, <1>3, <1>4

-----------------------------------------------------------------------------

\* The inductive invariant.
OInv ==
    /\ OTypeOK
    /\ RequestsSpent /\ OneCodePerRequest
    /\ TokensTraced
    /\ CodesSpent /\ OneTokenPerCode
    /\ RotationIsAtomic /\ ForksBounded

\* With nothing stored and nothing asked the invariant holds.
LEMMA OInitially == OInit => OInv
<1> SUFFICES ASSUME OInit
             PROVE  OInv
  OBVIOUS
<1>1. OTypeOK
  <2>1. NoAttempt \in Connector /\ Idle \in Request
    BY DEF NoAttempt, Connector, Request
  <2>2. mishaps \in 0..MaxMishaps
    BY OAuthAssumption DEF OInit
  <2> QED
    BY <2>1, <2>2 DEF OInit, OTypeOK, EntryStatus, CodeEntry, TokenRow, TokenStatus
<1>2. RequestsSpent /\ OneCodePerRequest /\ TokensTraced
  BY DEF OInit, RequestsSpent, OneCodePerRequest, TokensTraced, Doing, Idle
<1>3. CodesSpent /\ OneTokenPerCode
  BY DEF OInit, CodesSpent, OneTokenPerCode, FirstToken, Doing, Idle
<1>4. \A t \in TokenIds : Successors(t) = {} /\ Rotating(t) = {}
  BY ZeroIsNoId DEF OInit, Successors, Rotating, Doing, Idle
<1>5. RotationIsAtomic
  BY <1>4 DEF OInit, RotationIsAtomic
<1>6. ForksBounded
  <2>1. Cardinality(Workers) \in Nat
    BY OAuthAssumption, FS_CardinalityType
  <2> QED
    BY <1>4, <2>1, FS_EmptySet DEF ForksBounded
<1> QED
  BY <1>1, <1>2, <1>3, <1>5, <1>6 DEF OInv

\* OInv is inductive: it holds in every state the OAuth server can be in.
THEOREM OAuthInvariance == OSpec => []OInv
<1>1. OInv /\ [ONext]_ovars => OInv'
  BY TypeStep, RequestsSpentStep, OneCodeStep, TokensTracedStep, CodesSpentStep, OneTokenStep,
     RotationStep, ForksStep DEF OInv
<1> QED
  BY <1>1, OInitially, PTL DEF OSpec

\* Requests, codes, tokens and what the connector holds keep their types.
THEOREM OAuthTypes == OSpec => []OTypeOK
<1>1. OInv => OTypeOK
  BY DEF OInv
<1> QED
  BY <1>1, OAuthInvariance, PTL

\* The consent of a customer is one grant: an authorization request yields at most one
\* code (consume_pending_request pops it), whatever overlaps, repeats, expires or restarts.
THEOREM OneConsentOneCode == OSpec => []OneCodePerRequest
<1>1. OInv => OneCodePerRequest
  BY DEF OInv
<1> QED
  BY <1>1, OAuthInvariance, PTL

\* A code yields at most one first token (exchange_code_for_tokens pops it).
THEOREM OneCodeOneToken == OSpec => []OneTokenPerCode
<1>1. OInv => OneTokenPerCode
  BY DEF OInv
<1> QED
  BY <1>1, OAuthInvariance, PTL

\* rotate_refresh_token revokes and issues in one commit: a token is revoked
\* exactly when it has a successor.
THEOREM AtomicRotation == OSpec => []RotationIsAtomic
<1>1. OInv => RotationIsAtomic
  BY DEF OInv
<1> QED
  BY <1>1, OAuthInvariance, PTL

\* A token forks only into as many successors as rotations overlap.
THEOREM BoundedForks == OSpec => []ForksOnlyInOverlap
<1>1. OInv => ForksOnlyInOverlap
  <2> SUFFICES ASSUME OInv, NEW t \in TokenIds
               PROVE  Cardinality(Successors(t)) <= Cardinality(Workers)
    BY DEF ForksOnlyInOverlap
  <2>1. IsFiniteSet(Workers) /\ Rotating(t) \in SUBSET Workers
    BY OAuthAssumption DEF Rotating
  <2>2. Cardinality(Rotating(t)) \in Nat /\ Cardinality(Workers) \in Nat
    BY <2>1, FS_Subset, FS_CardinalityType
  <2>3. Cardinality(Successors(t)) \in Nat
    BY FS_CardinalityType DEF OInv, ForksBounded
  <2>4. Cardinality(Successors(t)) + Cardinality(Rotating(t)) <= Cardinality(Workers)
    BY DEF OInv, ForksBounded
  <2> QED
    BY <2>2, <2>3, <2>4
<1> QED
  BY <1>1, OAuthInvariance, PTL

=============================================================================
