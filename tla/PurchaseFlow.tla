----------------------------- MODULE PurchaseFlow -----------------------------
(***************************************************************************)
(* The diagram of the repository's README (lines 193-205), edge for edge:  *)
(* one conversation with the shopping agent walks it one edge at a time,   *)
(* from a state that is remembered.  Nothing is said of tables, ids or     *)
(* calls.  GatedFlow is what the agent's gate really promises of it.       *)
(***************************************************************************)

VARIABLES
    state,    \* the AgentState of the turn that is running, or "NONE"
    memory    \* the states the browser and the stored conversation are in

fvars == <<state, memory>>

AgentState == {"DRAFTING_INTENT", "AWAITING_INTENT_OK", "BUILDING_CART",
               "AWAITING_CART_OK", "EXECUTING_PAYMENT", "PAYMENT_FAILED", "TERMINAL"}

\* What a tool call may do.  Proposing a draft again moves nothing.
ToolMoves ==
    {<<"DRAFTING_INTENT", "AWAITING_INTENT_OK">>,    \* propose_intent
     <<"AWAITING_INTENT_OK", "BUILDING_CART">>,      \* confirm_intent
     <<"BUILDING_CART", "AWAITING_CART_OK">>,        \* propose_cart
     <<"AWAITING_CART_OK", "EXECUTING_PAYMENT">>,    \* confirm_cart
     <<"PAYMENT_FAILED", "EXECUTING_PAYMENT">>,      \* retry_payment
     <<"PAYMENT_FAILED", "TERMINAL">>}               \* cancel_payment

\* The webhook, at any time.
Settlements ==
    {<<"EXECUTING_PAYMENT", "TERMINAL">>, <<"EXECUTING_PAYMENT", "PAYMENT_FAILED">>}

\* What is remembered names the same mandates, so it may move along.
Along(move) == {move[2] : s \in memory \cap {move[1]}}

FInit == state = "NONE" /\ memory = {"DRAFTING_INTENT"}

StartTurn ==
    /\ state = "NONE"
    /\ state' \in memory
    /\ UNCHANGED memory

CallTool ==
    \E move \in ToolMoves :
        /\ state = move[1] /\ state' = move[2]
        /\ memory' \subseteq memory \cup Along(move)

Settle ==
    \E move \in Settlements :
        /\ state' = state \/ (state = move[1] /\ state' = move[2])
        /\ memory' \subseteq memory \cup Along(move)

\* The turn's state is remembered, unless the turn died or its answer was lost.
EndTurn ==
    /\ state # "NONE" /\ state' = "NONE"
    /\ memory' \subseteq memory \cup {state}

\* The browser catches up with the stored conversation.
Recall ==
    /\ state = "NONE"
    /\ memory' \subseteq memory
    /\ UNCHANGED state

StartOver ==
    /\ state = "NONE"
    /\ memory' = {"DRAFTING_INTENT"}
    /\ UNCHANGED state

FNext == StartTurn \/ CallTool \/ Settle \/ EndTurn \/ Recall \/ StartOver

FSpec == FInit /\ [][FNext]_fvars

===============================================================================
