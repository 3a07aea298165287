------------------------------ MODULE GatedFlow ------------------------------
(***************************************************************************)
(* What the state gate of the agent promises of the diagram of             *)
(* PurchaseFlow, for any number of tool calls in a round.  All of them are *)
(* gated by the state the round began in (orchestrator.py:145, 188-189):   *)
(* each ends where an edge of that state leads, though by then the turn    *)
(* may be somewhere else.  The next round is gated by where it is.         *)
(***************************************************************************)
EXTENDS PurchaseFlow

VARIABLE gate    \* the state whose tools the running round offers, or "NONE"

gvars == <<state, memory, gate>>

\* A tool of the state that leaves it where it is: a draft proposed again, another
\* payment created (the README's table of tools, lines 207-215).
Repeats ==
    {<<"AWAITING_INTENT_OK", "AWAITING_INTENT_OK">>,    \* propose_intent
     <<"AWAITING_CART_OK", "AWAITING_CART_OK">>,        \* propose_cart
     <<"EXECUTING_PAYMENT", "EXECUTING_PAYMENT">>}      \* create_payment

GInit == FInit /\ gate = "NONE"

\* The state was derived before the model was asked; only the webhook is as fast.
OpenRound ==
    /\ state # "NONE" /\ gate = "NONE"
    /\ gate' = state \/ <<gate', state>> \in Settlements
    /\ UNCHANGED <<state, memory>>

CallGatedTool ==
    \E move \in ToolMoves \cup Repeats :
        /\ state # "NONE" /\ gate = move[1] /\ state' = move[2]
        /\ memory' \subseteq memory \cup Along(move)
        /\ UNCHANGED gate

CloseRound ==
    /\ gate # "NONE" /\ gate' = "NONE"
    /\ UNCHANGED <<state, memory>>

GNext ==
    \/ OpenRound \/ CallGatedTool \/ CloseRound
    \/ (StartTurn \/ Settle \/ Recall \/ StartOver) /\ UNCHANGED gate
    \/ EndTurn /\ gate' = "NONE"

GSpec == GInit /\ [][GNext]_gvars

==============================================================================
