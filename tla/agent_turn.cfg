SPECIFICATION AFairSpec
CONSTANTS
    MaxIntents = 2
    MaxCarts = 2
    MaxPayments = 1
    Budgets = {}
    NoBudget = NoBudget
    CartTotals = {2}
    MaxRounds = 2
    MaxCalls = 2
INVARIANTS
    ATypeOK
    StateOffersAWayOn
    IdsNameOnePurchase
    IntentLogsReplay
    NoTransitionRepeats
PROPERTIES
    ImplementsGatedFlow
    AConfirmedIntentIsImmutable
    TurnEnds
CHECK_DEADLOCK FALSE
