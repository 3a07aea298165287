SPECIFICATION Spec
CONSTANTS
    Workers = {w1, w2}
    MaxIntents = 1
    MaxCarts = 1
    MaxPayments = 1
    Budgets = {2}
    NoBudget = NoBudget
    CartTotals = {2}
PROPERTIES
    ConfirmedIntentIsImmutable
CHECK_DEADLOCK FALSE
