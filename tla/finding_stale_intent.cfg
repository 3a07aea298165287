SPECIFICATION Spec
CONSTANTS
    Workers = {w1}
    MaxIntents = 1
    MaxCarts = 1
    MaxPayments = 1
    Budgets = {2}
    NoBudget = NoBudget
    CartTotals = {2}
PROPERTIES
    StaleIntentBuildsNoCart
CHECK_DEADLOCK FALSE
