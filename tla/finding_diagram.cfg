SPECIFICATION AFairSpec
CONSTANTS
    MaxIntents = 2
    MaxCarts = 1
    MaxPayments = 1
    Budgets = {}
    NoBudget = NoBudget
    CartTotals = {2}
    MaxRounds = 2
    MaxCalls = 2
PROPERTIES
    ImplementsPurchaseFlow
CHECK_DEADLOCK FALSE
