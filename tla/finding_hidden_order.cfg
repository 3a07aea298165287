SPECIFICATION ASpec
CONSTANTS
    MaxIntents = 1
    MaxCarts = 2
    MaxPayments = 1
    Budgets = {}
    NoBudget = NoBudget
    CartTotals = {2}
    MaxRounds = 2
    MaxCalls = 1
INVARIANTS
    OrderShowsThePurchase
CHECK_DEADLOCK FALSE
