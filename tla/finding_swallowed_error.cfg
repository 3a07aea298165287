SPECIFICATION ASpec
CONSTANTS
    MaxIntents = 1
    MaxCarts = 1
    MaxPayments = 1
    Budgets = {}
    NoBudget = NoBudget
    CartTotals = {2}
    MaxRounds = 2
    MaxCalls = 1
PROPERTIES
    ATransitionsLogged
CHECK_DEADLOCK FALSE
