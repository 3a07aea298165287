SPECIFICATION Spec
CONSTANTS
    Workers = {w1, w2}
    MaxIntents = 1
    MaxCarts = 2
    MaxPayments = 2
    Budgets = {2}
    NoBudget = NoBudget
    CartTotals = {2, 3}
SYMMETRY WorkerSymmetry
INVARIANTS
    TypeOK
    PaymentsFollowTheChain
    CartAndPaymentLogsReplay
    ResolvedOnSignedEvent
    Grounded
PROPERTIES
    EveryChangeLogged
    ResolvedPaymentIsFinal
CHECK_DEADLOCK FALSE
