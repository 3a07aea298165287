SPECIFICATION DSpec
CONSTANTS
    Products = {p1}
    Prices = {10, 11, 12}
    Editors = {e1, e2}
    MaxChanges = 3
    MaxAddresses = 2
SYMMETRY EditorSymmetry
INVARIANTS
    DTypeOK
    OneDefault
    PriceInForceIsRecorded
PROPERTIES
    SingleRiseIsCaught
    EditsSettle
CHECK_DEADLOCK FALSE
