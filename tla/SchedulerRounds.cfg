SPECIFICATION FairSpec
CONSTANTS
    MinIncrement = 2
    BudgetShare = 2
    Rpc = {r1, r2}
    Sizes = {2, 5}
    Classes = {0, 1}
    InitialGrants = {0, 3}
    Budgets = {3, 4}
    Reservations = {0, 3}
INVARIANT TypeOK
PROPERTIES AsTheWalkGrants WithinBudget ShortestFirst NeverWedged GrantedWhole
CHECK_DEADLOCK FALSE
