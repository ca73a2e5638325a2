CONSTANTS
    A = A
    B = B
    C = C
    Server = {A, B, C}
    Budgets <- TwoBudgets
    MaxConnections = 2
SPECIFICATION MCSpec
INVARIANTS SessionsSound IdentifiedByPeer HandedInOrder ToldAsCommitted
PROPERTIES AllStoppedLeave
CHECK_DEADLOCK FALSE
