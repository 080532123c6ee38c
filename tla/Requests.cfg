SPECIFICATION Spec
CONSTANTS
    Slot = {s1, s2}
    Ip = {ip}
    Chosen = {t0}
    Minted = {t1, t2, t3}
    NoToken = NoToken
    Limit <- SmallLimits
    MaxRequests = 3
    Horizon = 2
INVARIANTS
    TypeOK
    WithinBudget
PROPERTIES
    ListsWhatWasCreated
SYMMETRY SlotSymmetry
CHECK_DEADLOCK FALSE
