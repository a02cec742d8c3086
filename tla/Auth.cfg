SPECIFICATION Spec
CONSTANTS
    Svr = {s1, s2}
    Guest = {g1, g2, g3}
    Other = {phone}
    MaxCrashes = 2
INVARIANTS IndexIsMax SameUid OwnUidsUnique
CHECK_DEADLOCK FALSE
