SPECIFICATION Spec
CONSTANTS
 Builders = {p1, p2, p3}
 Users = {p1, p2}
 DailyLimit = 2
 MaxChanges = 1
 MaxLosses = 1
CONSTANTS p1 = p1 p2 = p2 p3 = p3
INVARIANTS TypeOK MatchNeedsBoth NoSecondLook
SYMMETRY Alike
