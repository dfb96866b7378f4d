SPECIFICATION Spec
CONSTANTS
  Pages <- MCPages
  MaxQueue = 2
  MaxOthers = 1
  MaxLosses = 1
INVARIANTS TypeOK ToldTruly OffersAreAllowed SettledPageIsCurrent NoBlindRepeat
PROPERTIES AllAnswered
