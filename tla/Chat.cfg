SPECIFICATION Spec
CONSTANTS
  Limit = 2
  MaxMessages = 4
  MaxPolls = 2
  MaxShows = 2
  MaxLosses = 1
INVARIANTS SentStaysShown
PROPERTIES WindowCatchesUp
