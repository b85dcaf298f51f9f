\* One offer, one request to move, two strands, one of them cut short.
SPECIFICATION FairSpec
CONSTANTS
  Offers = {p1}
  Moves = {m1}
  Strands = {s1, s2}
  Start = 2
  Length = 0
  Year = 13
  Season <- Seasons
  Week = 3
  Targets = {2}
  Month = 1
  Horizon = 3
  MaxRequests = 4
  MaxCrashes = 1
  None = None
INVARIANTS TypeOK OfferActsOnce DatesAccounted MoveActsOnce
PROPERTIES MoveKeepsPlace DueOfferEnds UnansweredStops StatusKeepsUp
CHECK_DEADLOCK FALSE
