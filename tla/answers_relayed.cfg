\* One request on each route; the backend sends up to three pieces.
CONSTANTS
  Texts = {t1, t2}
  Done = Done
  Junk = Junk
  MaxSaid = 3
SPECIFICATION RelayFairSpec
INVARIANTS RelayTypeOK NothingLost
PROPERTIES RelayPromise HandlerEnds
CHECK_DEADLOCK FALSE
