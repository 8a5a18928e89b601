SPECIFICATION PromotionSpec
CONSTANTS
  v = v
  w = w
  NoReturn = NoReturn
  Raises = Raises
  Modules <- MCModules
  Seeds = 2
  Length = 3
  Threads = 2
CHECK_DEADLOCK FALSE
INVARIANTS DivergenceRejected
