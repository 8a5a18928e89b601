SPECIFICATION Spec
CONSTANTS
  Files <- MCFiles
  Functions <- MCFunctions
  Programs <- MCGuarded
  Hosts <- MCTraced
  Roots = {"inside"}
  Policy <- MCPolicy
  Workers = 2
  MaxFrames = 12
CHECK_DEADLOCK FALSE
INVARIANT DenialNotAbsorbed
