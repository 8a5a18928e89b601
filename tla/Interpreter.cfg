SPECIFICATION Spec
CONSTANTS
  Files <- MCFiles
  Functions <- MCFunctions
  Programs <- MCPrograms
  Hosts <- MCHosts
  Roots = {"inside"}
  Policy <- MCPolicy
  Workers = 2
  MaxFrames = 12
CHECK_DEADLOCK FALSE
INVARIANTS TypeOK EffectsAllowed HardFloor ImportedOnce
PROPERTIES Ends
