SPECIFICATION FairSpec
CONSTANTS
  Actor = {"mapLoad", "pokedex", "queueLoad", "memberKiller"}
  Connecting = {"mapLoad", "pokedex", "queueLoad"}
  Fallible = {"mapLoad", "pokedex"}
  FatalInLoop = {"queueLoad"}
  NumCleaners = 2
INVARIANTS TypeOK CleanedBeforeLoad UpMeansReady ReadyMeansUp
PROPERTIES EventuallyReady
CHECK_DEADLOCK FALSE
