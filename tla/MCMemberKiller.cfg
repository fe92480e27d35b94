SPECIFICATION FairSpec
CONSTANTS
  Pod = {p1, p2, p3}
  Configs <- MCConfigs
INVARIANTS TypeOK KillsWhereItListed KillsAreReal
PROPERTIES TargetsWereReady MonkeyEnds
CHECK_DEADLOCK FALSE
