CONSTANTS
  Hooks = {"tokens", "users", "redemptions", "models", "deployments", "channels", "usageLogs", "taskLogs"}
  Rows = {1, 2, 3}
  Found = {1, 3}
  MaxPage = 2
  MaxClicks = 3
  MaxFaults = 1
SPECIFICATION FairSpec
INVARIANTS TypeOK PagerAgrees LatestWins SpinnersEnd DeletedRowGone
PROPERTIES TablesSettle
CHECK_DEADLOCK FALSE
