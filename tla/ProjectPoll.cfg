SPECIFICATION FairSpec
CONSTANTS
  d1 = d1
  Deploys = {d1}
  NoDeploy = NoDeploy
  OlderBuilds = {}
  MaxRunning = 3
  Openings <- PollOpenings
  Ops = {"rollback", "rebuild", "saveBuild", "createEnv"}
  MaxChanges = 3
  MaxFetches = 2
  MaxEvents = 0
PROPERTY PollingFollows
CHECK_DEADLOCK FALSE
