SPECIFICATION Spec
CONSTANTS
  d1 = d1
  d2 = d2
  Deploys = {d1, d2}
  NoDeploy = NoDeploy
  OlderBuilds = {b1}
  MaxRunning = 1
  Openings <- MCOpenings
  Ops = {"stop", "start", "promote", "destroy", "toggle", "delete", "disconnect", "connect", "deployBuild", "rollback", "lock", "rebuild", "createEnv", "saveBuild"}
  MaxChanges = 3
  MaxFetches = 2
  MaxEvents = 2
SYMMETRY DeploySymmetry
INVARIANTS TypeOK AckedIsShown NoDuplicateRequest OfferFitsStatus NoStrayInterval SwitchIsTruthful
PROPERTY ShowsFreshView
CHECK_DEADLOCK FALSE
