\* Two deploys without errors or restarts, the reconciler beside them.
SPECIFICATION FairSpec
CONSTANTS
  MaxDeploys = 2
  MaxIp = 2
  MaxVmid = 2
  MaxConcurrent = 1
  MaxCrashes = 0
  Faulty = {}
  Deletable = {}
PROPERTY SupersededKeepsUrl
