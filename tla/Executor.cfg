\* Two deploys and one address, which both may claim; the older deploy may meet
\* errors and be destroyed; one restart; fair.
SPECIFICATION FairSpec
CONSTANTS
  MaxDeploys = 2
  MaxIp = 1
  MaxVmid = 2
  MaxConcurrent = 1
  MaxCrashes = 1
  Faulty = {1}
  Deletable = {1}
INVARIANTS TypeOK HealthGate OrphanHasCause RoutedIsReleased
PROPERTY InProgressEnds
