\* Two requests at a time on three deploys, of which two may run.
SPECIFICATION FairSpec
CONSTANTS
  MaxDeploys = 3
  Handlers = {h1, h2}
  Nobody = Nobody
  Ops = {"stop", "start", "promote", "rollback", "destroy"}
  MaxRunning = 2
  MaxRequests = 3
INVARIANTS TypeOK Validated RoutedIsRunning SerialLimit
PROPERTY RequestsEnd
