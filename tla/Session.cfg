\* Two tabs of one browser.
SPECIFICATION Spec
CONSTANTS
  Tabs = {t1, t2}
  Sections = {"dashboard", "settings", "faculty"}
  Users = {"JAS-Staff"}
  NoUser = NoUser
  MaxTokens = 2
  MaxFlows = 2
  MaxCalls = 2
  MaxLoads = 2
  MaxErrors = 1
  Configured = TRUE
SYMMETRY TabSymmetry
INVARIANTS TypeOK TokenlessTabIsExplained LoadingIsAwaited
PROPERTY SessionNotDropped
\* The bounds on loads, sessions and flows are used up.
CHECK_DEADLOCK FALSE
