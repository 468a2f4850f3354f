SPECIFICATION Spec
CONSTANTS
    Rows = {1, 2}
    Limit = 1
    Kinds = {"table", "secrets", "members", "overview", "dashboard"}
    MaxUses = 2
    MaxOthers = 1
    None = None
    Gone = Gone
INVARIANTS
    ListMatchesQuery
    WritesAreMeant
PROPERTY
    ButtonsComeBack
CHECK_DEADLOCK FALSE
