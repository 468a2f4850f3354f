\* Two names, six objects, three lines.
SPECIFICATION Spec
CONSTANTS
  Names = {"a", "b"}
  Nodes = {1, 2, 3, 4, 5, 6}
  Tree <- MCTree
  StartDir <- MCStartDir
  MaxLines = 3
  Lines <- MCLines
INVARIANTS OnlyHomeIsShared CommandsKeepFiles
\* The lines are used up.
CHECK_DEADLOCK FALSE
