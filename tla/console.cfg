SPECIFICATION ConsoleSpec
CONSTANTS
  None = None
  Project = {p1, p2}
  Call = {c1, c2}
  MaxChanges = 2
INVARIANTS OwnChangesShow ActsInItsProject
PROPERTIES OnlyDemotedAreForbidden
CHECK_DEADLOCK FALSE
