SPECIFICATION Spec
CONSTANTS
  Branch = {b1, b2}
  W = 2
  Assignment = {a1, a2, a3}
  CrashBudget = 2
  NoFile = NoFile
SYMMETRY AssignmentSymmetry
INVARIANT LedgerSurvivesCrashes
