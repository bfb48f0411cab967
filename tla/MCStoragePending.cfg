SPECIFICATION Spec
CONSTANTS
  Canon = {c0, c1}
  Genesis = c0
  MaxGen = 3
  NoFile = NoFile
INVARIANT RecoveredWithoutPending
