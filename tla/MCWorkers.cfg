CONSTANTS
  Branch = {b1, b2}
  W = 2
  Assignment = {a1, a2, a3}
  CrashBudget = 1
  NoFile = NoFile
  c1 = c1  c2 = c2  c3 = c3  Absent = Absent
  Cmd = {c1, c2, c3}  Worker = {w1}  NodeMiner = NodeMiner  WorkUnits = 2  MaxEpoch = 2
  MaxPolls = 1  NodeOps = {"none", "rotate"}  MaxRunning = 2  MaxEdits = 0  Nothing = Nothing
  Run = {r1, r2, r3}  Key = {k1, k2}  Node = {n1, n2}
  KeyOf <- Keys  Paired <- Pairing  Allowed <- Allowlists  MaxConnections = 2
  r1 = r1  r2 = r2  r3 = r3  k1 = k1  k2 = k2  n1 = n1  n2 = n2
SPECIFICATION WorkersSpec
SYMMETRY WorkersSymmetry
INVARIANTS LedgerNeverForgets NoTicketSentTwice BlockHasCandidate
           TicketsAreIssuedOnce BlocksAreLegitimate BothEndsAgree
CHECK_DEADLOCK FALSE
