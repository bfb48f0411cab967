CONSTANTS
    c1 = c1  Stopped = Stopped
    k1 = k1  k2 = k2  k3 = k3  None = None
    p1 = p1  w1 = w1  t1 = t1  NoJob = NoJob
    s1 = s1  s2 = s2  x = x  NoFile = NoFile
    m1 = m1  v1 = v1  v2 = v2  Node = Node
SPECIFICATION Spec
PROPERTIES RequestsReturn SimultaneousDialsConverge   RevokedIsCancelled
CHECK_DEADLOCK FALSE
