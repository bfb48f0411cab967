CONSTANTS
    o1 = o1  o2 = o2  k1 = k1  k2 = k2  k3 = k3  l1 = l1  l2 = l2
SPECIFICATION Spec
SYMMETRY Symmetry
INVARIANTS CoinsAreConserved SpendableIsSendable 
PROPERTIES  SubmissionPaysPresentOwners
CHECK_DEADLOCK FALSE
