CONSTANTS l1 = l1  l2 = l2  k1 = k1  k2 = k2
SPECIFICATION Spec
INVARIANTS RecordsMatchHistory FutureOperationsDoNotPoison EligibleMinerIsNeverLockedOut
PROPERTIES EvidenceStaysValid
CHECK_DEADLOCK FALSE
