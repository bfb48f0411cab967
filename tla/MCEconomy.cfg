CONSTANTS
    l1 = l1  l2 = l2
    a1 = a1  a2 = a2  b1 = b1  b2 = b2  b3 = b3  anchor = anchor  p = p  q = q
    c1 = c1  c2 = c2  None = None
    Coins = {c1, c2}  CoinValue = 20  Fee = 1  Counts = {1, 2}
    REWARD = 8  ERA_LENGTH = 3  ACTIVATION_DELAY_EPOCHS = 2
    MaxLicenses = 5  MaxHeight = 4  MaxEpoch = 7  MaxQueue = 2
SPECIFICATION EconomySpec
SYMMETRY Symmetry
INVARIANTS TreasuryIsWhole  
  
CHECK_DEADLOCK FALSE
