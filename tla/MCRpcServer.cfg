CONSTANTS
    s = s  r = r  NoFile = NoFile
    Clients = {s, r}
    Request <- SpendAndRead  SpentCoin <- OwnCoins
    RPC_MAX_CONCURRENT_WORKERS = 2  MaxRequests = 2  ConcurrentClients = 2
SPECIFICATION ServerSpec
INVARIANT CommittedStateReadable
CHECK_DEADLOCK FALSE
