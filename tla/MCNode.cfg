CONSTANTS
    IsMainnet = TRUE
    Peers = {p1}  Workers = {w1}  Txs = {t1, t2}
    Miners = {"g", "a", "b", "c", "d", "e", "me"}
    Coin <- OneCoin
    Genesis <- GenesisBlock
    PeerChains <- Heavier
    NoJob = NoJob
    MAX_HEADERS_PER_RESPONSE = 2
    MAX_SIDE_BRANCHES = 1
    MaxHeight = 3  MaxEpoch = 3  MaxFaults = 1  MaxCrashes = 1  MaxAnnounces = 2
    t1 = t1  t2 = t2
    Nodes = {1, 2, 3}  Conns = {k1, k2, k3}  None = None
    Known0 <- Dialled  IP <- OneAddress
    MAX_LIVE_DUPLEX_PEERS = 1  MAX_INBOUND_DUPLEX_PEERS = 1
    MAX_INBOUND_DUPLEX_PEERS_PER_IP = 1  MAX_INBOUND_HANDSHAKES = 2
    MAX_INBOUND_HANDSHAKES_PER_IP = 2  MAX_RUNTIME_PEERS = 2  MaxLosses = 1
    s1 = s1  s2 = s2  r = r  x = x  u = u  v = v  NoFile = NoFile
    Clients = {s1, s2, r, x, u, v}  Request <- Calls  SpentCoin <- OwnCoins
    RPC_MAX_CONCURRENT_WORKERS = 2  MaxRequests = 5  ConcurrentClients = 1
SPECIFICATION NodeSpec
INVARIANTS MemoryIsDurable RegistryMatchesSessions AcknowledgedIsStored
PROPERTIES NoChangeWithoutWork 
CHECK_DEADLOCK FALSE
