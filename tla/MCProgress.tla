----------------------------- MODULE MCProgress -----------------------------
(***************************************************************************)
(* What must eventually happen: requests return, dialling nodes find one    *)
(* session, a node catches up with its peers, an RPC client is served, and  *)
(* the lifecycle watch of a worker command cancels revoked work.  A         *)
(* behaviour exercises one of them (part); fairness is that of the part.    *)
(***************************************************************************)
EXTENDS Integers, Sequences, TLC

CONSTANTS c1, Stopped,             \* a caller of each end of a session
          k1, k2, k3, None,        \* slots for connections
          p1, w1, t1, NoJob,       \* a peer, an announcement thread, a transaction
          s1, s2, x, NoFile,       \* RPC clients
          m1, v1, v2, Node         \* a worker command, two workers, the node

VARIABLES part,
          wire, link, closed, next, pending, reader, routed, queue, pc, req, chan,
          conn, reg, known, waiting, losses,
          mem, disk, running, permit, main, worker, peer, faults, crashes, announces,
          backlog, workers, handled, answer, thr,
          meta, journal, snaps, journal_tmp, meta_tmp, snap_tmp,
          stored, file, authz, edits, cmd, reserved, cancelled, overlapped
sessionVars == <<wire, link, closed, next, pending, reader, routed, queue, pc, req, chan>>
registryVars == <<conn, reg, known, waiting, losses>>
runtimeVars == <<mem, disk, running, permit, main, worker, peer, faults, crashes, announces>>
rpcVars == <<backlog, workers, handled, answer, thr,
             meta, journal, snaps, journal_tmp, meta_tmp, snap_tmp>>
commandVars == <<stored, file, authz, edits, cmd, reserved, cancelled, overlapped>>
vars == <<part, sessionVars, registryVars, runtimeVars, rpcVars, commandVars>>

-----------------------------------------------------------------------------
\* One end announces a transaction, and the other fetches it.
Session == INSTANCE DuplexSession WITH
    Caller <- {c1}, MaxPending <- [low |-> 1, high |-> 1], MaxQueue <- 1,
    Requests <- [low |-> 1, high |-> 0]

\* Two nodes dial each other, and one session is lost.
Registry == INSTANCE PeerRegistry WITH
    Nodes <- {1, 2}, Conns <- {k1, k2, k3}, Known0 <- <<{2}, {1}>>, IP <- <<"ip", "ip">>,
    MAX_LIVE_DUPLEX_PEERS <- 1, MAX_INBOUND_DUPLEX_PEERS <- 1,
    MAX_INBOUND_DUPLEX_PEERS_PER_IP <- 1, MAX_INBOUND_HANDSHAKES <- 1,
    MAX_INBOUND_HANDSHAKES_PER_IP <- 1, MAX_RUNTIME_PEERS <- 2, MaxLosses <- 1

\* A Devnet node and a peer that reorganizes to a heavier branch; headers come
\* one at a time.
B(by, up, e, w, t) == [by |-> <<by, e>>, parent |-> up, epoch |-> e, work |-> w, txs |-> t]
GenesisBlock == B("g", <<>>, 0, 1, {})
G == <<<<"g", 0>>>>
Runtime == INSTANCE NodeRuntime WITH
    IsMainnet <- FALSE, Peers <- {p1}, Workers <- {w1}, Txs <- {t1},
    Miners <- {"g", "a", "d", "me"},
    Coin <- [t \in {t1} |-> "coin"], Genesis <- GenesisBlock,
    PeerChains <- {<<GenesisBlock, B("a", G, 1, 1, {t1})>>,
                   <<GenesisBlock, B("d", G, 2, 6, {})>>},
    MAX_HEADERS_PER_RESPONSE <- 1, MAX_SIDE_BRANCHES <- 1,
    MaxHeight <- 2, MaxEpoch <- 2, MaxFaults <- 1, MaxCrashes <- 1, MaxAnnounces <- 1

\* Two spends of one output and a client that stalls,
\* all of them at a time.
Clients == {s1, s2, x}
Req(m, t, l) == [method |-> m, token |-> t, secret |-> FALSE, line |-> l]
Rpc == INSTANCE RpcServer WITH
    Request <- (s1 :> Req("offline.submit", TRUE, "complete")
             @@ s2 :> Req("offline.submit", TRUE, "complete")
             @@ x  :> Req("chain.status", TRUE, "stalled")),
    SpentCoin <- [c \in Clients |-> 1],
    RPC_MAX_CONCURRENT_WORKERS <- 2, MaxRequests <- 3, ConcurrentClients <- 3

\* One command, with the operator editing the authorizations meanwhile.
Command == INSTANCE WorkerService WITH
    Cmd <- {m1}, Worker <- {v1, v2}, NodeMiner <- Node, WorkUnits <- 2,
    MaxEpoch <- 2, MaxPolls <- 2, Nothing <- None,
    NodeOps <- {"none", "suspend"}, MaxRunning <- 1, MaxEdits <- 1,
    disk <- stored

Init == /\ part \in {"session", "registry", "runtime", "rpc", "command"}
        /\ Session!Init /\ Registry!RegistryInit /\ Runtime!Init /\ Rpc!ServerInit /\ Command!ServiceInit

SessionStep == part = "session" /\ Session!Next
               /\ UNCHANGED <<part, registryVars, runtimeVars, rpcVars, commandVars>>
RegistryStep == part = "registry" /\ Registry!RegistryNext
                /\ UNCHANGED <<part, sessionVars, runtimeVars, rpcVars, commandVars>>
RuntimeStep == part = "runtime" /\ Runtime!Next
               /\ UNCHANGED <<part, sessionVars, registryVars, rpcVars, commandVars>>
RpcStep == part = "rpc" /\ Rpc!ServerNext
           /\ UNCHANGED <<part, sessionVars, registryVars, runtimeVars, commandVars>>
CommandStep == part = "command" /\ Command!ServiceNext
               /\ UNCHANGED <<part, sessionVars, registryVars, runtimeVars, rpcVars>>
Next == SessionStep \/ RegistryStep \/ RuntimeStep \/ RpcStep \/ CommandStep

\* Threads keep running, a timeout expires, a connection that was shut down wakes
\* its reader; the main loop dials every round, closes are noticed, backoff
\* passes; a stopped node is started again; the RPC acceptor never waits for its
\* threads; a worker command runs as long as it can.
Fairness ==
    /\ \A e \in {"low", "high"} :
          /\ WF_sessionVars(part = "session" /\ Session!Finish(e))
          /\ WF_sessionVars(part = "session" /\ Session!ReadEof(e))
          /\ WF_sessionVars(part = "session" /\ Session!Shutdown(e))
          /\ WF_sessionVars(part = "session" /\ Session!Proceed(e, c1))
    /\ \A n \in {1, 2} :
          /\ WF_registryVars(part = "registry" /\ Registry!Dial(n, 3 - n))
          /\ WF_registryVars(part = "registry" /\ Registry!BackoffOver(n, 3 - n))
          /\ WF_registryVars(part = "registry" /\ Registry!live_duplex_snapshot(n))
          /\ \A c \in {k1, k2, k3} : WF_registryVars(part = "registry" /\ Registry!SeesClose(n, c))
    /\ \A c \in {k1, k2, k3} :
          /\ WF_registryVars(part = "registry" /\ Registry!RegisterOutbound(c))
          /\ WF_registryVars(part = "registry" /\ Registry!RegisterInbound(c))
    /\ WF_runtimeVars(part = "runtime" /\ Runtime!MainLoop)
    /\ WF_runtimeVars(part = "runtime" /\ Runtime!WorkerStep(w1))
    /\ WF_runtimeVars(part = "runtime" /\ Runtime!Restart)
    /\ WF_rpcVars(part = "rpc" /\ Rpc!Accept)
    /\ WF_rpcVars(part = "rpc" /\ Rpc!Exit)
    /\ \A c \in Clients : WF_rpcVars(part = "rpc" /\ Rpc!Worker(c))
    /\ WF_commandVars(part = "command" /\ Command!CommandStep(m1))

Spec == Init /\ [][Next]_vars /\ Fairness

-----------------------------------------------------------------------------
\* Every request returns, also when the peer never answers.
RequestsReturn == Session!RequestsReturn

\* Two nodes that dial each other end up with one and the same connection.
SimultaneousDialsConverge ==
    part = "registry" => Registry!SimultaneousDialsConverge

\* The node ends up with at least the work of every peer.
CatchesUp == part = "runtime" => Runtime!CatchesUp

\* Whoever connects to the RPC service is answered or turned away.
EveryCallEnds == Rpc!EveryCallEnds

\* A revocation that stays in the stored files is answered by a cancellation.
RevokedIsCancelled == Command!RevokedIsCancelled
=============================================================================
