---------------------------- MODULE PeerRegistry ----------------------------
(***************************************************************************)
(* The live peers of every node: known addresses, dialling with backoff,   *)
(* admission of inbound handshakes, and register_duplex_candidate, which   *)
(* keeps one session per NodeID and enforces the limits.  A connection has *)
(* two ends that close, and notice the other's close, one by one.          *)
(***************************************************************************)
EXTENDS Integers, FiniteSets

CONSTANTS
    Nodes,                 \* NodeIDs, a set of integers (they are compared)
    Conns,                 \* slots for connections; a slot is reused when free
    Known0,                \* addresses known at the start, per node
    IP,                    \* source address per node
    None,
    MAX_LIVE_DUPLEX_PEERS, MAX_INBOUND_DUPLEX_PEERS, MAX_INBOUND_DUPLEX_PEERS_PER_IP,
    MAX_INBOUND_HANDSHAKES, MAX_INBOUND_HANDSHAKES_PER_IP, MAX_RUNTIME_PEERS,
    MaxLosses

VARIABLES
    conn,      \* slot -> [src, dst, up, shaking]: open ends, ends to register
    reg,       \* node -> NodeID -> [c, addr] or None
    known,     \* node -> addresses
    waiting,   \* node -> addresses in backoff
    losses
registryVars == <<conn, reg, known, waiting, losses>>

Entry == [c : Conns, addr : Nodes \cup {None}]

ASSUME RegistryAssumption ==
    /\ IsFiniteSet(Nodes) /\ Nodes \subseteq Int
    /\ Known0 \in [Nodes -> SUBSET Nodes]
    /\ None \notin Nodes \cup Entry
    /\ MAX_LIVE_DUPLEX_PEERS \in Nat

Free == [src |-> None, dst |-> None, up |-> {}, shaking |-> {}]

OtherEnd(cs, c, n) == IF cs[c].src = n THEN cs[c].dst ELSE cs[c].src
Outbound(cs, c, n) == cs[c].src = n

is_live(cs, e, n) == e # None /\ (e # None => n \in cs[e.c].up)
live(cs, r, n) == {m \in Nodes : is_live(cs, r[m], n)}

preferred_outbound(local, remote) == local < remote

\* Each end prefers the connection it made itself.
KeepOwnDial(local, remote, current, candidate) == current # candidate /\ candidate

\* candidate_should_replace, with TRUE for an outbound connection
candidate_should_replace(local, remote, current, candidate) ==
    current # candidate /\ candidate = preferred_outbound(local, remote)

CloseEnd(cs, c, n) == [cs EXCEPT ![c].up = @ \ {n}]

Inbound(cs, r, n) == {m \in live(cs, r, n) : ~Outbound(cs, r[m].c, n)}

WithinLimits(cs, r, n, c) ==
    /\ Outbound(cs, c, n) \/
         /\ Cardinality(Inbound(cs, r, n)) < MAX_INBOUND_DUPLEX_PEERS
         /\ Cardinality({m \in Inbound(cs, r, n) : IP[m] = IP[OtherEnd(cs, c, n)]})
                < MAX_INBOUND_DUPLEX_PEERS_PER_IP
    /\ Cardinality(live(cs, r, n)) < MAX_LIVE_DUPLEX_PEERS

Pruned(cs, r, n) == [m \in Nodes |-> IF is_live(cs, r[m], n) THEN r[m] ELSE None]

\* The loser of the election stays open.
KeepDropped(cs, r, n, c, addr) ==
    LET m == OtherEnd(cs, c, n)
    IN  IF is_live(cs, r[m], n) THEN [cs |-> cs, reg |-> r]
        ELSE [cs |-> cs, reg |-> [Pruned(cs, r, n) EXCEPT ![m] = [c |-> c, addr |-> addr]]]

\* Registration of connection c at its end n, in connections cs and registry r.
register_duplex_candidate(cs, r, n, c, addr) ==
    LET m == OtherEnd(cs, c, n)
        cur == r[m]
    IN  IF is_live(cs, cur, n)
        THEN IF candidate_should_replace(n, m, Outbound(cs, cur.c, n), Outbound(cs, c, n))
             THEN [cs |-> CloseEnd(cs, cur.c, n),
                   reg |-> [r EXCEPT ![m] = [c |-> c, addr |-> IF addr = None THEN cur.addr ELSE addr]]]
             ELSE [cs |-> CloseEnd(cs, c, n),
                   reg |-> [r EXCEPT ![m].addr = IF @ = None THEN addr ELSE @]]
        ELSE IF WithinLimits(cs, Pruned(cs, r, n), n, c)
             THEN [cs |-> cs, reg |-> [Pruned(cs, r, n) EXCEPT ![m] = [c |-> c, addr |-> addr]]]
             ELSE [cs |-> CloseEnd(cs, c, n), reg |-> Pruned(cs, r, n)]

-----------------------------------------------------------------------------
RegistryInit ==
    /\ conn = [c \in Conns |-> Free]
    /\ reg = [n \in Nodes |-> [m \in Nodes |-> None]]
    /\ known = Known0
    /\ waiting = [n \in Nodes |-> {}]
    /\ losses = MaxLosses

Registered(c) == \E n, m \in Nodes : reg[n][m] # None /\ (reg[n][m] # None => reg[n][m].c = c)
FreeSlot(c) == conn[c].up = {} /\ conn[c].shaking = {} /\ ~Registered(c)
UnusedSlots == {c \in Conns : FreeSlot(c)}

\* try_acquire_inbound_admission
Shaking(m) == {c \in Conns : conn[c].dst = m /\ m \in conn[c].shaking}
Admits(m, n) ==
    /\ Cardinality(Shaking(m)) < MAX_INBOUND_HANDSHAKES
    /\ Cardinality({c \in Shaking(m) : IP[conn[c].src] = IP[n]}) < MAX_INBOUND_HANDSHAKES_PER_IP

\* ensure_known_duplex_peers for one address
MayDial(n, m) ==
    /\ m \in known[n] /\ m # n /\ m \notin waiting[n]
    /\ ~ \E r \in live(conn, reg[n], n) : reg[n][r].addr = m
    /\ Cardinality(live(conn, reg[n], n)) < MAX_LIVE_DUPLEX_PEERS

\* dial_duplex_peer: dials are made one after the other.  Once the handshake is
\* done each end has yet to register its session.
Dialling(n) == \E c \in Conns : conn[c].src = n /\ n \in conn[c].shaking
Dial(n, m) ==
    /\ MayDial(n, m) /\ Admits(m, n) /\ UnusedSlots # {} /\ ~Dialling(n)
    /\ LET c == CHOOSE c \in UnusedSlots : TRUE
       IN  conn' = [conn EXCEPT ![c] = [src |-> n, dst |-> m, up |-> {n, m}, shaking |-> {n, m}]]
    /\ UNCHANGED <<reg, known, waiting, losses>>

DialFails(n, m) ==
    /\ MayDial(n, m) /\ ~Dialling(n)
    /\ \/ ~Admits(m, n) /\ losses' = losses
       \/ losses > 0 /\ losses' = losses - 1
    /\ waiting' = [waiting EXCEPT ![n] = @ \cup {m}]
    /\ UNCHANGED <<conn, reg, known>>

BackoffOver(n, m) ==
    /\ m \in waiting[n]
    /\ waiting' = [waiting EXCEPT ![n] = @ \ {m}]
    /\ UNCHANGED <<conn, reg, known, losses>>

RegisterAt(n, c, addr) ==
    LET done == register_duplex_candidate([conn EXCEPT ![c].shaking = @ \ {n}], reg[n], n, c, addr)
    IN  /\ n \in conn[c].shaking
        /\ conn' = done.cs /\ reg' = [reg EXCEPT ![n] = done.reg]
        /\ UNCHANGED <<known, waiting, losses>>

\* The rest of dial_duplex_peer: registration under the dialled address.
RegisterOutbound(c) == conn[c].src # None /\ RegisterAt(conn[c].src, c, conn[c].dst)

\* start_duplex_listener: the handshake thread registers without an address and
\* gives its admission back.
RegisterInbound(c) == conn[c].dst # None /\ RegisterAt(conn[c].dst, c, None)

\* The ADDR frame that both sides send after registration.
LearnAddress(n, c) ==
    LET m == OtherEnd(conn, c, n)
    IN  /\ n \in conn[c].up /\ m \in conn[c].up /\ conn[c].shaking = {}
        /\ is_live(conn, reg[n][m], n) /\ reg[n][m].c = c /\ reg[n][m].addr # m
        /\ known' = [known EXCEPT ![n] =
              IF Cardinality(@) >= MAX_RUNTIME_PEERS THEN @ ELSE @ \cup {m}]
        /\ reg' = [reg EXCEPT ![n][m].addr = m]
        /\ UNCHANGED <<conn, waiting, losses>>

\* The reader of one end sees that the other end closed.
SeesClose(n, c) ==
    /\ n \in conn[c].up /\ OtherEnd(conn, c, n) \notin conn[c].up
    /\ n \notin conn[c].shaking
    /\ conn' = CloseEnd(conn, c, n)
    /\ UNCHANGED <<reg, known, waiting, losses>>

\* A failed PING evicts the peer.
PingFails(n, c) ==
    /\ losses > 0 /\ losses' = losses - 1
    /\ n \in conn[c].up
    /\ \E m \in live(conn, reg[n], n) : reg[n][m].c = c
    /\ conn' = CloseEnd(conn, c, n)
    /\ UNCHANGED <<reg, known, waiting>>

\* live_duplex_snapshot drops closed sessions.
live_duplex_snapshot(n) ==
    /\ Pruned(conn, reg[n], n) # reg[n]
    /\ reg' = [reg EXCEPT ![n] = Pruned(conn, @, n)]
    /\ UNCHANGED <<conn, known, waiting, losses>>

RegistryNext ==
    \/ \E n, m \in Nodes : Dial(n, m) \/ DialFails(n, m) \/ BackoffOver(n, m)
    \/ \E c \in Conns : RegisterOutbound(c) \/ RegisterInbound(c)
    \/ \E n \in Nodes, c \in Conns : LearnAddress(n, c) \/ SeesClose(n, c) \/ PingFails(n, c)
    \/ \E n \in Nodes : live_duplex_snapshot(n)

RegistrySpec == RegistryInit /\ [][RegistryNext]_registryVars

\* The main loop dials every round, threads run, closes are noticed, backoff
\* passes.  ADDR frames may be lost.
FairRegistry ==
    /\ RegistrySpec
    /\ \A n, m \in Nodes : WF_registryVars(Dial(n, m)) /\ WF_registryVars(BackoffOver(n, m))
    /\ \A c \in Conns : WF_registryVars(RegisterOutbound(c)) /\ WF_registryVars(RegisterInbound(c))
    /\ \A n \in Nodes, c \in Conns : WF_registryVars(SeesClose(n, c))
    /\ \A n \in Nodes : WF_registryVars(live_duplex_snapshot(n))

-----------------------------------------------------------------------------
Connection == [src : Nodes \cup {None}, dst : Nodes \cup {None},
               up : SUBSET Nodes, shaking : SUBSET Nodes]

\* Type invariant: in particular a session is registered under the peer at its
\* other end, and only addresses a node knows wait for their backoff.
RegistryTypeOK ==
    /\ conn \in [Conns -> Connection]
    /\ \A c \in Conns :
          /\ conn[c].up \cup conn[c].shaking \subseteq {conn[c].src, conn[c].dst}
          /\ conn[c].up \cup conn[c].shaking # {} =>
                conn[c].src \in Nodes /\ conn[c].dst \in Nodes /\ conn[c].src # conn[c].dst
    /\ reg \in [Nodes -> [Nodes -> Entry \cup {None}]]
    /\ \A n, m \in Nodes : reg[n][m] # None =>
          LET c == reg[n][m].c IN {conn[c].src, conn[c].dst} = {n, m} /\ n # m
    /\ known \in [Nodes -> SUBSET Nodes] /\ waiting \in [Nodes -> SUBSET Nodes]
    /\ \A n \in Nodes : waiting[n] \subseteq known[n]

\* Every open end past its handshake is the registered session of that peer:
\* whatever loses the election or exceeds a limit was closed, not forgotten.
NoForgottenSession ==
    \A c \in Conns : \A n \in conn[c].up :
        n \notin conn[c].shaking =>
            LET e == reg[n][OtherEnd(conn, c, n)] IN e # None /\ (e # None => e.c = c)

\* No order of dials, handshakes and replacements gets past the limit of live
\* sessions.
LiveLimit == \A n \in Nodes : Cardinality(live(conn, reg[n], n)) <= MAX_LIVE_DUPLEX_PEERS

\* The registry is the set of sessions: an entry is a session with the peer it
\* is filed under, every open session past its handshake is registered, and no
\* more are live than the limit allows.
RegistryMatchesSessions == RegistryTypeOK /\ NoForgottenSession /\ LiveLimit

\* Both ends are up and have registered the same connection.
Linked(n, m) ==
    \E c \in Conns : /\ conn[c].up = {n, m} /\ conn[c].shaking = {}
                     /\ reg[n][m] # None /\ (reg[n][m] # None => reg[n][m].c = c)
                     /\ reg[m][n] # None /\ (reg[m][n] # None => reg[m][n].c = c)

\* Two nodes that dial each other end up with one and the same connection, as
\* the comment on preferred_direction promises, whichever handshakes, closes
\* and registrations overtake each other.
SimultaneousDialsConverge == \A n, m \in Nodes : m \in Known0[n] /\ n # m => <>[]Linked(n, m)

=============================================================================
