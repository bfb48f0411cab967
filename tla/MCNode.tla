------------------------------- MODULE MCNode -------------------------------
(***************************************************************************)
(* The long-running node: its threads and their commits, its registry of    *)
(* peer sessions, and its RPC service.  A behaviour exercises one of them   *)
(* (part); the others rest in their initial state.                          *)
(***************************************************************************)
EXTENDS NodeRuntime, PeerRegistry, RpcServer

CONSTANTS t1, t2,                  \* transactions
          s1, s2, r, x, u, v       \* RPC clients

VARIABLE part

-----------------------------------------------------------------------------
\* Two transactions of one coin on two branches, a heavier branch of the same
\* length, a short one that is heavier still, and one with a double spend that
\* no node may follow.
B(by, up, e, w, t) == [by |-> <<by, e>>, parent |-> up, epoch |-> e, work |-> w, txs |-> t]
GenesisBlock == B("g", <<>>, 0, 1, {})
G == <<<<"g", 0>>>>
B1 == B("b", G, 1, 1, {t2})
C1 == B("c", G, 2, 2, {})
ChainA == <<GenesisBlock, B("a", G, 1, 1, {t1})>>
ChainB == <<GenesisBlock, B1, B("b", Append(G, B1.by), 2, 1, {})>>
ChainC == <<GenesisBlock, C1, B("c", Append(G, C1.by), 3, 2, {t1})>>
ChainD == <<GenesisBlock, B("d", G, 3, 6, {})>>
ChainE == <<GenesisBlock, B("e", G, 1, 7, {t1, t2})>>
Heavier == {ChainA, ChainB, ChainC, ChainD, ChainE}
OneCoin == [t \in Txs |-> "coin"]

\* Two nodes dial a third, which dials one of them; one session at a time.
Dialled == [n \in Nodes |-> IF n = 3 THEN {1} ELSE {3}]
OneAddress == [n \in Nodes |-> "ip"]

\* Two spends, a reading call, a client that stalls, a spend without the token
\* and one with a secret among its parameters; one call at a time.
Req(m, t, l) == [method |-> m, token |-> t, secret |-> FALSE, line |-> l]
Calls == s1 :> Req("offline.submit", TRUE, "complete")
      @@ s2 :> Req("offline.submit", TRUE, "complete")
      @@ r  :> Req("chain.status", TRUE, "complete")
      @@ x  :> Req("chain.status", TRUE, "stalled")
      @@ u  :> Req("offline.submit", FALSE, "complete")
      @@ v  :> [Req("offline.submit", TRUE, "complete") EXCEPT !.secret = TRUE]
OwnCoins == [c \in Clients |-> c]

NodeInit == part \in {"runtime", "registry", "rpc"} /\ Init /\ RegistryInit /\ ServerInit

NodeNext ==
    /\ part' = part
    /\ \/ part = "runtime" /\ Next /\ UNCHANGED <<registryVars, serverVars>>
       \/ part = "registry" /\ RegistryNext /\ UNCHANGED <<vars, serverVars>>
       \/ part = "rpc" /\ ServerNext /\ UNCHANGED <<vars, registryVars>>

NodeSpec == NodeInit /\ [][NodeNext]_<<part, vars, registryVars, serverVars>>
=============================================================================
