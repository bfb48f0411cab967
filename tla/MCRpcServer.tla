---------------------------- MODULE MCRpcServer ----------------------------
\* An offline spend beside a reading call.
EXTENDS RpcServer, TLC
CONSTANTS s, r
Req(m) == [method |-> m, token |-> TRUE, secret |-> FALSE, line |-> "complete"]
SpendAndRead == s :> Req("offline.submit") @@ r :> Req("chain.status")
OwnCoins == [c \in Clients |-> c]
=============================================================================
