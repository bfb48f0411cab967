----------------------------- MODULE MCWorkers ------------------------------
(***************************************************************************)
(* The worker service: the budget ledger of one command and its crashes     *)
(* (WorkerLedger), commands that share the stored chain and the ledger file *)
(* (WorkerService), and the handshake of workers with nodes.  A behaviour   *)
(* exercises one of them (part); the others rest in their initial state.    *)
(***************************************************************************)
EXTENDS WorkerLedger, WorkerHandshake, WorkerService, TLC

CONSTANTS c1, c2, c3,                \* commands
          r1, r2, r3, k1, k2, n1, n2 \* runs of workers, their keys, nodes

VARIABLE part

-----------------------------------------------------------------------------
\* Three commands, one after the other, beside a node that mines.
InTurn ==
    /\ (Running = {} /\ Launches) \/ Moves
    /\ \A k \in DOMAIN disk'.chain : disk'.chain[k].op = "none"

\* Two commands at a time (the third is not launched), beside a node that also
\* rotates the mining key.
AtATime ==
    \/ /\ \E c, d \in Cmd : c # d /\ cmd[c].pc = "new" /\ cmd[d].pc = "new"
       /\ Launches
    \/ Moves

\* Two nodes and three runs: two with one key, one of which is paired with the
\* other node, and one with a key that only the other node allows.
Keys == r1 :> k1 @@ r2 :> k1 @@ r3 :> k2
Pairing == r1 :> n1 @@ r2 :> n2 @@ r3 :> n1
Allowlists == n1 :> {k1} @@ n2 :> {k1, k2}

Resting == <<CHOOSE b \in Branch : TRUE, CHOOSE t \in TicketKey : TRUE,
             CHOOSE a \in Assignment : TRUE>>

WorkersInit ==
    /\ Init /\ HandshakeInit /\ ServiceInit
    /\ part \in {"ledger", "in turn", "at a time", "handshake"}
    /\ part = "ledger" \/ <<branch, ticket, assignment>> = Resting

WorkersNext ==
    /\ part' = part
    /\ \/ part = "ledger" /\ Next /\ UNCHANGED <<serviceVars, handshakeVars>>
       \/ part = "in turn" /\ InTurn /\ UNCHANGED <<vars, handshakeVars>>
       \/ part = "at a time" /\ AtATime /\ UNCHANGED <<vars, handshakeVars>>
       \/ part = "handshake" /\ HandshakeNext /\ UNCHANGED <<vars, serviceVars>>

WorkersSpec == WorkersInit /\ [][WorkersNext]_<<part, vars, serviceVars, handshakeVars>>

WorkersSymmetry == Permutations({c1, c2, c3})
=============================================================================
