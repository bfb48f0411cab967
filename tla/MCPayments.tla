----------------------------- MODULE MCPayments -----------------------------
(***************************************************************************)
(* Payments: the ledger with its mempool, its miner and its validator, and  *)
(* the offline spends that go through request and signature files.  A       *)
(* behaviour exercises one of them (part).                                  *)
(***************************************************************************)
EXTENDS Integers, TLC

CONSTANTS o1, o2,             \* owners of the ledger
          k1, k2, k3, l1, l2  \* owners of the offline spends, licenses

VARIABLES part, st, foreign,
          chain, peer, owner, requests, signed, damaged, via
ledgerVars == <<st, foreign>>
offlineVars == <<chain, peer, owner, requests, signed, damaged, via>>
vars == <<part, ledgerVars, offlineVars>>

\* A reward matures two blocks later, so the rewards of the first two blocks can
\* be spent in the third and the fourth, and their change in the fourth; the
\* subsidy halves within the run and the Base Fee reaches both ends of its range.
Payment == INSTANCE Ledger WITH
    Owners <- {o1, o2}, Amounts <- {3},
    REWARD <- 8, ERA_LENGTH <- 3, COINBASE_MATURITY <- 2,
    BASE_FEE_MIN <- 2, BASE_FEE_MAX <- 4, FEE_DAMPING <- 1,
    BLOCK_WEIGHT_TARGET <- 1, BLOCK_WEIGHT_MAX <- 2, MAX_MEMPOOL <- 2,
    MaxHeight <- 4, MaxEpoch <- 4

\* Two licenses and three keys, one of which owns no license at first.  Requests
\* are made, signed and submitted across three blocks, so a horizon of one block
\* passes while the coins are still unspent, and a block of two transactions
\* raises the Base Fee above the smaller of the two fee limits.
Offline == INSTANCE OfflineSpend WITH
    Owners <- {k1, k2, k3}, Licenses <- {l1, l2}, InitOwner <- (l1 :> k1 @@ l2 :> k2),
    Amounts <- {2}, Payments <- {<<l1, l2>>}, MaxFees <- {1, 4},
    REWARD <- 8, ERA_LENGTH <- 9, COINBASE_MATURITY <- 1,
    BASE_FEE_MIN <- 1, BASE_FEE_MAX <- 2, FEE_DAMPING <- 1,
    BLOCK_WEIGHT_TARGET <- 1, BLOCK_WEIGHT_MAX <- 2, MAX_MEMPOOL <- 2,
    OFFLINE_SPEND_MAX_SUBMIT_BLOCKS <- 1, MARKER <- 1, MaxFiles <- 2, MaxDamage <- 1,
    MaxHeight <- 3, MaxEpoch <- 3,
    st <- chain, foreign <- peer

Init == part \in {"ledger", "offline"} /\ Payment!Init /\ Offline!OfflineInit

Next == /\ part' = part
        /\ \/ part = "ledger" /\ Payment!Next /\ UNCHANGED offlineVars
           \/ part = "offline" /\ Offline!OfflineNext /\ UNCHANGED ledgerVars

Spec == Init /\ [][Next]_vars
Symmetry == Permutations({o1, o2})

-----------------------------------------------------------------------------
\* Coins are neither made nor spent twice: the unspent outputs sum to what the
\* subsidies issued, no transaction is confirmed twice or waits again after its
\* confirmation, and no two of the mempool spend one output.
CoinsAreConserved ==
    /\ Payment!TypeOK /\ Payment!SupplyIsIssued
    /\ Payment!ConfirmedOnce
    /\ Payment!MempoolConflictFree

\* The block the miner builds is accepted by every validator.
ConstructorAgreesWithValidator == Payment!ConstructorAgreesWithValidator

\* An amount can be sent exactly when it is within the balance shown as spendable.
SpendableIsSendable == Payment!SpendableIsSendable

\* Only a block of a peer can make the mempool unminable.
OwnStepsKeepMempoolReady == Payment!OwnStepsKeepMempoolReady

\* A submitted request pays the present owners of the licenses.
SubmissionPaysPresentOwners == Offline!SubmissionPaysPresentOwners
=============================================================================
