----------------------------- MODULE MCEconomy ------------------------------
(***************************************************************************)
(* What moves money and licenses: dividends, purchases with Bitcoin and     *)
(* purchases with native coins.  A behaviour exercises one of them (part);  *)
(* the others rest in their initial state.                                  *)
(***************************************************************************)
EXTENDS NativePurchases, Sequences, TLC

CONSTANTS l1, l2,                            \* licenses
          a1, a2, b1, b2, b3, anchor, p, q,  \* Bitcoin headers, payments
          c1, c2,                            \* coins
          None

VARIABLES part,
          height, epoch, utxos, reserved, accounts, owner_seq, revoked,
          claims, payments, paid, foreign,                \* Dividends
          btc, btcParent, btcTip, btcQueue, btcReorged    \* BitcoinPurchases
dividendVars == <<height, epoch, utxos, reserved, accounts, owner_seq, revoked,
                  claims, payments, paid, foreign>>
bitcoinVars == <<btc, btcParent, btcTip, btcQueue, btcReorged>>

-----------------------------------------------------------------------------
Dividend == INSTANCE Dividends WITH
    Licenses <- {l1, l2}, DIVIDEND_AWARD_INTERVAL <- 3, DIVIDEND_CLAIM_WINDOW <- 2,
    MATURITY <- 1, Income <- 9, Amounts <- {1, 2},
    MaxHeight <- 3, MaxEpoch <- 7, MaxSeq <- 1, MaxQueue <- 2,
    queue <- claims, mempool <- payments

\* Two Bitcoin branches above the anchor, the second with fewer and heavier
\* blocks; payment p is in a block of both, payment q only in the first.
\* Two confirmations, a median of three.
WorkOfHeader(h) == IF h = b1 THEN 2 ELSE 1
TimeOfContext(n) == 0
Bitcoin == INSTANCE BitcoinPurchases WITH
    Headers <- {a1, a2, b1, b2, b3},
    Parent <- (a1 :> anchor @@ b1 :> anchor @@ a2 :> a1 @@ b2 :> b1 @@ b3 :> b2),
    Time <- (a1 :> 1 @@ b1 :> 1 @@ a2 :> 2 @@ b2 :> 2 @@ b3 :> 4),
    Work <- WorkOfHeader, Anchor <- anchor, PACK_J_ANCHOR <- anchor, IsMainnet <- FALSE,
    Payments <- {p, q}, BlocksOf <- (p :> {a1, b2} @@ q :> {a1}), Sats <- (p :> 2 @@ q :> 1),
    Batches <- {<<a1, a2>>, <<b1>>, <<b1, b2, b3>>, <<b2, b3>>},
    REQUIRED_CONFIRMATIONS <- 2, MTP_SPAN <- 3, ContextTime <- TimeOfContext,
    PRICE_STEP <- 1, BTC_SUNSET_EPOCH <- 3, PACK_M_BTC_DISABLE_EPOCH <- 5,
    MaxHeight <- 4, MaxEpoch <- 4,
    st <- btc, parent <- btcParent, tip <- btcTip, queue <- btcQueue, reorged <- btcReorged

EconomyInit == /\ part \in {"dividends", "bitcoin", "native"}
               /\ Dividend!Init /\ Bitcoin!Init /\ Init

EconomyNext ==
    /\ part' = part
    /\ \/ part = "dividends" /\ Dividend!Next /\ UNCHANGED <<bitcoinVars, vars>>
       \/ part = "bitcoin" /\ Bitcoin!Next /\ UNCHANGED <<dividendVars, vars>>
       \/ part = "native" /\ Next /\ UNCHANGED <<dividendVars, bitcoinVars>>

EconomySpec == EconomyInit /\ [][EconomyNext]_<<part, dividendVars, bitcoinVars, vars>>
Symmetry == Permutations({l1, l2}) \cup Permutations({c1, c2})

-----------------------------------------------------------------------------
\* What licenses may still claim is what the Treasury holds in reserve, and what
\* the Treasury received is there or was paid out against a claim.
TreasuryIsWhole ==
    Dividend!TypeOK /\ Dividend!ReserveIsBacked /\ Dividend!TreasuryConserved

\* Only a block of a peer can make the claims queued here unminable.
OwnClaimsAreMinable == Dividend!OwnClaimsAreMinable

\* A Bitcoin payment buys its licenses exactly once on every branch, also when it
\* is proved from two Bitcoin blocks, and the node that queued headers and a
\* purchase can always mine.
BitcoinBuysOnce ==
    Bitcoin!TypeOK /\ Bitcoin!PaymentBuysOnce /\ Bitcoin!OwnBundleNeverBlocksMining
=============================================================================
