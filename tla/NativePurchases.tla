-------------------------- MODULE NativePurchases ---------------------------
(***************************************************************************)
(* Mining Licenses bought with MUT: a bundle of a transaction with one     *)
(* LICENSE_PAYMENT output and the protocol operation that turns the output *)
(* into licenses.  The bundle waits in mempool and queue, is mined here or *)
(* elsewhere, and returns after a reorganization.  A payment is identified *)
(* with its transaction; it spends one output (a coin) of the wallet.      *)
(***************************************************************************)
EXTENDS Integers, FiniteSets, FiniteSetsExt

CONSTANTS
    Coins,                 \* outputs of the local wallet, each worth CoinValue
    CoinValue, Fee, Counts,
    REWARD, ERA_LENGTH,    \* subsidy
    ACTIVATION_DELAY_EPOCHS,
    MaxLicenses,           \* 255, keys of the deterministic wallet
    MaxHeight, MaxEpoch, MaxQueue

ASSUME NativeAssumption ==
    /\ Counts \subseteq Nat /\ ACTIVATION_DELAY_EPOCHS \in Nat
    /\ MaxHeight \in Nat \ {0} /\ MaxEpoch \in Nat

VARIABLES
    st,           \* the canonical state
    parent, tip,  \* what it was before, and right after the tip block
    mempool,      \* payment transactions
    queue,        \* purchase operations
    reorged
vars == <<st, parent, tip, mempool, queue, reorged>>

\* Bootstrap: one license that is not active yet.
Genesis == [height |-> 1, epoch |-> 0,
            licenses |-> {[pay |-> <<0>>, index |-> 1, issued |-> 0,
                           activation |-> ACTIVATION_DELAY_EPOCHS]},
            spent |-> {}, payments |-> {}, consumed |-> {}]

subsidy(epoch) == REWARD \div (2 ^ (epoch \div ERA_LENGTH))
price_each(epoch) == Max({subsidy(epoch), 1})

is_eligible(l, epoch) == epoch >= l.activation

\* next_mineable_epoch: while no license is active the clock jumps to the
\* next activation.
next_mineable_epoch(s) ==
    LET later == {l.activation : l \in {l \in s.licenses : l.activation > s.epoch}}
    IN  IF (\E l \in s.licenses : is_eligible(l, s.epoch + 1)) \/ later = {} THEN s.epoch + 1
        ELSE Min(later)

-----------------------------------------------------------------------------
(* Purchases.                                                              *)

Tx(coin, epoch, n, paid) == [txid |-> <<coin, epoch, n>>, coin |-> coin, paid |-> paid]
Op(tx, n) == [pay |-> tx.txid, count |-> n]

mempool_reserved_inputs == {t.coin : t \in mempool}

pending_native_license_count ==
    MapThenSumSet(LAMBDA op : op.count,
                  {op \in queue : \E t \in mempool : t.txid = op.pay})

\* One bundle in a block on state s: the transaction, then the operation.
TxValid(s, t) == t.coin \notin s.spent

OpValid(s, txs, op, epoch) ==
    /\ op.pay \notin s.consumed
    /\ \E t \in txs : t.txid = op.pay /\ t.paid >= price_each(epoch) * op.count
    /\ ~ \E l \in s.licenses : l.pay = op.pay

AtMostOneReference(txs, ops) ==
    \A t \in txs : Cardinality({op \in ops : op.pay = t.txid}) <= 1

\* Every LICENSE_PAYMENT output of the block is referenced by exactly one
\* operation.
EveryPaymentReferenced(txs, ops) ==
    \A t \in txs : Cardinality({op \in ops : op.pay = t.txid}) = 1

apply_protocol_operations(s, txs, ops, epoch) ==
    [s EXCEPT
        !.licenses = @ \cup UNION {{[pay |-> op.pay, index |-> i, issued |-> epoch,
                                     activation |-> epoch + ACTIVATION_DELAY_EPOCHS] :
                                       i \in 1..op.count} : op \in ops},
        !.consumed = @ \cup {op.pay : op \in ops}]

BlockValid(s, txs, ops, epoch) ==
    /\ epoch > s.epoch
    /\ \E l \in s.licenses : is_eligible(l, epoch)
    /\ \A t \in txs : TxValid(s, t)
    /\ \A t, u \in txs : t.coin = u.coin => t = u
    /\ \A op \in ops : OpValid(s, txs, op, epoch)
    /\ EveryPaymentReferenced(txs, ops)

AfterBlock(s, txs, ops, epoch) ==
    [apply_protocol_operations(s, txs, ops, epoch) EXCEPT
        !.height = @ + 1, !.epoch = epoch,
        !.spent = @ \cup {t.coin : t \in txs},
        !.payments = @ \cup {t.txid : t \in txs}]

\* Operations whose transaction is in the mempool, with those transactions.
SelectedOps == {op \in queue : \E t \in mempool : t.txid = op.pay}
selected_block_mempool == {t \in mempool : \E op \in SelectedOps : op.pay = t.txid}

-----------------------------------------------------------------------------
Init == /\ st = Genesis /\ parent = Genesis /\ tip = Genesis
        /\ mempool = {} /\ queue = {} /\ reorged = FALSE

\* license-buy-mut and wallet-license-buy-mut
BuyLicenses(coin, n) ==
    LET e == next_mineable_epoch(st)
        t == Tx(coin, e, n, price_each(e) * n)
    IN  /\ Cardinality(queue) < MaxQueue
        /\ Cardinality(st.licenses) + pending_native_license_count + n <= MaxLicenses
        /\ coin \notin st.spent \cup mempool_reserved_inputs
        /\ price_each(e) * n + Fee <= CoinValue
        /\ mempool' = mempool \cup {t}
        /\ queue' = queue \cup {Op(t, n)}
        /\ reorged' = FALSE
        /\ UNCHANGED <<st, parent, tip>>

Connect(s) ==
    /\ st' = s /\ tip' = s /\ parent' = tip
    /\ mempool' = {t \in mempool : t.txid \notin s.payments}
    /\ queue' = {op \in queue : op.pay \notin s.consumed}
    /\ reorged' = FALSE

MineLocal ==
    LET e == next_mineable_epoch(st)
    IN  /\ st.height < MaxHeight /\ e <= MaxEpoch
        /\ BlockValid(st, selected_block_mempool, SelectedOps, e)
        /\ Connect(AfterBlock(st, selected_block_mempool, SelectedOps, e))

AdvanceEmpty ==
    /\ st.epoch < MaxEpoch
    /\ st' = [st EXCEPT !.epoch = @ + 1]
    /\ reorged' = FALSE
    /\ UNCHANGED <<parent, tip, mempool, queue>>

\* Blocks of peers: any part of our bundles (mined on our other machines or
\* cut apart on the way), or another spend of one of our coins.
PeerBlocks(s) ==
    LET e == next_mineable_epoch(s)
        states == {AfterBlock(s, b[1], b[2], e) :
                     b \in {b \in (SUBSET mempool) \X (SUBSET queue) : BlockValid(s, b[1], b[2], e)}}
        spends == {[AfterBlock(s, {}, {}, e) EXCEPT !.spent = @ \cup {c}] : c \in Coins \ s.spent}
    IN  IF BlockValid(s, {}, {}, e) /\ e <= MaxEpoch THEN states \cup spends ELSE {}

ReceiveBlock ==
    /\ st.height < MaxHeight
    /\ \E s \in PeerBlocks(st) : Connect(s)

\* restore_reorg_mempool: transactions of the old mempool and of disconnected
\* blocks that are neither confirmed nor double spent on the new branch, and
\* the operations whose transaction came back.
Disconnected ==
    {[tx |-> [txid |-> p, coin |-> p[1], paid |-> 0], op |-> [pay |-> p, count |-> p[3]]] :
        p \in tip.payments \ parent.payments}

RestoredTxs(s, txs) == {t \in txs : t.txid \notin s.payments /\ TxValid(s, t)}
RestoredOpsOfQueueOnly(s, ops, txs) ==
    {op \in queue : op.pay \notin s.consumed /\ \E t \in txs : t.txid = op.pay}
RestoredOps(s, ops, txs) ==
    {op \in ops : op.pay \notin s.consumed /\ \E t \in txs : t.txid = op.pay}

\* The exact transaction as it was confirmed (its price is that of its epoch).
Original(t) == [t EXCEPT !.paid = price_each(t.txid[2]) * t.txid[3]]

Reorg ==
    /\ tip # parent /\ st.height < MaxHeight
    /\ \E s1 \in PeerBlocks(parent) : \E s2 \in PeerBlocks(s1) :
          LET txs == RestoredTxs(s2, mempool \cup {Original(b.tx) : b \in Disconnected})
          IN  /\ s1 # tip
              /\ st' = s2 /\ tip' = s2 /\ parent' = s1
              /\ mempool' = txs
              /\ queue' = RestoredOps(s2, queue \cup {b.op : b \in Disconnected}, txs)
    /\ reorged' = TRUE

Next ==
    \/ \E c \in Coins, n \in Counts : BuyLicenses(c, n)
    \/ MineLocal
    \/ AdvanceEmpty
    \/ ReceiveBlock
    \/ Reorg

Spec == Init /\ [][Next]_vars

-----------------------------------------------------------------------------
Bundles == {[tx |-> t, op |-> o] : t \in mempool, o \in queue}
WholeBundles == {b \in Bundles : b.op.pay = b.tx.txid}

\* Type invariant: in particular no two mempool transactions spend one coin
\* (mempool_reserved_inputs).
TypeOK ==
    /\ st.height \in 1..MaxHeight /\ st.epoch \in 0..MaxEpoch
    /\ st.spent \subseteq Coins
    /\ \A t, u \in mempool : t.coin = u.coin => t = u
    /\ reorged \in BOOLEAN

\* No payment is on the chain without its licenses and no license without its
\* payment, on every branch and after every reorganization.
LicensesMatchPayments ==
    /\ st.payments = st.consumed
    /\ \A p \in st.payments : {l.index : l \in {l \in st.licenses : l.pay = p}} = 1..p[3]

\* A reorganization loses no purchase: whatever was queued or confirmed and
\* still can be mined on the new branch is in the queue with its payment.
NoPurchaseLost ==
    [][reorged' => \A b \in WholeBundles \cup Disconnected :
          b.op.pay \notin st'.payments /\ b.tx.coin \notin st'.spent
              => b.op \in queue' /\ \E t \in mempool' : t.txid = b.op.pay]_vars

\* While the licenses of the bootstrap are not active yet the epoch moves to
\* the first activation, so that in the next mineable epoch somebody can mine.
SomeoneCanMineNext == \E l \in st.licenses : is_eligible(l, next_mineable_epoch(st))

\* Whatever is bought, mined, received and reorganized: payments and licenses
\* match, and the chain can go on.
PurchasesAreWhole == TypeOK /\ LicensesMatchPayments /\ SomeoneCanMineNext
=============================================================================
