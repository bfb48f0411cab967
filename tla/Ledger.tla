------------------------------- MODULE Ledger -------------------------------
(***************************************************************************)
(* The transaction ledger of one node: unspent outputs, the mempool, block *)
(* construction (mine_epoch_with_signer and                                *)
(* accept_dev_block_with_signer_and_operations), block validation          *)
(* (validate_and_apply_block) and the admission of transactions from the   *)
(* wallet and from peers.  A transaction identifier is a hash of the       *)
(* transaction, so a transaction stands for its own identifier here.       *)
(* Every transaction weighs one unit; the coinbase weighs nothing, so the  *)
(* weight of a block is the number of its ordinary transactions.           *)
(***************************************************************************)
EXTENDS Integers, FiniteSetsExt, SequencesExt

CONSTANTS
    Owners,          \* payment addresses of the Mining Licenses
    Amounts,         \* amounts a wallet command may send
    REWARD,          \* 8 MUT, the subsidy of era 0
    ERA_LENGTH,
    COINBASE_MATURITY,
    BASE_FEE_MIN, BASE_FEE_MAX,
    BLOCK_WEIGHT_TARGET, BLOCK_WEIGHT_MAX,
    FEE_DAMPING,     \* 64, the divisor of the Base Fee step
    MAX_MEMPOOL,     \* MAX_NETWORK_MEMPOOL_TXS
    MaxHeight,       \* bound on the chain
    MaxEpoch         \* bound on the epochs

VARIABLES
    st,              \* the chain state: the ledger fields of DevnetState
    foreign          \* the last step applied a block made by a peer
vars == <<st, foreign>>

-----------------------------------------------------------------------------
(* Transactions, outputs, fees.                                            *)

Treasury == "treasury"
Output(amount, owner) == [amount |-> amount, owner |-> owner]
TxOf(kind, at, ins, outs) == [kind |-> kind, at |-> at, ins |-> ins, outs |-> outs]
Amount(u) == u.tx.outs[u.ix].amount
OwnerOf(u) == u.tx.outs[u.ix].owner
Outpoint(u) == <<u.tx, u.ix>>
InputValue(us) == MapThenSumSet(Amount, us)
OutputValue(tx) == MapThenSumSet(LAMBDA i : tx.outs[i].amount, DOMAIN tx.outs)

add_outputs_as_utxos(tx, height) ==
    {[tx |-> tx, ix |-> i, height |-> height] : i \in DOMAIN tx.outs}

spendable_at_height(u, height) ==
    u.tx.kind = "coinbase" => height >= u.height + COINBASE_MATURITY

subsidy(epoch) == IF epoch \div ERA_LENGTH >= 64 THEN 0
                  ELSE REWARD \div 2 ^ (epoch \div ERA_LENGTH)

required_base_fee(rate) == rate

adjusted_base_fee_rate(current, weight) ==
    LET delta(d) == (current * d) \div (FEE_DAMPING * BLOCK_WEIGHT_TARGET)
    IN  IF weight > BLOCK_WEIGHT_TARGET
        THEN Min({current + delta(weight - BLOCK_WEIGHT_TARGET), BASE_FEE_MAX})
        ELSE Max({current - delta(BLOCK_WEIGHT_TARGET - weight), BASE_FEE_MIN})

block_body_weight(txs) == Len(txs)

mempool_reserved_inputs(s) == UNION {tx.ins : tx \in Range(s.mempool)}

next_mineable_epoch(s) == s.tip_epoch + 1

-----------------------------------------------------------------------------
(* validate_and_apply_mempool: every transaction in order against a working *)
(* copy of the unspent outputs; one refusal refuses the whole list.         *)

Spent(tx, utxos) == {u \in utxos : Outpoint(u) \in tx.ins}

TxValid(tx, utxos, rate, epoch, height) ==
    /\ epoch >= tx.at
    /\ tx.ins # {} /\ tx.outs # <<>>
    /\ Cardinality(Spent(tx, utxos)) = Cardinality(tx.ins)
    /\ \A u \in Spent(tx, utxos) :
          spendable_at_height(u, height) /\ OwnerOf(u) # Treasury
    /\ \A i \in DOMAIN tx.outs : tx.outs[i].amount > 0 /\ tx.outs[i].owner # Treasury
    /\ InputValue(Spent(tx, utxos)) - OutputValue(tx) >= required_base_fee(rate)

ApplyTx(w, tx, rate, epoch, height) ==
    IF ~w.ok \/ ~TxValid(tx, w.utxos, rate, epoch, height)
    THEN [w EXCEPT !.ok = FALSE]
    ELSE LET spent == Spent(tx, w.utxos)
         IN  [ok    |-> TRUE,
              utxos |-> (w.utxos \ spent) \cup add_outputs_as_utxos(tx, height),
              fees  |-> w.fees + InputValue(spent) - OutputValue(tx),
              share |-> w.share + required_base_fee(rate) \div 2]

validate_and_apply_mempool(s, txs, epoch, height) ==
    FoldLeft(LAMBDA w, tx : ApplyTx(w, tx, s.base_fee_rate, epoch, height),
             [ok |-> TRUE, utxos |-> s.utxos, fees |-> 0, share |-> 0], txs)

-----------------------------------------------------------------------------
(* The block a miner builds and the block a node accepts.                  *)

CoinbaseShareTwice(epoch, height, miner, w) ==
    TxOf("coinbase", epoch, {<<"null outpoint", height>>},
         <<Output(subsidy(epoch) + w.fees, miner)>>
         \o IF w.share > 0 THEN <<Output(w.share, Treasury)>> ELSE <<>>)

Coinbase(epoch, height, miner, w) ==
    TxOf("coinbase", epoch, {<<"null outpoint", height>>},
         <<Output(subsidy(epoch) + w.fees - w.share, miner)>>
         \o IF w.share > 0 THEN <<Output(w.share, Treasury)>> ELSE <<>>)

\* The state after a block of the transactions txs whose validation gave w.
CommitKeepingMempool(s, epoch, txs, cb, w) ==
    [s EXCEPT !.height = @ + 1,
              !.tip_epoch = epoch,
              !.issued = @ + subsidy(epoch),
              !.base_fee_rate = adjusted_base_fee_rate(@, block_body_weight(txs)),
              !.utxos = w.utxos \cup add_outputs_as_utxos(cb, s.height + 1),
              !.confirmed = @ \o txs]

Commit(s, epoch, txs, cb, w) ==
    [s EXCEPT !.height = @ + 1,
              !.tip_epoch = epoch,
              !.issued = @ + subsidy(epoch),
              !.base_fee_rate = adjusted_base_fee_rate(@, block_body_weight(txs)),
              !.utxos = w.utxos \cup add_outputs_as_utxos(cb, s.height + 1),
              !.mempool = SelectSeq(@, LAMBDA tx : tx \notin Range(txs)),
              !.confirmed = @ \o txs]

advance_empty_epochs(s, through) ==
    IF through <= s.tip_epoch THEN s ELSE [s EXCEPT !.tip_epoch = through]

Refused == [ok |-> FALSE]

\* accept_dev_block_with_signer_and_operations: the whole mempool goes in.
accept_dev_block(s, epoch, miner) ==
    LET w == validate_and_apply_mempool(s, s.mempool, epoch, s.height + 1)
        cb == Coinbase(epoch, s.height + 1, miner, w)
    IN  IF ~w.ok \/ block_body_weight(s.mempool) > BLOCK_WEIGHT_MAX THEN Refused
        ELSE [ok |-> TRUE, state |-> Commit(s, epoch, s.mempool, cb, w),
              block |-> [epoch |-> epoch, parent |-> s.height, miner |-> miner,
                         coinbase |-> cb, txs |-> s.mempool]]

ValidatorKeepsMempool(s, b) ==
    LET n == advance_empty_epochs(s, b.epoch - 1)
        w == validate_and_apply_mempool(n, b.txs, b.epoch, n.height + 1)
    IN  IF b.epoch > s.tip_epoch /\ b.parent = s.height /\ w.ok
        THEN [ok |-> TRUE,
              state |-> CommitKeepingMempool(n, b.epoch, b.txs, b.coinbase, w)]
        ELSE Refused

\* validate_and_apply_block: nothing changes unless every check passes.
validate_and_apply_block(s, b) ==
    LET n == advance_empty_epochs(s, b.epoch - 1)
        w == validate_and_apply_mempool(n, b.txs, b.epoch, n.height + 1)
    IN  IF /\ b.epoch > s.tip_epoch /\ b.parent = s.height
           /\ block_body_weight(b.txs) <= BLOCK_WEIGHT_MAX
           /\ w.ok
           /\ b.coinbase = Coinbase(b.epoch, n.height + 1, b.miner, w)
        THEN [ok |-> TRUE, state |-> Commit(n, b.epoch, b.txs, b.coinbase, w)]
        ELSE Refused

-----------------------------------------------------------------------------
(* The wallet: create_send_transaction_with_signer.                        *)

Candidates(s, from) ==
    {u \in s.utxos : /\ OwnerOf(u) = from
                     /\ spendable_at_height(u, s.height + 1)
                     /\ Outpoint(u) \notin mempool_reserved_inputs(s)}

SelectionsForgettingFee(s, from, amount) ==
    LET c == Candidates(s, from)
    IN  {us \in SUBSET c :
            /\ InputValue(us) >= amount
            /\ \E last \in us :
                  /\ InputValue(us \ {last}) < amount
                  /\ \A u \in us : u.height <= last.height
                  /\ \A u \in c \ us : u.height >= last.height}

\* Oldest outputs first (outputs of one height in the order of their hashes,
\* which the model leaves open) until they cover the amount and its fee.
Selections(s, from, amount) ==
    LET need == amount + required_base_fee(s.base_fee_rate)
        c == Candidates(s, from)
    IN  {us \in SUBSET c :
            /\ InputValue(us) >= need
            /\ \E last \in us :
                  /\ InputValue(us \ {last}) < need
                  /\ \A u \in us : u.height <= last.height
                  /\ \A u \in c \ us : u.height >= last.height}

create_send_transaction(s, from, to, amount) ==
    {LET change == InputValue(us) - amount - required_base_fee(s.base_fee_rate)
     IN  TxOf("send", next_mineable_epoch(s), {Outpoint(u) : u \in us},
              <<Output(amount, to)>>
              \o IF change > 0 THEN <<Output(change, from)>> ELSE <<>>) :
        us \in Selections(s, from, amount)}

BalanceForgettingMempool(s, owner) ==
    LET mine == {u \in s.utxos : OwnerOf(u) = owner}
        ripe == {u \in mine : spendable_at_height(u, s.height + 1)}
        held == {u \in mine : Outpoint(u) \in mempool_reserved_inputs(s)}
    IN  [total |-> InputValue(mine), reserved |-> InputValue(held),
         spendable |-> InputValue(ripe), immature |-> InputValue(mine \ ripe)]

\* print_balances: each output of the owner counts once.
Balance(s, owner) ==
    LET mine == {u \in s.utxos : OwnerOf(u) = owner}
        ripe == {u \in mine : spendable_at_height(u, s.height + 1)}
        held == {u \in mine : Outpoint(u) \in mempool_reserved_inputs(s)}
    IN  [total |-> InputValue(mine), reserved |-> InputValue(held),
         spendable |-> InputValue(ripe \ held),
         immature |-> InputValue(mine \ (ripe \cup held))]

rpc_balances(s) == [o \in Owners |-> Balance(s, o)]

\* validate_pending_candidate: the transaction joins a copy of the whole
\* mempool, and all of it is validated for the next block.
Known(s, tx) == tx \in Range(s.mempool) \cup Range(s.confirmed)

validate_pending_candidate(s, tx) ==
    /\ ~Known(s, tx)
    /\ validate_and_apply_mempool(s, Append(s.mempool, tx),
                                  next_mineable_epoch(s), s.height + 1).ok

validate_received_pending(s, tx) ==
    /\ Len(s.mempool) < MAX_MEMPOOL \/ Known(s, tx)
    /\ validate_pending_candidate(s, tx)

-----------------------------------------------------------------------------
Init ==
    /\ st = [height |-> 0, tip_epoch |-> 0, issued |-> 0,
             base_fee_rate |-> BASE_FEE_MIN, utxos |-> {},
             mempool |-> <<>>, confirmed |-> <<>>]
    /\ foreign = FALSE

\* A wallet command: build, sign, push to the mempool, save.
Send(from, to, amount) ==
    /\ amount > 0
    /\ \E tx \in create_send_transaction(st, from, to, amount) :
          st' = [st EXCEPT !.mempool = Append(@, tx)]
    /\ foreign' = FALSE

\* What other wallets may have built on this chain state with their own
\* mempools, of which they share nothing with ours but the chain.
PeerTxs == UNION {create_send_transaction([st EXCEPT !.mempool = <<>>], f, t, a) :
                     f \in Owners, t \in Owners, a \in Amounts}

\* process_duplex_tx_announce: an announced transaction is fetched and admitted.
ReceiveTx(tx) ==
    /\ validate_received_pending(st, tx)
    /\ st' = [st EXCEPT !.mempool = Append(@, tx)]
    /\ foreign' = FALSE

\* mine_epoch_with_signer with a winning ticket; a refused candidate changes nothing.
MineWin(miner) ==
    /\ st.tip_epoch < MaxEpoch /\ st.height < MaxHeight
    /\ LET r == accept_dev_block(st, next_mineable_epoch(st), miner)
       IN  r.ok /\ st' = r.state
    /\ foreign' = FALSE

\* mine_epoch_with_signer without one: the epoch is recorded as empty.
MineEmpty ==
    /\ st.tip_epoch < MaxEpoch
    /\ st' = advance_empty_epochs(st, next_mineable_epoch(st))
    /\ foreign' = FALSE

\* A block some other miner built on our tip from a mempool of its own.
PeerBlock(txs, epoch, miner) ==
    LET w == validate_and_apply_mempool(st, txs, epoch, st.height + 1)
    IN  [epoch |-> epoch, parent |-> st.height, miner |-> miner, txs |-> txs,
         coinbase |-> Coinbase(epoch, st.height + 1, miner, w)]

ReceiveBlock(txs, epoch, miner) ==
    /\ st.height < MaxHeight
    /\ LET r == validate_and_apply_block(st, PeerBlock(txs, epoch, miner))
       IN  r.ok /\ st' = r.state
    /\ foreign' = TRUE

Next ==
    \/ \E f \in Owners, t \in Owners, a \in Amounts : Send(f, t, a)
    \/ \E tx \in PeerTxs : ReceiveTx(tx)
    \/ \E m \in Owners : MineWin(m)
    \/ MineEmpty
    \/ \E txs \in SeqOf(PeerTxs \cup Range(st.mempool), BLOCK_WEIGHT_MAX),
          e \in (st.tip_epoch + 1)..MaxEpoch, m \in Owners : ReceiveBlock(txs, e, m)

Spec == Init /\ [][Next]_vars

-----------------------------------------------------------------------------
\* Type invariant: in particular the base fee rate stays between its limits
\* (adjusted_base_fee_rate clamps it) and no output is from a later block.
TypeOK ==
    /\ DOMAIN st = {"height", "tip_epoch", "issued", "base_fee_rate", "utxos",
                    "mempool", "confirmed"}
    /\ st.height \in 0..MaxHeight /\ st.tip_epoch \in 0..MaxEpoch
    /\ st.issued \in Nat /\ st.base_fee_rate \in BASE_FEE_MIN..BASE_FEE_MAX
    /\ \A u \in st.utxos : u.height \in 1..st.height /\ u.ix \in DOMAIN u.tx.outs
    /\ foreign \in BOOLEAN

\* check_state's supply rule: fees, the Treasury share of the Base Fee, change
\* and coinbases move value but never make or lose any, whoever built the
\* blocks: the unspent outputs always sum to what the subsidies issued.
SupplyIsIssued == InputValue(st.utxos) = st.issued

\* A transaction is confirmed at most once and leaves the mempool with its
\* confirmation, whether the local miner or a peer put it in a block, so a
\* late announcement cannot bring it back.
ConfirmedOnce ==
    /\ \A i, j \in DOMAIN st.confirmed : i # j => st.confirmed[i] # st.confirmed[j]
    /\ Range(st.mempool) \cap Range(st.confirmed) = {}

\* mempool_reserved_inputs and validate_pending_candidate together: no two
\* waiting transactions spend the same output, whatever mixture of wallet
\* commands and announcements filled the mempool.
MempoolConflictFree ==
    \A i, j \in DOMAIN st.mempool :
        i # j => st.mempool[i].ins \cap st.mempool[j].ins = {}

\* The whole mempool would go into the next block.
MempoolReady == validate_and_apply_mempool(st, st.mempool, next_mineable_epoch(st),
                                           st.height + 1).ok

\* accept_dev_block takes the mempool whole and fails when one transaction is
\* invalid.  Only a peer's block can bring that about (by spending an input of
\* a waiting transaction or raising the Base Fee under it): no wallet command,
\* no admitted announcement and no block of our own leaves the local miner
\* unable to build the next block.
OwnStepsKeepMempoolReady == [][MempoolReady /\ ~foreign' => MempoolReady']_vars

\* stage_mainnet_mining_attempt's cross-check: the block the miner builds is
\* accepted by the validator of every node that has the same parent, and the
\* two arrive at the same state.
ConstructorAgreesWithValidator ==
    \A m \in Owners :
        LET r == accept_dev_block(st, next_mineable_epoch(st), m)
        IN  r.ok => validate_and_apply_block(st, r.block) = [ok |-> TRUE, state |-> r.state]

\* wallet.balances answers from one piece of code and wallet-send selects coins
\* with another: an amount can be sent exactly when it and its fee are within
\* the balance shown as spendable, and the parts of a balance make up its total,
\* whatever waits in the mempool and whatever has not matured.
SpendableIsSendable ==
    \A o \in Owners :
        LET b == rpc_balances(st)[o]
        IN  /\ b.spendable + b.immature + b.reserved = b.total
            /\ \A t \in Owners, a \in Amounts :
                  b.spendable >= a + required_base_fee(st.base_fee_rate)
                  <=> create_send_transaction(st, o, t, a) # {}

=============================================================================
