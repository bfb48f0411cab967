-------------------------- MODULE BitcoinPurchases --------------------------
(***************************************************************************)
(* Authenticated Bitcoin headers inside the Mutiny state, and Mining       *)
(* Licenses bought with Bitcoin: header batches and purchases are protocol *)
(* operations; Bitcoin itself forks under them and Mutiny blocks are       *)
(* reorganized above them.  The Bitcoin block tree is a constant; what     *)
(* varies is how much of it the chain has authenticated.                   *)
(***************************************************************************)
EXTENDS Integers, FiniteSets, FiniteSetsExt, Sequences, SequencesExt

CONSTANTS
    Headers, Parent, Time,     \* Bitcoin headers above the anchor
    Anchor,                    \* the anchor of this network
    PACK_J_ANCHOR,             \* the anchor of Devnet
    IsMainnet,                 \* the tuple policy in force
    Work(_),                   \* proof of work of a header
    Payments, BlocksOf, Sats,  \* Treasury payments, the blocks that include them, their value
    Batches,                   \* header batches, as sequences of headers
    REQUIRED_CONFIRMATIONS, MTP_SPAN, ContextTime(_),  \* 6, 11, times of the anchor and below
    PRICE_STEP,                \* 2^18 licenses
    BTC_SUNSET_EPOCH, PACK_M_BTC_DISABLE_EPOCH,
    None, MaxHeight, MaxEpoch

VARIABLES
    st,       \* headers, best chain, licenses and consumed payments of the canonical state
    parent,   \* what they were before the tip block, and right after it
    tip,
    queue,    \* pending_protocol_operations
    reorged
vars == <<st, parent, tip, queue, reorged>>

-----------------------------------------------------------------------------
(* The block tree.                                                         *)

HeightOf[h \in Headers \cup {Anchor}] == IF h = Anchor THEN 0 ELSE HeightOf[Parent[h]] + 1
WorkOf[h \in Headers \cup {Anchor}] == IF h = Anchor THEN 0 ELSE WorkOf[Parent[h]] + Work(h)
Lineage[h \in Headers \cup {Anchor}] == IF h = Anchor THEN {} ELSE Lineage[Parent[h]] \cup {h}
At(h, n) == CHOOSE a \in Lineage[h] : HeightOf[a] = n

\* Median time past: the middle of the MTP_SPAN timestamps up to h.
MedianTimePast(h) ==
    LET times == SortSeq([i \in 1..MTP_SPAN |->
                     LET n == HeightOf[h] - MTP_SPAN + i
                     IN  IF n <= 0 THEN ContextTime(n) ELSE Time[At(h, n)]], <)
    IN  times[(MTP_SPAN + 1) \div 2]

\* validate_header_for_policy: Mainnet also requires a time after the median
\* of its ancestors.
HeaderValid(h) == IsMainnet => Time[h] > MedianTimePast(Parent[h])

-----------------------------------------------------------------------------
(* BITCOIN_HEADERS.                                                        *)

Genesis == [height |-> 0, epoch |-> 0, stored |-> {}, best |-> None,
            licenses |-> {}, consumed |-> {}, confirmed |-> {}]

\* The best chain moves only to strictly greater work.
ShouldSwitch(best, h) == best = None \/ (best # None /\ WorkOf[h] > WorkOf[best])

ApplyHeader(w, h) ==
    IF ~w.ok \/ h \in w.s.stored THEN w
    ELSE IF ~(Parent[h] \in w.s.stored \cup {Anchor} /\ HeaderValid(h)) THEN [w EXCEPT !.ok = FALSE]
    ELSE [w EXCEPT !.s.stored = @ \cup {h},
                   !.s.best = IF ShouldSwitch(@, h) THEN h ELSE @]

ApplyHeaders(w, batch, epoch) ==
    IF epoch >= PACK_M_BTC_DISABLE_EPOCH THEN [w EXCEPT !.ok = FALSE]
    ELSE FoldLeft(ApplyHeader, w, batch)

-----------------------------------------------------------------------------
(* Purchases: op = [kind, pay, at], the payment and the block of its proof.*)

\* best_chain_hashes_by_height walks down from the best tip until the Devnet
\* anchor; any other end of the walk is an error.
WalkReachesAnchor(s) == s.best # None /\ Anchor = PACK_J_ANCHOR

validate_purchase_window(s, op) ==
    /\ WalkReachesAnchor(s)
    /\ op.at \in Lineage[s.best]
    /\ HeightOf[s.best] >= HeightOf[op.at] + REQUIRED_CONFIRMATIONS - 1

payment_epoch(op) == MedianTimePast(op.at)

historical_license_count(s, epoch) == Cardinality({l \in s.licenses : l.issued < epoch})

required_sats(s, epoch) == 2 ^ (historical_license_count(s, epoch) \div PRICE_STEP)

PaymentIds(s) == {c.pay : c \in s.consumed}

SameProofNotConsumed(s, op) == [pay |-> op.pay, at |-> op.at] \notin s.consumed

NotConsumed(s, op) == op.pay \notin PaymentIds(s)

\* The Merkle branch leads to the containing block, and the payment is in full.
validate_payment_against_authenticated_window(s, op) ==
    /\ op.at \in BlocksOf[op.pay]
    /\ Sats[op.pay] >= required_sats(s, payment_epoch(op))

validate_purchase_context(s, op, epoch) ==
    /\ validate_purchase_window(s, op)
    /\ payment_epoch(op) <= epoch
    /\ payment_epoch(op) < BTC_SUNSET_EPOCH
    /\ epoch < PACK_M_BTC_DISABLE_EPOCH
    /\ validate_payment_against_authenticated_window(s, op)
    /\ NotConsumed(s, op)

ApplyPurchase(w, op, epoch) ==
    IF ~w.ok \/ ~validate_purchase_context(w.s, op, epoch) THEN [w EXCEPT !.ok = FALSE]
    ELSE [w EXCEPT !.s.licenses = @ \cup {[id |-> <<op.pay, op.at>>, issued |-> epoch]},
                   !.s.consumed = @ \cup {[pay |-> op.pay, at |-> op.at]}]

-----------------------------------------------------------------------------
(* Blocks: purchases come before header batches in the canonical order.    *)

Purchases(ops) == {op \in ops : op.kind = "purchase"}
HeaderOps(ops) == {op \in ops : op.kind = "headers"}

apply_protocol_operations(s, ops, epoch) ==
    LET w == FoldSet(LAMBDA op, a : ApplyPurchase(a, op, epoch), [ok |-> TRUE, s |-> s], Purchases(ops))
    IN  FoldSet(LAMBDA op, a : ApplyHeaders(a, op.batch, epoch), w, HeaderOps(ops))

Block(s, ops, epoch) ==
    LET w == apply_protocol_operations(s, ops, epoch)
    IN  [ok |-> w.ok, s |-> [w.s EXCEPT !.height = @ + 1, !.epoch = epoch, !.confirmed = @ \cup ops]]

\* sorted_pending_protocol_operations_for_epoch: a purchase waits until its
\* proof is valid on the best chain; header batches are always taken.
Selected(s, q, epoch) ==
    {op \in q : IF op.kind = "purchase" THEN validate_purchase_context(s, op, epoch)
                ELSE epoch < PACK_M_BTC_DISABLE_EPOCH}

-----------------------------------------------------------------------------
Init == /\ st = Genesis /\ parent = Genesis /\ tip = Genesis
        /\ queue = {} /\ reorged = FALSE

HeadersOp(b) == [kind |-> "headers", batch |-> b]
PurchaseOp(p, h) == [kind |-> "purchase", pay |-> p, at |-> h]

\* create_dev_purchase: one bundle at a time, on top of the best chain; both
\* operations are tried on a copy of the state first.
QueueBundle(b, p) ==
    LET e == st.epoch + 1
        authenticated == ApplyHeaders([ok |-> TRUE, s |-> st], b, e)
    IN  /\ queue = {} /\ ~IsMainnet
        /\ e < BTC_SUNSET_EPOCH
        /\ Parent[b[1]] = IF st.best = None THEN Anchor ELSE st.best
        /\ authenticated.ok
        /\ \E h \in BlocksOf[p] \cap ToSet(b) :
              /\ validate_purchase_context(authenticated.s, PurchaseOp(p, h), e + 1)
              /\ queue' = {HeadersOp(b), PurchaseOp(p, h)}
        /\ reorged' = FALSE
        /\ UNCHANGED <<st, parent, tip>>

Connect(s, ops) ==
    /\ st' = s /\ tip' = s /\ parent' = tip
    /\ queue' = queue \ ops
    /\ reorged' = FALSE

MineLocal ==
    LET ops == Selected(st, queue, st.epoch + 1)
        b == Block(st, ops, st.epoch + 1)
    IN  /\ st.height < MaxHeight /\ st.epoch < MaxEpoch
        /\ b.ok /\ Connect(b.s, ops)

AdvanceEmpty ==
    /\ st.epoch < MaxEpoch
    /\ st' = [st EXCEPT !.epoch = @ + 1]
    /\ reorged' = FALSE
    /\ UNCHANGED <<parent, tip, queue>>

\* Blocks of peers carry header batches, purchases, or a license bought with
\* MUT, which raises the number of licenses.
PeerBlocks(s, e) ==
    LET sets == {{}} \cup {{HeadersOp(b)} : b \in Batches}
                     \cup {{PurchaseOp(p, h)} : p \in Payments, h \in UNION {BlocksOf[q] : q \in Payments}}
    IN  {Block(s, ops, e).s : ops \in {o \in sets : Block(s, o, e).ok}}
        \cup {[Block(s, {}, e).s EXCEPT !.licenses = @ \cup {[id |-> <<None, e>>, issued |-> e]}]}

ReceiveBlock ==
    /\ st.height < MaxHeight /\ st.epoch < MaxEpoch
    /\ \E s \in PeerBlocks(st, st.epoch + 1) : Connect(s, s.confirmed \ st.confirmed)

\* bitcoin::dependency_ready, the weaker test of restore_reorg_mempool: the
\* payment is unused on the adopted branch; and the restored queue.
Restored(s, ops) == {op \in ops : op.kind = "purchase" => NotConsumed(s, op)}

Reorg ==
    /\ tip # parent /\ st.height < MaxHeight
    /\ \E s1 \in PeerBlocks(parent, parent.epoch + 1) : \E s2 \in PeerBlocks(s1, s1.epoch + 1) :
          /\ s2.epoch <= MaxEpoch /\ s1 # tip
          /\ st' = s2 /\ tip' = s2 /\ parent' = s1
          /\ queue' = Restored(s2, queue \cup (st.confirmed \ parent.confirmed))
    /\ reorged' = TRUE

Next ==
    \/ \E b \in Batches, p \in Payments : QueueBundle(b, p)
    \/ MineLocal
    \/ AdvanceEmpty
    \/ ReceiveBlock
    \/ Reorg

Spec == Init /\ [][Next]_vars

-----------------------------------------------------------------------------
\* Type invariant: what apply_headers stores is closed under parents, and a best
\* header exists exactly when a header is stored.
TypeOK ==
    /\ st.stored \subseteq Headers /\ st.best \in st.stored \cup {None}
    /\ (st.best = None) = (st.stored = {})
    /\ \A h \in st.stored : Lineage[h] \subseteq st.stored
    /\ reorged \in BOOLEAN

\* A Bitcoin payment buys its licenses once on every branch of Mutiny, also
\* when Bitcoin reorganizes and the same payment is proved again from another
\* Bitcoin block.
PaymentBuysOnce == \A c, d \in st.consumed : c.pay = d.pay => c = d

\* The node that made a bundle can always mine: header batches first, the
\* purchase once they are authenticated, also after a reorganization undid
\* either of them.
OwnBundleNeverBlocksMining ==
    Cardinality(HeaderOps(queue)) <= 1 =>
        \A op \in HeaderOps(queue) :
            (\A h \in ToSet(op.batch) : Lineage[Parent[h]] \subseteq st.stored \cup ToSet(op.batch))
                => Block(st, Selected(st, queue, st.epoch + 1), st.epoch + 1).ok

=============================================================================
