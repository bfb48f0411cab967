----------------------------- MODULE Dividends ------------------------------
(***************************************************************************)
(* The Treasury and its dividends: every AWARD_INTERVAL epochs half of the *)
(* available Treasury is reserved and split over the eligible licenses; an *)
(* owner claims its share until the deadline with a bundle of a protocol   *)
(* operation and a fee-exempt payment out of Treasury outputs.             *)
(***************************************************************************)
EXTENDS Integers, FiniteSets, FiniteSetsExt

CONSTANTS
    Licenses,
    DIVIDEND_AWARD_INTERVAL, DIVIDEND_CLAIM_WINDOW, \* 2^17 and 2^16 epochs
    MATURITY,                \* of coinbase outputs, in blocks
    Income,                  \* Treasury share of a block, in Strikes
    Amounts,                 \* amounts claimed
    MaxHeight, MaxEpoch, MaxSeq, MaxQueue

VARIABLES
    height, epoch,    \* canonical height and tip_epoch
    utxos,            \* Treasury-controlled outputs
    reserved,         \* treasury_reserved_dividend_strikes
    accounts,         \* dividend_accounts
    owner_seq, revoked,
    queue,            \* claim operations among pending_protocol_operations
    mempool,          \* their payments
    paid,             \* ghost: Strikes paid out to owners so far
    foreign           \* the last step was a block of a peer
vars == <<height, epoch, utxos, reserved, accounts, owner_seq, revoked, queue, mempool, paid, foreign>>
chainVars == <<height, epoch, utxos, reserved, accounts, owner_seq, revoked, paid>>

Total(outputs) == MapThenSumSet(LAMBDA u : u.amount, outputs)
treasury_total == Total(utxos)
Claimable(accs) == MapThenSumSet(LAMBDA a : a.claimable, accs)
spendable_at_height(u, h) == ~u.coinbase \/ h >= u.height + MATURITY
next_mineable_epoch == epoch + 1

-----------------------------------------------------------------------------
(* Epoch boundary.  x holds the part of the state a transition changes.    *)

Now == [reserved |-> reserved, accounts |-> accounts, queue |-> queue, mempool |-> mempool]

Live(accs, e) == {a \in accs : e < a.deadline}

\* Queue hygiene: claims that their account no longer covers leave the queue
\* together with their payments.
ClaimCovered(accs, op, e) ==
    \E a \in accs : a.lic = op.lic /\ e >= a.award /\ e < a.deadline /\ op.amount \in 1..a.claimable

Expire(x, e) ==
    LET live == Live(x.accounts, e)
        stale == {op \in x.queue : ~ClaimCovered(live, op, e)}
    IN  [x EXCEPT !.accounts = live,
                  !.reserved = @ - Claimable(x.accounts \ live),
                  !.queue = @ \ stale,
                  !.mempool = {t \in @ : t.txid \notin {op.txid : op \in stale}}]

calculate_dividend_award(available, n) ==
    LET per == IF n = 0 THEN 0 ELSE (available \div 2) \div n
    IN  [per |-> per, total |-> per * n]

\* process_epoch: first the expired awards return, then the award is computed
\* from what is available.
process_epoch(x, e) ==
    LET y == Expire(x, e)
        eligible == Licenses \ revoked
        award == calculate_dividend_award(treasury_total - y.reserved, Cardinality(eligible))
    IN  IF e % DIVIDEND_AWARD_INTERVAL # 0 \/ award.total = 0 THEN y
        ELSE [y EXCEPT !.reserved = @ + award.total,
                       !.accounts = @ \cup {[lic |-> l, award |-> e, claimable |-> award.per,
                                             deadline |-> e + DIVIDEND_CLAIM_WINDOW] : l \in eligible}]

-----------------------------------------------------------------------------
(* Claims.                                                                 *)

\* The payment of a claim: its inputs, the amount to the owner, and the
\* Treasury change.
Payment(lic, id, amount, inputs, e, deadline) ==
    [txid |-> id, lic |-> lic, amount |-> amount, inputs |-> inputs,
     change |-> Total(inputs) - amount, from |-> e, expiry |-> deadline - 1]

Claim(lic, id, amount) == [lic |-> lic, owner_seq |-> owner_seq[lic], amount |-> amount, txid |-> id]

dependency_error(op) == op.lic \in revoked \/ op.owner_seq < owner_seq[op.lic]

dependency_ready(accs, op, e) ==
    op.owner_seq = owner_seq[op.lic] /\ ClaimCovered(accs, op, e)

\* validate_and_apply_payment; w = [ok, utxos, reserved, accounts, paid]
PaymentValid(w, t, e, h) ==
    /\ e >= t.from /\ e <= t.expiry
    /\ t.inputs \subseteq w.utxos
    /\ \A u \in t.inputs : spendable_at_height(u, h)
    /\ t.change >= 0

ApplyPayment(w, t, h) ==
    [w EXCEPT !.utxos = (@ \ t.inputs) \cup
                  (IF t.change = 0 THEN {} ELSE {[id |-> t.txid, amount |-> t.change,
                                                  height |-> h, coinbase |-> FALSE]}),
              !.paid = @ + t.amount]

ClaimKeepingReserve(w, op) ==
    [w EXCEPT !.accounts = {IF a.lic = op.lic THEN [a EXCEPT !.claimable = @ - op.amount] ELSE a : a \in @}]

\* apply_dividend_claim
ApplyClaim(w, op) ==
    [w EXCEPT !.accounts = {IF a.lic = op.lic THEN [a EXCEPT !.claimable = @ - op.amount] ELSE a : a \in @},
              !.reserved = @ - op.amount]

\* One bundle of a block: payment and operation must both be valid.
ApplyBundle(w, b, e, h) ==
    IF /\ w.ok
       /\ PaymentValid(w, b.tx, e, h)
       /\ b.op.txid = b.tx.txid /\ b.op.amount = b.tx.amount
       /\ b.op.lic \notin revoked /\ b.op.owner_seq = owner_seq[b.op.lic]
       /\ ClaimCovered(w.accounts, b.op, e)
    THEN ApplyClaim(ApplyPayment(w, b.tx, h), b.op)
    ELSE [w EXCEPT !.ok = FALSE]

ApplyBundles(x, bundles, e, h) ==
    FoldSet(LAMBDA b, w : ApplyBundle(w, b, e, h),
            [ok |-> TRUE, utxos |-> utxos, reserved |-> x.reserved,
             accounts |-> x.accounts, paid |-> paid], bundles)

Coinbase(h) == [id |-> <<h>>, amount |-> Income, height |-> h, coinbase |-> TRUE]

-----------------------------------------------------------------------------
Init ==
    /\ height = 0 /\ epoch = 0 /\ utxos = {} /\ reserved = 0 /\ accounts = {}
    /\ owner_seq = [l \in Licenses |-> 0] /\ revoked = {}
    /\ queue = {} /\ mempool = {} /\ paid = 0 /\ foreign = FALSE

InputsOf(t) == {u.id : u \in t.inputs}
mempool_reserved_inputs == UNION {InputsOf(t) : t \in mempool}

Selectable == {u \in utxos : /\ spendable_at_height(u, height + 1)
                             /\ u.id \notin mempool_reserved_inputs}

\* Oldest outputs first until the amount is covered: minimal such prefixes.
SelectedInputs(amount) ==
    {s \in SUBSET Selectable :
        /\ Total(s) >= amount
        /\ \A u \in s, v \in Selectable \ s : u.height <= v.height
        /\ \E last \in s : /\ Total(s \ {last}) < amount
                           /\ \A u \in s : u.height <= last.height}

QueuedFor(l) == MapThenSumSet(LAMBDA op : op.amount, {op \in queue : op.lic = l})

UnlimitedClaim(a, amount) == amount \in 1..a.claimable

WithinUnqueued(a, amount) == amount \in 1..(a.claimable - QueuedFor(a.lic))

\* dividend-claim: create_claim_bundle_with_signer, then both halves are
\* pushed and saved.
ClaimDividend(l, amount) ==
    LET id == <<l, amount, height, Cardinality(queue)>>
        e == next_mineable_epoch
    IN  /\ l \notin revoked /\ Cardinality(queue) < MaxQueue
        /\ \E a \in accounts :
              /\ a.lic = l /\ e >= a.award /\ e < a.deadline
              /\ WithinUnqueued(a, amount)
              /\ \E s \in SelectedInputs(amount) :
                    /\ queue' = queue \cup {Claim(l, id, amount)}
                    /\ mempool' = mempool \cup {Payment(l, id, amount, s, e, a.deadline)}
        /\ foreign' = FALSE
        /\ UNCHANGED chainVars

\* A block at epoch e with the given bundles; what it confirms leaves queue
\* and mempool.
Connect(x, w, bundles, e) ==
    /\ height' = height + 1 /\ epoch' = e
    /\ utxos' = w.utxos \cup {Coinbase(height + 1)}
    /\ reserved' = w.reserved /\ accounts' = w.accounts /\ paid' = w.paid
    /\ queue' = x.queue \ {b.op : b \in bundles}
    /\ mempool' = x.mempool \ {b.tx : b \in bundles}

\* The bundles of a candidate: queued claims that are ready, each with its
\* payment, unless one of them makes the selection an error.
CandidateBundles(x, e) ==
    {[op |-> op, tx |-> CHOOSE t \in x.mempool : t.txid = op.txid] :
        op \in {op \in x.queue : dependency_ready(x.accounts, op, e)
                                 /\ \E t \in x.mempool : t.txid = op.txid}}

Minable(x, e) ==
    /\ \A op \in x.queue : ~dependency_error(op)
    /\ ApplyBundles(x, CandidateBundles(x, e), e, height + 1).ok

MineLocal ==
    LET e == next_mineable_epoch
        x == process_epoch(Now, e)
        bundles == CandidateBundles(x, e)
    IN  /\ height < MaxHeight /\ epoch < MaxEpoch
        /\ Minable(x, e)
        /\ Connect(x, ApplyBundles(x, bundles, e, height + 1), bundles, e)
        /\ foreign' = FALSE
        /\ UNCHANGED <<owner_seq, revoked>>

Transition(e) ==
    LET x == process_epoch(Now, e)
    IN  reserved' = x.reserved /\ accounts' = x.accounts /\ queue' = x.queue /\ mempool' = x.mempool

AdvanceEmpty ==
    /\ epoch < MaxEpoch
    /\ epoch' = epoch + 1
    /\ Transition(epoch + 1)
    /\ foreign' = FALSE
    /\ UNCHANGED <<height, utxos, owner_seq, revoked, paid>>

\* Blocks of peers: they confirm a claim the owner made on another machine,
\* transfer a license, revoke one, or none of these.
PeerBundles(x, e) ==
    {{}} \cup
    UNION {{{[op |-> Claim(a.lic, <<a.lic, n, height, -1>>, n),
              tx |-> Payment(a.lic, <<a.lic, n, height, -1>>, n, s, e, a.deadline)]} :
               s \in {s \in SUBSET utxos : Total(s) >= n /\ Cardinality(s) <= 2}} :
           a \in x.accounts, n \in Amounts}

PeerBlock ==
    LET e == next_mineable_epoch
        x == process_epoch(Now, e)
    IN  /\ height < MaxHeight /\ epoch < MaxEpoch
        /\ \E bundles \in PeerBundles(x, e) :
              LET w == ApplyBundles(x, bundles, e, height + 1)
              IN  w.ok /\ Connect(x, w, bundles, e)
        /\ \/ UNCHANGED <<owner_seq, revoked>>
           \/ /\ \E l \in Licenses : owner_seq[l] < MaxSeq /\ owner_seq' = [owner_seq EXCEPT ![l] = @ + 1]
              /\ UNCHANGED revoked
           \/ \E l \in Licenses : revoked' = revoked \cup {l} /\ UNCHANGED owner_seq
        /\ foreign' = TRUE

Next ==
    \/ \E l \in Licenses, n \in Amounts : ClaimDividend(l, n)
    \/ MineLocal
    \/ AdvanceEmpty
    \/ PeerBlock

Spec == Init /\ [][Next]_vars

-----------------------------------------------------------------------------
\* Type invariant: in particular a license has at most one dividend account, and
\* the checked subtractions of process_epoch and apply_claim stay in u64.
TypeOK ==
    /\ height \in 0..MaxHeight /\ epoch \in 0..MaxEpoch
    /\ reserved \in Nat /\ paid \in Nat
    /\ \A a, b \in accounts : a.lic = b.lic => a = b
    /\ revoked \subseteq Licenses /\ foreign \in BOOLEAN

\* check_state: what licenses may still claim is exactly what the Treasury
\* holds in reserve, and outputs back the reserve at all times, although
\* claims spend the outputs and awards are computed from them.
ReserveIsBacked == Claimable(accounts) = reserved /\ reserved <= treasury_total

\* No Strike of the Treasury appears or disappears: what it received is still
\* there or was paid to an owner against a claim.
TreasuryConserved == treasury_total + paid = height * Income

\* Several claims queued here can be mined together: only a block of a peer
\* (a competing claim, a transfer, a revocation) can make this miner's next
\* candidate invalid.
OwnClaimsAreMinable ==
    [][Minable(process_epoch(Now, epoch + 1), epoch + 1) /\ ~foreign'
         => (Minable(process_epoch(Now, epoch + 1), epoch + 1))']_vars

=============================================================================
