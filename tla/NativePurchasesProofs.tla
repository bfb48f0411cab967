----------------------- MODULE NativePurchasesProofs ------------------------
(***************************************************************************)
(* Proofs about NativePurchases, for every set of coins and prices, and     *)
(* for every sequence of purchases, blocks of peers and reorganizations:    *)
(* payments and licenses match on every branch, a reorganization loses no   *)
(* purchase, and somebody can always mine.                                  *)
(***************************************************************************)
EXTENDS NativePurchases, FiniteSetTheorems, WellFoundedInduction, TLAPS

-----------------------------------------------------------------------------
(* The inductive invariant.                                                 *)

PaymentId == Coins \X Nat \X Counts

\* The transaction and the operation of a payment are those of its bundle.
TxOf(p) == [txid |-> p, coin |-> p[1], paid |-> price_each(p[2]) * p[3]]
OpOf(p) == [pay |-> p, count |-> p[3]]
Transactions == {TxOf(p) : p \in PaymentId}
Operations == {OpOf(p) : p \in PaymentId}

\* The payments of a block.
Ids(txs) == {t.txid : t \in txs}

License == [pay : PaymentId \cup {<<0>>}, index : Nat, issued : Nat, activation : Nat]
State == [height : Nat, epoch : Nat, licenses : SUBSET License, spent : SUBSET Coins,
          payments : SUBSET PaymentId, consumed : SUBSET PaymentId]

IndicesOf(s, p) == {l.index : l \in {l \in s.licenses : l.pay = p}}

\* A branch: every payment has its licenses, a coin pays once, and there is a
\* license at all.
Branch(s) ==
    /\ s \in State
    /\ s.licenses # {}
    /\ s.payments = s.consumed
    /\ \A p \in s.payments : IndicesOf(s, p) = 1..p[3]
    /\ \A p \in s.payments : p[1] \in s.spent
    /\ \A p, q \in s.payments : p[1] = q[1] => p = q

\* st is the state after the tip block, or a later epoch of it; tip is one block
\* above parent.
Heights ==
    /\ st = [tip EXCEPT !.epoch = st.epoch]
    /\ tip.height \in 1..MaxHeight /\ st.epoch <= MaxEpoch
    /\ tip # parent => tip.height = parent.height + 1

\* What waits: bundles that pay with different coins, none of them a coin that
\* paid for licenses on this branch.
Waiting ==
    /\ mempool \subseteq Transactions /\ queue \subseteq Operations
    /\ \A t, u \in mempool : t.coin = u.coin => t = u
    /\ \A t \in mempool : \A p \in tip.payments : t.coin # p[1]
    /\ reorged \in BOOLEAN

IInv == Branch(st) /\ Branch(tip) /\ Branch(parent) /\ Heights /\ Waiting

-----------------------------------------------------------------------------
(* The bundles.                                                             *)

\* What is known of the transaction of a bundle: its identifier determines it.
LEMMA TransactionForm ==
  ASSUME NEW t \in Transactions
  PROVE  /\ t.txid \in PaymentId /\ t.coin = t.txid[1] /\ t.coin \in Coins
         /\ t = TxOf(t.txid)
<1>1. PICK p \in PaymentId : t = TxOf(p)
  BY DEF Transactions
<1>2. p[1] \in Coins
  BY DEF PaymentId
<1> QED
  BY <1>1, <1>2 DEF TxOf

\* What is known of the operation of a bundle: it orders what was paid for.
LEMMA OperationForm ==
  ASSUME NEW op \in Operations
  PROVE  op.pay \in PaymentId /\ op.count = op.pay[3] /\ op.count \in Nat
<1>1. PICK p \in PaymentId : op = OpOf(p)
  BY DEF Operations
<1>2. p[3] \in Nat
  BY NativeAssumption DEF PaymentId
<1> QED
  BY <1>1, <1>2 DEF OpOf

\* license-buy-mut makes such a bundle.
LEMMA BoughtForm ==
  ASSUME NEW c \in Coins, NEW e \in Nat, NEW n \in Counts
  PROVE  /\ Tx(c, e, n, price_each(e) * n) \in Transactions
         /\ Op(Tx(c, e, n, price_each(e) * n), n) \in Operations
<1> DEFINE p == <<c, e, n>>
<1>1. p \in PaymentId /\ p[1] = c /\ p[2] = e /\ p[3] = n
  BY DEF PaymentId
<1>2. Tx(c, e, n, price_each(e) * n) = TxOf(p)
  BY <1>1 DEF Tx, TxOf
<1>3. Op(Tx(c, e, n, price_each(e) * n), n) = OpOf(p)
  BY <1>1 DEF Tx, Op, OpOf
<1> QED
  BY <1>1, <1>2, <1>3 DEF Transactions, Operations

\* ... and restore_reorg_mempool puts the same one back.
LEMMA DisconnectedForm ==
  ASSUME tip.payments \subseteq PaymentId, NEW b \in Disconnected
  PROVE  \E p \in tip.payments \ parent.payments :
            /\ b.op = OpOf(p) /\ Original(b.tx) = TxOf(p)
            /\ b.tx.txid = p /\ b.tx.coin = p[1]
<1>1. PICK p \in tip.payments \ parent.payments :
         b = [tx |-> [txid |-> p, coin |-> p[1], paid |-> 0], op |-> [pay |-> p, count |-> p[3]]]
  BY DEF Disconnected
<1> DEFINE price == price_each(p[2]) * p[3]
<1>2. b.tx.txid = p /\ b.tx.coin = p[1] /\ b.op = [pay |-> p, count |-> p[3]]
  BY <1>1
<1>3. Original(b.tx) = [b.tx EXCEPT !.paid = price] /\ TxOf(p) = [txid |-> p, coin |-> p[1], paid |-> price]
  BY Zenon, <1>2 DEF Original, TxOf
<1> HIDE DEF price
<1>4. [b.tx EXCEPT !.paid = price] = [txid |-> p, coin |-> p[1], paid |-> price]
  BY <1>1
<1> QED
  BY Zenon, <1>2, <1>3, <1>4 DEF OpOf

-----------------------------------------------------------------------------
(* The clock.                                                               *)

Less == {ss \in Nat \X Nat : ss[1] < ss[2]}

\* The pairs of that relation.
LEMMA LessPairs == \A x, y \in Nat : x < y => <<x, y>> \in Less
<1>1. TAKE x, y \in Nat
<1>2. HAVE x < y
<1>3. <<x, y>> \in Nat \X Nat /\ <<x, y>>[1] = x /\ <<x, y>>[2] = y
  OBVIOUS
<1> QED
  BY Zenon, <1>2, <1>3 DEF Less

\* A set of natural numbers has a least element.
LEMMA LeastNatural ==
  ASSUME NEW T \in SUBSET Nat, T # {}
  PROVE  \E x \in T : \A y \in T : x =< y
<1>1. OpToRel(<, Nat) = Less
  BY Zenon DEF OpToRel, Less
<1>2. IsWellFoundedOn(Less, Nat)
  BY Zenon, <1>1, NatLessThanWellFounded
<1>3. PICK x \in T : \A y \in T : <<y, x>> \notin Less
  BY Zenon, <1>2, WFMin
<1>4. ASSUME NEW y \in T PROVE x =< y
  <2>1. x \in Nat /\ y \in Nat
    OBVIOUS
  <2>2. <<y, x>> \notin Less
    BY Zenon, <1>3
  <2>3. ~(y < x)
    BY Zenon, <2>1, <2>2, LessPairs
  <2> QED
    BY <2>1, <2>3
<1> QED
  BY <1>4

\* next_mineable_epoch: on every branch it is a later epoch, and one in which
\* some license is active, because the clock jumps to the first activation
\* while there is none.
LEMMA ClockReachesALicense ==
  ASSUME NEW s, Branch(s)
  PROVE  /\ next_mineable_epoch(s) \in Nat
         /\ \E l \in s.licenses : is_eligible(l, next_mineable_epoch(s))
<1> DEFINE later == {l.activation : l \in {l \in s.licenses : l.activation > s.epoch}}
<1>1. s.epoch \in Nat /\ s.licenses # {} /\ \A l \in s.licenses : l.activation \in Nat
  BY DEF Branch, State, License
<1>2. CASE \E l \in s.licenses : is_eligible(l, s.epoch + 1)
  BY <1>1, <1>2 DEF next_mineable_epoch
<1>3. CASE later = {} /\ ~ \E l \in s.licenses : is_eligible(l, s.epoch + 1)
  <2>1. PICK l \in s.licenses : TRUE
    BY <1>1
  <2>2. ~(l.activation > s.epoch)
    BY <1>3
  <2>3. is_eligible(l, s.epoch + 1)
    BY <1>1, <2>2 DEF is_eligible
  <2> QED
    BY <1>3, <2>3
<1>4. CASE later # {} /\ ~ \E l \in s.licenses : is_eligible(l, s.epoch + 1)
  <2>1. later \in SUBSET Nat
    BY <1>1
  <2>2. \E x \in later : \A y \in later : x =< y
    BY <1>4, <2>1, LeastNatural
  <2>3. Min(later) \in later
    BY <2>2 DEF Min
  <2>4. next_mineable_epoch(s) = Min(later)
    BY <1>4 DEF next_mineable_epoch
  <2>5. PICK l \in s.licenses : l.activation = Min(later)
    BY <2>3
  <2>6. is_eligible(l, Min(later))
    BY <1>1, <2>5 DEF is_eligible
  <2> QED
    BY <1>1, <2>4, <2>5, <2>6
<1> QED
  BY <1>2, <1>3, <1>4

-----------------------------------------------------------------------------
(* Blocks.                                                                  *)

\* validate: what a block references are exactly its own payments.
LEMMA ReferencesMatch ==
  ASSUME NEW s, NEW txs, NEW ops, NEW e, BlockValid(s, txs, ops, e)
  PROVE  {op.pay : op \in ops} = Ids(txs)
<1>1. \A op \in ops : \E t \in txs : t.txid = op.pay
  BY DEF BlockValid, OpValid
<1>2. ASSUME NEW t \in txs PROVE \E op \in ops : op.pay = t.txid
  <2>1. Cardinality({op \in ops : op.pay = t.txid}) = 1
    BY DEF BlockValid, EveryPaymentReferenced
  <2>2. {op \in ops : op.pay = t.txid} # {}
    BY <2>1, FS_EmptySet
  <2> QED
    BY <2>2
<1> QED
  BY <1>1, <1>2 DEF Ids

NewLicenses(ops, e) ==
    UNION {{[pay |-> op.pay, index |-> i, issued |-> e,
             activation |-> e + ACTIVATION_DELAY_EPOCHS] : i \in 1..op.count} : op \in ops}

\* The licenses a block issues for the payment p.
LEMMA IssuedFor ==
  ASSUME NEW ops \in SUBSET Operations, NEW e \in Nat, NEW p
  PROVE  /\ NewLicenses(ops, e) \in SUBSET License
         /\ p \in {op.pay : op \in ops} =>
              {l.index : l \in {l \in NewLicenses(ops, e) : l.pay = p}} = 1..p[3]
         /\ p \notin {op.pay : op \in ops} =>
              {l \in NewLicenses(ops, e) : l.pay = p} = {}
<1>1. \A op \in ops : op.pay \in PaymentId /\ op.count = op.pay[3] /\ op.count \in Nat
  BY OperationForm
<1>2. e + ACTIVATION_DELAY_EPOCHS \in Nat
  BY NativeAssumption
<1>3. ASSUME NEW l \in NewLicenses(ops, e)
      PROVE  l \in License /\ \E op \in ops : l.pay = op.pay /\ l.index \in 1..op.pay[3]
  <2>1. PICK op \in ops :
           l \in {[pay |-> op.pay, index |-> i, issued |-> e,
                   activation |-> e + ACTIVATION_DELAY_EPOCHS] : i \in 1..op.count}
    BY DEF NewLicenses
  <2>2. PICK i \in 1..op.count :
           l = [pay |-> op.pay, index |-> i, issued |-> e,
                activation |-> e + ACTIVATION_DELAY_EPOCHS]
    BY <2>1
  <2> QED
    BY <1>1, <1>2, <2>2 DEF License
<1>4. ASSUME NEW op \in ops, NEW i \in 1..op.pay[3]
      PROVE  \E l \in NewLicenses(ops, e) : l.pay = op.pay /\ l.index = i
  <2>1. i \in 1..op.count
    BY <1>1
  <2> DEFINE l == [pay |-> op.pay, index |-> i, issued |-> e,
                   activation |-> e + ACTIVATION_DELAY_EPOCHS]
  <2>2. l \in NewLicenses(ops, e)
    BY <2>1 DEF NewLicenses
  <2> QED
    BY <2>2
<1>5. ASSUME p \in {op.pay : op \in ops}
      PROVE  {l.index : l \in {l \in NewLicenses(ops, e) : l.pay = p}} = 1..p[3]
  <2>1. \A i \in 1..p[3] : \E l \in NewLicenses(ops, e) : l.pay = p /\ l.index = i
    <3>1. PICK op \in ops : op.pay = p
      BY Zenon, <1>5
    <3> QED
      BY Zenon, <1>4, <3>1
  <2>2. \A l \in NewLicenses(ops, e) : l.pay = p => l.index \in 1..p[3]
    BY Zenon, <1>3
  <2> HIDE DEF NewLicenses
  <2> QED
    BY Zenon, <2>1, <2>2
<1>6. ASSUME p \notin {op.pay : op \in ops}
      PROVE  {l \in NewLicenses(ops, e) : l.pay = p} = {}
  BY Zenon, <1>3, <1>6
<1>7. NewLicenses(ops, e) \in SUBSET License
  BY Zenon, <1>3
<1> QED
  BY Zenon, <1>5, <1>6, <1>7

\* z is the branch s with one more block.
Longer(z, s, txs, e) ==
    /\ Branch(z) /\ z.height = s.height + 1 /\ z.epoch = e
    /\ z.payments = s.payments \cup Ids(txs)

\* validate_and_apply_block keeps a branch a branch.
LEMMA BlockKeepsBranch ==
  ASSUME NEW s, Branch(s), NEW txs \in SUBSET Transactions, NEW ops \in SUBSET Operations,
         NEW e \in Nat, BlockValid(s, txs, ops, e)
  PROVE  Longer(AfterBlock(s, txs, ops, e), s, txs, e)
<1> DEFINE z == AfterBlock(s, txs, ops, e)
           new == Ids(txs)
<1>1. s \in State
  BY DEF Branch
<1>2. /\ z.height = s.height + 1 /\ z.epoch = e
      /\ z.licenses = s.licenses \cup NewLicenses(ops, e)
      /\ z.spent = s.spent \cup {t.coin : t \in txs}
      /\ z.payments = s.payments \cup new
      /\ z.consumed = s.consumed \cup {op.pay : op \in ops}
      /\ DOMAIN z = {"height", "epoch", "licenses", "spent", "payments", "consumed"}
      /\ z = [x \in DOMAIN z |-> z[x]]
  BY <1>1 DEF AfterBlock, apply_protocol_operations, NewLicenses, State, Ids
<1>3. {op.pay : op \in ops} = new
  BY ReferencesMatch
<1>4. \A t \in txs : t.txid \in PaymentId /\ t.coin = t.txid[1] /\ t.coin \in Coins /\ t = TxOf(t.txid)
  BY TransactionForm
<1>5. NewLicenses(ops, e) \in SUBSET License
  BY IssuedFor
<1>6. z \in State
  <2>1. /\ z.height \in Nat /\ z.epoch \in Nat /\ z.licenses \in SUBSET License
        /\ z.spent \in SUBSET Coins /\ z.payments \in SUBSET PaymentId
        /\ z.consumed \in SUBSET PaymentId
    BY <1>1, <1>2, <1>3, <1>4, <1>5 DEF State, Ids
  <2> QED
    BY <1>2, <2>1 DEF State
<1>7. ASSUME NEW p \in z.payments PROVE IndicesOf(z, p) = 1..p[3]
  <2>1. CASE p \in new
    <3>1. p \in {op.pay : op \in ops}
      BY <1>3, <2>1
    <3>2. \A l \in s.licenses : l.pay # p
      BY <3>1 DEF BlockValid, OpValid
    <3>3. {l \in z.licenses : l.pay = p} = {l \in NewLicenses(ops, e) : l.pay = p}
      BY <1>2, <3>2
    <3>4. {l.index : l \in {l \in NewLicenses(ops, e) : l.pay = p}} = 1..p[3]
      BY Zenon, <3>1, IssuedFor
    <3> QED
      BY <3>3, <3>4 DEF IndicesOf
  <2>2. CASE p \notin new
    <3>1. p \in s.payments /\ p \notin {op.pay : op \in ops}
      BY <1>2, <1>3, <2>2
    <3>2. {l \in NewLicenses(ops, e) : l.pay = p} = {}
      BY Zenon, <3>1, IssuedFor
    <3>3. {l \in z.licenses : l.pay = p} = {l \in s.licenses : l.pay = p}
      BY <1>2, <3>2
    <3> QED
      BY <3>1, <3>3 DEF IndicesOf, Branch
  <2> QED
    BY <2>1, <2>2
<1>8. ASSUME NEW p \in z.payments PROVE p[1] \in z.spent
  BY <1>2, <1>4 DEF Branch, Ids
<1>9. ASSUME NEW p \in z.payments, NEW q \in z.payments, p[1] = q[1] PROVE p = q
  <2>1. \A t, u \in txs : t.coin = u.coin => t = u
    BY DEF BlockValid
  <2>2. \A t \in txs : t.coin \notin s.spent
    BY DEF BlockValid, TxValid
  <2>3. \A x \in s.payments : x[1] \in s.spent
    BY DEF Branch
  <2>4. \A x, y \in s.payments : x[1] = y[1] => x = y
    BY DEF Branch
  <2>5. \A x \in new : \E t \in txs : x = t.txid /\ t.coin = x[1]
    BY <1>4 DEF Ids
  <2>6. p[1] = q[1]
    BY <1>9
  <2>7. CASE p \in new /\ q \in new
    <3>1. PICK t \in txs : p = t.txid /\ t.coin = p[1]
      BY Zenon, <2>5, <2>7
    <3>2. PICK u \in txs : q = u.txid /\ u.coin = q[1]
      BY Zenon, <2>5, <2>7
    <3>3. t = u
      BY Zenon, <2>1, <2>6, <3>1, <3>2
    <3> QED
      BY Zenon, <3>1, <3>2, <3>3
  <2>8. CASE p \in new /\ q \in s.payments
    <3>1. PICK t \in txs : p = t.txid /\ t.coin = p[1]
      BY Zenon, <2>5, <2>8
    <3> QED
      BY Zenon, <2>2, <2>3, <2>8, <2>6, <3>1
  <2>9. CASE p \in s.payments /\ q \in new
    BY Zenon, <1>9, <2>2, <2>3, <2>5, <2>9
  <2>10. CASE p \in s.payments /\ q \in s.payments
    BY Zenon, <1>9, <2>4, <2>10
  <2> QED
    BY Zenon, <1>2, <2>7, <2>8, <2>9, <2>10
<1>10. z.licenses # {} /\ z.payments = z.consumed
  BY <1>2, <1>3 DEF Branch
<1>11. Longer(z, s, txs, e)
  <2> HIDE DEF z
  <2> QED
    BY Zenon, <1>2, <1>6, <1>7, <1>8, <1>9, <1>10 DEF Branch, Longer
<1> QED
  BY <1>11

\* A block of a peer keeps a branch a branch, and pays with our transactions.
LEMMA PeerBlockKeepsBranch ==
  ASSUME NEW s, Branch(s), Waiting, NEW z \in PeerBlocks(s)
  PROVE  \E txs \in SUBSET mempool, e \in Nat : Longer(z, s, txs, e) /\ e <= MaxEpoch
<1> DEFINE e == next_mineable_epoch(s)
<1>1. e \in Nat
  BY ClockReachesALicense
<1>2. BlockValid(s, {}, {}, e) /\ e <= MaxEpoch
  BY DEF PeerBlocks
<1>3. mempool \subseteq Transactions /\ queue \subseteq Operations
  BY DEF Waiting
<1>4. CASE \E b \in (SUBSET mempool) \X (SUBSET queue) :
              BlockValid(s, b[1], b[2], e) /\ z = AfterBlock(s, b[1], b[2], e)
  <2>1. PICK txs \in SUBSET mempool, ops \in SUBSET queue :
           BlockValid(s, txs, ops, e) /\ z = AfterBlock(s, txs, ops, e)
    BY Zenon, <1>4
  <2>2. txs \in SUBSET Transactions /\ ops \in SUBSET Operations
    BY <1>3
  <2> HIDE DEF e
  <2>3. BlockValid(s, txs, ops, e)
    BY <2>1
  <2>4. Longer(z, s, txs, e)
    BY Zenon, <1>1, <2>1, <2>2, <2>3, BlockKeepsBranch
  <2> QED
    BY Zenon, <1>1, <1>2, <2>4
<1>5. CASE \E c \in Coins : z = [AfterBlock(s, {}, {}, e) EXCEPT !.spent = @ \cup {c}]
  <2> DEFINE y == AfterBlock(s, {}, {}, e)
  <2>1. PICK c \in Coins : z = [y EXCEPT !.spent = @ \cup {c}]
    BY <1>5
  <2>2. {} \in SUBSET Transactions /\ {} \in SUBSET Operations
    OBVIOUS
  <2>3. Longer(y, s, {}, e)
    BY Zenon, <1>1, <1>2, <2>2, BlockKeepsBranch
  <2> HIDE DEF y, e
  <2>4. y \in State
    BY <2>3 DEF Longer, Branch
  <2>5. /\ z \in State /\ z.licenses = y.licenses /\ z.payments = y.payments
        /\ z.consumed = y.consumed /\ z.height = y.height /\ z.epoch = y.epoch
        /\ z.spent = y.spent \cup {c}
    BY <2>1, <2>4 DEF State
  <2>6. Branch(z)
    BY <2>3, <2>5 DEF Longer, Branch, IndicesOf
  <2>7. z.payments = s.payments \cup Ids({}) /\ {} \in SUBSET mempool
    BY <2>3, <2>5 DEF Longer
  <2>8. Longer(z, s, {}, e)
    BY Zenon, <2>3, <2>5, <2>6, <2>7 DEF Longer
  <2> QED
    BY Zenon, <1>1, <1>2, <2>7, <2>8
<1> QED
  BY <1>2, <1>4, <1>5 DEF PeerBlocks

-----------------------------------------------------------------------------
(* Steps.                                                                   *)

\* What the tip has in common with the state.
LEMMA TipAndState ==
  ASSUME IInv
  PROVE  st.payments = tip.payments /\ st.height = tip.height /\ st.spent = tip.spent
BY DEF IInv, Heights, Branch, State

\* A connected block: what it confirms leaves the mempool, and a transaction
\* that stays does not spend a coin that it spends for licenses.
LEMMA ConnectKeeps ==
  ASSUME IInv, NEW z, NEW txs \in SUBSET mempool, NEW e, Longer(z, st, txs, e),
         st.height < MaxHeight, e <= MaxEpoch, Connect(z)
  PROVE  IInv'
<1>1. /\ Branch(z) /\ z.height = st.height + 1 /\ z.epoch <= MaxEpoch
      /\ z.payments = st.payments \cup Ids(txs)
  BY DEF Longer
<1>2. /\ st' = z /\ tip' = z /\ parent' = tip /\ reorged' = FALSE
      /\ mempool' = {t \in mempool : t.txid \notin z.payments} /\ queue' \subseteq queue
  BY DEF Connect
<1>3. Branch(st)' /\ Branch(tip)' /\ Branch(parent)'
  <2>1. Branch(tip)
    BY DEF IInv
  <2> QED
    BY <1>1, <1>2, <2>1 DEF Branch, State, License, PaymentId, IndicesOf
<1>4. Heights'
  <2>1. z \in State /\ tip \in State /\ st.height = tip.height /\ tip.height \in 1..MaxHeight
    BY <1>1, TipAndState DEF Branch, IInv, Heights
  <2> QED
    BY <1>1, <1>2, <2>1, NativeAssumption DEF Heights, State
<1>5. Waiting'
  <2>1. /\ mempool \subseteq Transactions /\ queue \subseteq Operations
        /\ \A t, u \in mempool : t.coin = u.coin => t = u
        /\ \A t \in mempool : \A p \in st.payments : t.coin # p[1]
    BY TipAndState DEF IInv, Waiting
  <2>2. ASSUME NEW t \in mempool', NEW p \in z.payments PROVE t.coin # p[1]
    <3>1. t \in mempool /\ t.txid \notin z.payments
      BY <1>2
    <3>2. CASE p \in st.payments
      BY <2>1, <3>1, <3>2
    <3>3. CASE \E u \in txs : p = u.txid
      <4>1. PICK u \in txs : p = u.txid
        BY <3>3
      <4>2. u \in mempool /\ u \in Transactions /\ u.coin = p[1]
        BY <2>1, <4>1, TransactionForm
      <4>3. t # u
        BY <3>1, <4>1
      <4> QED
        BY Zenon, <2>1, <3>1, <4>2, <4>3
    <3> QED
      BY <1>1, <3>2, <3>3 DEF Ids
  <2>3. mempool' \subseteq mempool /\ queue' \subseteq queue
    BY <1>2
  <2>4. \A t, u \in mempool' : t.coin = u.coin => t = u
    BY Zenon, <2>1, <2>3
  <2>5. Transactions' = Transactions /\ Operations' = Operations
    BY DEF Transactions, Operations, TxOf, OpOf, PaymentId, price_each, subsidy
  <2> QED
    BY Zenon, <1>2, <2>1, <2>2, <2>3, <2>4, <2>5 DEF Waiting
<1> QED
  BY <1>3, <1>4, <1>5 DEF IInv

\* license-buy-mut queues a bundle and leaves the branches alone.
LEMMA BuyKeeps ==
  ASSUME IInv, NEW c \in Coins, NEW n \in Counts, BuyLicenses(c, n)
  PROVE  IInv'
<1> DEFINE e == next_mineable_epoch(st)
           t == Tx(c, e, n, price_each(e) * n)
<1>1. e \in Nat
  BY ClockReachesALicense DEF IInv
<1>2. t \in Transactions /\ Op(t, n) \in Operations /\ t.coin = c
  BY <1>1, BoughtForm DEF Tx
<1>3. /\ c \notin st.spent /\ \A u \in mempool : u.coin # c
      /\ mempool' = mempool \cup {t} /\ queue' = queue \cup {Op(t, n)} /\ reorged' = FALSE
      /\ UNCHANGED <<st, parent, tip>>
  BY DEF BuyLicenses, mempool_reserved_inputs
<1> HIDE DEF e, t
<1>4. Waiting'
  <2>1. /\ mempool \subseteq Transactions /\ queue \subseteq Operations
        /\ \A u, v \in mempool : u.coin = v.coin => u = v
        /\ \A u \in mempool : \A p \in tip.payments : u.coin # p[1]
    BY DEF IInv, Waiting
  <2>2. \A p \in tip.payments : c # p[1]
    <3>1. \A p \in tip.payments : p[1] \in tip.spent
      BY DEF IInv, Branch
    <3> QED
      BY <1>3, <3>1, TipAndState
  <2>3. \A u, v \in mempool' : u.coin = v.coin => u = v
    BY <1>2, <1>3, <2>1
  <2>4. \A u \in mempool' : \A p \in tip.payments : u.coin # p[1]
    BY <1>2, <1>3, <2>1, <2>2
  <2>5. mempool' \subseteq Transactions /\ queue' \subseteq Operations /\ tip' = tip
    BY <1>2, <1>3, <2>1
  <2> QED
    BY Zenon, <1>3, <2>3, <2>4, <2>5 DEF Waiting
<1>5. UNCHANGED <<st, parent, tip>>
  BY <1>3
<1> QED
  BY Zenon, <1>4, <1>5 DEF IInv, Heights, Branch, IndicesOf

\* A block mined here takes whole bundles and keeps the invariant.
LEMMA MineKeeps ==
  ASSUME IInv, MineLocal
  PROVE  IInv'
<1> DEFINE e == next_mineable_epoch(st)
           z == AfterBlock(st, selected_block_mempool, SelectedOps, e)
<1>1. e \in Nat /\ Branch(st)
  BY ClockReachesALicense DEF IInv
<1>2. /\ st.height < MaxHeight /\ e <= MaxEpoch
      /\ BlockValid(st, selected_block_mempool, SelectedOps, e) /\ Connect(z)
  BY DEF MineLocal
<1>3. /\ selected_block_mempool \in SUBSET mempool
      /\ selected_block_mempool \in SUBSET Transactions /\ SelectedOps \in SUBSET Operations
  BY DEF selected_block_mempool, SelectedOps, IInv, Waiting
<1> HIDE DEF e
<1>4. Longer(z, st, selected_block_mempool, e)
  BY Zenon, <1>1, <1>2, <1>3, BlockKeepsBranch
<1> HIDE DEF z
<1> QED
  BY Zenon, <1>2, <1>3, <1>4, ConnectKeeps

\* A block of a peer, with whatever bundles it has, keeps the invariant.
LEMMA ReceiveKeeps ==
  ASSUME IInv, ReceiveBlock
  PROVE  IInv'
<1>1. PICK z \in PeerBlocks(st) : Connect(z)
  BY DEF ReceiveBlock
<1>2. st.height < MaxHeight /\ Branch(st) /\ Waiting
  BY DEF ReceiveBlock, IInv
<1>3. PICK txs \in SUBSET mempool, e \in Nat : Longer(z, st, txs, e) /\ e <= MaxEpoch
  BY Zenon, <1>2, PeerBlockKeepsBranch
<1> QED
  BY Zenon, <1>1, <1>2, <1>3, ConnectKeeps

\* A later epoch without a block keeps the invariant.
LEMMA AdvanceKeeps ==
  ASSUME IInv, AdvanceEmpty
  PROVE  IInv'
<1>1. /\ st.epoch < MaxEpoch /\ st' = [st EXCEPT !.epoch = @ + 1] /\ reorged' = FALSE
      /\ UNCHANGED <<parent, tip, mempool, queue>>
  BY DEF AdvanceEmpty
<1>2. st \in State /\ tip \in State /\ st = [tip EXCEPT !.epoch = st.epoch]
  BY DEF IInv, Branch, Heights
<1>3. /\ st' \in State /\ st'.epoch = st.epoch + 1
      /\ st'.licenses = st.licenses /\ st'.payments = st.payments
      /\ st'.consumed = st.consumed /\ st'.spent = st.spent
  BY <1>1, <1>2 DEF State
<1>4. Branch(st)'
  BY <1>3 DEF IInv, Branch, IndicesOf
<1>5. Branch(tip)' /\ Branch(parent)' /\ Waiting'
  BY <1>1 DEF IInv, Branch, IndicesOf, Waiting
<1>6. Heights'
  <2>1. st' = [tip EXCEPT !.epoch = st'.epoch]
    BY <1>1, <1>2 DEF State
  <2> QED
    BY <1>1, <1>2, <1>3, <2>1, NativeAssumption DEF IInv, Heights, State
<1> QED
  BY <1>4, <1>5, <1>6 DEF IInv

\* The two blocks that replace the tip, and what returns to mempool and queue.
LEMMA ReorgBranches ==
  ASSUME IInv, Reorg
  PROVE  /\ Branch(st') /\ Branch(parent') /\ tip' = st'
         /\ tip # parent /\ st.height < MaxHeight
         /\ tip'.height = parent'.height + 1 /\ parent'.height = parent.height + 1
         /\ st'.epoch <= MaxEpoch /\ reorged' = TRUE
         /\ mempool' = RestoredTxs(st', mempool \cup {Original(b.tx) : b \in Disconnected})
         /\ queue' = RestoredOps(st', queue \cup {b.op : b \in Disconnected}, mempool')
<1>1. PICK s1 \in PeerBlocks(parent) : \E s2 \in PeerBlocks(s1) :
         /\ st' = s2 /\ tip' = s2 /\ parent' = s1
         /\ mempool' = RestoredTxs(s2, mempool \cup {Original(b.tx) : b \in Disconnected})
         /\ queue' = RestoredOps(s2, queue \cup {b.op : b \in Disconnected}, mempool')
  BY Zenon DEF Reorg
<1>2. PICK s2 \in PeerBlocks(s1) :
         /\ st' = s2 /\ tip' = s2 /\ parent' = s1
         /\ mempool' = RestoredTxs(s2, mempool \cup {Original(b.tx) : b \in Disconnected})
         /\ queue' = RestoredOps(s2, queue \cup {b.op : b \in Disconnected}, mempool')
  BY Zenon, <1>1
<1>3. Branch(parent) /\ Waiting
  BY DEF IInv
<1>4. Branch(s1) /\ s1.height = parent.height + 1
  BY Zenon, <1>3, PeerBlockKeepsBranch DEF Longer
<1>5. Branch(s2) /\ s2.height = s1.height + 1 /\ s2.epoch <= MaxEpoch
  BY Zenon, <1>3, <1>4, PeerBlockKeepsBranch DEF Longer
<1>6. tip # parent /\ st.height < MaxHeight /\ reorged' = TRUE
  BY DEF Reorg
<1> QED
  BY Zenon, <1>2, <1>4, <1>5, <1>6

\* A reorganization that replaces the tip block and restores what it held keeps
\* the invariant.
LEMMA ReorgKeeps ==
  ASSUME IInv, Reorg
  PROVE  IInv'
<1> DEFINE pool == mempool \cup {Original(b.tx) : b \in Disconnected}
<1>1. /\ Branch(st') /\ Branch(parent') /\ tip' = st'
      /\ tip # parent /\ st.height < MaxHeight
      /\ tip'.height = parent'.height + 1 /\ parent'.height = parent.height + 1
      /\ st'.epoch <= MaxEpoch /\ reorged' = TRUE
      /\ mempool' = RestoredTxs(st', pool)
      /\ queue' = RestoredOps(st', queue \cup {b.op : b \in Disconnected}, mempool')
  BY Zenon, ReorgBranches
<1>2. tip.payments \subseteq PaymentId
  BY DEF IInv, Branch, State
<1>3. \A b \in Disconnected : \E p \in tip.payments \ parent.payments :
         b.op = OpOf(p) /\ Original(b.tx) = TxOf(p)
  BY Zenon, <1>2, DisconnectedForm
<1>4. Branch(st)' /\ Branch(tip)' /\ Branch(parent)'
  BY <1>1 DEF Branch, IndicesOf
<1>5. Heights'
  <2>1. st.height = tip.height /\ tip.height = parent.height + 1 /\ tip.height \in 1..MaxHeight
    BY <1>1, TipAndState DEF IInv, Heights
  <2>2. st' \in State /\ parent \in State
    BY <1>1 DEF IInv, Branch
  <2>3. st' = [tip' EXCEPT !.epoch = st'.epoch]
    BY <1>1, <2>2 DEF State
  <2>4. tip'.height \in 1..MaxHeight
    BY <1>1, <2>1, <2>2, NativeAssumption DEF State
  <2> QED
    BY <1>1, <2>3, <2>4 DEF Heights
<1>6. Waiting'
  <2>1. /\ mempool \subseteq Transactions /\ queue \subseteq Operations
        /\ \A t, u \in mempool : t.coin = u.coin => t = u
        /\ \A t \in mempool : \A p \in tip.payments : t.coin # p[1]
    BY DEF IInv, Waiting
  <2>2. \A t \in pool : t \in mempool \/ \E p \in tip.payments : t = TxOf(p)
    BY Zenon, <1>3
  <2>3. \A p \in tip.payments : TxOf(p).coin = p[1] /\ TxOf(p) \in Transactions
                               /\ OpOf(p) \in Operations
    BY <1>2 DEF TxOf, Transactions, Operations
  <2>4. \A p, q \in tip.payments : p[1] = q[1] => p = q
    BY DEF IInv, Branch
  <2>5. ASSUME NEW t \in pool, NEW u \in pool, t.coin = u.coin PROVE t = u
    <3>1. CASE t \in mempool /\ u \in mempool
      BY Zenon, <2>1, <2>5, <3>1
    <3>2. CASE t \in mempool /\ \E p \in tip.payments : u = TxOf(p)
      BY Zenon, <2>1, <2>3, <2>5, <3>2
    <3>3. CASE u \in mempool /\ \E p \in tip.payments : t = TxOf(p)
      BY Zenon, <2>1, <2>3, <2>5, <3>3
    <3>4. CASE (\E p \in tip.payments : t = TxOf(p)) /\ (\E p \in tip.payments : u = TxOf(p))
      BY Zenon, <2>3, <2>4, <2>5, <3>4
    <3> QED
      BY Zenon, <2>2, <3>1, <3>2, <3>3, <3>4
  <2>6. mempool' \subseteq pool /\ \A t \in mempool' : t.coin \notin st'.spent
    BY <1>1 DEF RestoredTxs, TxValid
  <2>7. \A t \in mempool' : \A p \in tip'.payments : t.coin # p[1]
    BY <1>1, <2>6 DEF Branch
  <2>8. mempool' \subseteq Transactions
    <3>1. SUFFICES ASSUME NEW t \in mempool' PROVE t \in Transactions
      BY Zenon
    <3>2. t \in mempool \/ \E p \in tip.payments : t = TxOf(p)
      BY Zenon, <2>2, <2>6
    <3> QED
      BY Zenon, <2>1, <2>3, <3>2
  <2>9. queue' \subseteq Operations
    <3>1. queue' \subseteq queue \cup {b.op : b \in Disconnected}
      BY <1>1 DEF RestoredOps
    <3>2. SUFFICES ASSUME NEW op \in queue' PROVE op \in Operations
      BY Zenon
    <3>3. op \in queue \/ \E p \in tip.payments : op = OpOf(p)
      BY Zenon, <1>3, <3>1
    <3> QED
      BY Zenon, <2>1, <2>3, <3>3
  <2>10. \A t, u \in mempool' : t.coin = u.coin => t = u
    BY Zenon, <2>5, <2>6
  <2>11. reorged' \in BOOLEAN
    BY <1>1
  <2> QED
    BY Zenon, <2>7, <2>8, <2>9, <2>10, <2>11 DEF Waiting
<1> QED
  BY <1>4, <1>5, <1>6 DEF IInv

\* The state of the bootstrap satisfies the invariant.
LEMMA InitBranch ==
  ASSUME Init
  PROVE  IInv
<1> DEFINE l == [pay |-> <<0>>, index |-> 1, issued |-> 0, activation |-> ACTIVATION_DELAY_EPOCHS]
<1>1. l \in License
  BY NativeAssumption DEF License
<1> HIDE DEF l
<1>2. Genesis \in State /\ Genesis.licenses # {} /\ Genesis.payments = {} /\ Genesis.consumed = {}
      /\ Genesis.height = 1 /\ Genesis.epoch = 0
  <2>1. Genesis = [height |-> 1, epoch |-> 0, licenses |-> {l},
                   spent |-> {}, payments |-> {}, consumed |-> {}]
    BY Zenon DEF Genesis, l
  <2> QED
    BY <1>1, <2>1 DEF State
<1>3. st = Genesis /\ tip = Genesis /\ parent = Genesis /\ mempool = {} /\ queue = {} /\ reorged = FALSE
  BY DEF Init
<1>4. Branch(Genesis)
  BY <1>2 DEF Branch
<1>5. Heights
  BY <1>2, <1>3, NativeAssumption DEF Heights, State
<1> QED
  BY <1>3, <1>4, <1>5 DEF IInv, Waiting

\* Every step keeps the branches whole.
LEMMA StepKeeps ==
  ASSUME IInv, [Next]_vars
  PROVE  IInv'
<1>1. ASSUME NEW c \in Coins, NEW n \in Counts, BuyLicenses(c, n) PROVE IInv'
  BY <1>1, BuyKeeps
<1>2. CASE UNCHANGED vars
  BY <1>2 DEF vars, IInv, Branch, IndicesOf, Heights, Waiting
<1> QED
  BY <1>1, <1>2, MineKeeps, AdvanceKeeps, ReceiveKeeps, ReorgKeeps DEF Next

\* On every branch payments and licenses match, and the next mineable epoch has
\* an active license, for every set of coins and every history of purchases,
\* blocks and reorganizations.
THEOREM PurchasesWhole == Spec => []PurchasesAreWhole
<1>1. Init => IInv
  BY InitBranch
<1>2. IInv /\ [Next]_vars => IInv'
  BY StepKeeps
<1>3. IInv => PurchasesAreWhole
  <2> SUFFICES ASSUME IInv PROVE PurchasesAreWhole
    OBVIOUS
  <2>1. Branch(st) /\ st \in State
    BY DEF IInv, Branch
  <2>2. TypeOK
    BY <2>1, TipAndState DEF IInv, TypeOK, Heights, Waiting, State
  <2>3. LicensesMatchPayments
    BY <2>1 DEF LicensesMatchPayments, Branch, IndicesOf
  <2>4. SomeoneCanMineNext
    BY <2>1, ClockReachesALicense DEF SomeoneCanMineNext
  <2> QED
    BY <2>2, <2>3, <2>4 DEF PurchasesAreWhole
<1> QED
  BY <1>1, <1>2, <1>3, PTL DEF Spec

\* restore_reorg_mempool: whatever was queued or confirmed on the old branch and
\* can still be mined on the new one is queued again together with its payment.
THEOREM ReorgLosesNothing == Spec => NoPurchaseLost
<1> DEFINE Kept == \A b \in WholeBundles \cup Disconnected :
                     b.op.pay \notin st'.payments /\ b.tx.coin \notin st'.spent
                       => b.op \in queue' /\ \E t \in mempool' : t.txid = b.op.pay
<1>1. Init => IInv
  BY InitBranch
<1>2. IInv /\ [Next]_vars => IInv'
  BY StepKeeps
<1>3. IInv /\ [Next]_vars => [reorged' => Kept]_vars
  <2> SUFFICES ASSUME IInv, Next, reorged' PROVE Kept
    BY DEF Kept
  <2>1. Reorg
    BY DEF Next, BuyLicenses, MineLocal, AdvanceEmpty, ReceiveBlock, Connect
  <2> DEFINE pool == mempool \cup {Original(b.tx) : b \in Disconnected}
             ops == queue \cup {b.op : b \in Disconnected}
  <2>2. /\ Branch(st') /\ mempool' = RestoredTxs(st', pool)
        /\ queue' = RestoredOps(st', ops, mempool')
    BY Zenon, <2>1, ReorgBranches
  <2>3. st'.consumed = st'.payments
    BY <2>2 DEF Branch
  <2>4. ASSUME NEW b \in WholeBundles \cup Disconnected,
               b.op.pay \notin st'.payments, b.tx.coin \notin st'.spent
        PROVE  b.op \in queue' /\ \E t \in mempool' : t.txid = b.op.pay
    <3>1. b.op \in ops /\ \E t \in pool : t.txid = b.op.pay /\ t.coin = b.tx.coin
      <4>1. CASE b \in WholeBundles
        BY <4>1 DEF WholeBundles, Bundles
      <4>2. CASE b \in Disconnected
        <5>1. tip.payments \subseteq PaymentId
          BY DEF IInv, Branch, State
        <5>2. PICK p \in tip.payments \ parent.payments :
                 /\ b.op = OpOf(p) /\ Original(b.tx) = TxOf(p)
                 /\ b.tx.txid = p /\ b.tx.coin = p[1]
          BY <4>2, <5>1, DisconnectedForm
        <5>3. TxOf(p).txid = OpOf(p).pay /\ TxOf(p).coin = p[1]
          BY DEF TxOf, OpOf
        <5> QED
          BY Zenon, <4>2, <5>2, <5>3
      <4> QED
        BY <4>1, <4>2
    <3>2. PICK t \in pool : t.txid = b.op.pay /\ t.coin = b.tx.coin
      BY <3>1
    <3>3. t \in mempool'
      BY <2>2, <2>4, <3>2 DEF RestoredTxs, TxValid
    <3>4. b.op \in queue'
      BY Zenon, <2>2, <2>3, <2>4, <3>1, <3>2, <3>3 DEF RestoredOps
    <3> QED
      BY <3>2, <3>3, <3>4
  <2> QED
    BY <2>4
<1> QED
  BY <1>1, <1>2, <1>3, PTL DEF Spec, NoPurchaseLost
=============================================================================
