---------------------------- MODULE OfflineSpend ----------------------------
(***************************************************************************)
(* Air-gapped spending on top of the ledger.  An online machine writes a   *)
(* spend request to a file, the machine that holds the owner key signs it  *)
(* into a second file after the operator stated what they expect to sign,  *)
(* and an online machine submits the pair.  Days may pass in between: the  *)
(* chain grows, the Base Fee moves, the coins may be spent by another      *)
(* command, and a transfer may give either license a new owner, which      *)
(* moves the license's payment address with it.                            *)
(***************************************************************************)
EXTENDS Ledger

CONSTANTS
    Licenses,
    InitOwner,                       \* license -> owner key at the start
    OFFLINE_SPEND_MAX_SUBMIT_BLOCKS, \* 144
    MARKER,                          \* authority_fee_marker of a license
    Payments,                        \* pairs of licenses between which is paid
    MaxFees,                         \* values of --max-fee-strikes
    MaxFiles,                        \* bound on the request files
    MaxDamage                        \* bound on damaged files

VARIABLES
    owner,      \* license -> current owner key
    requests,   \* the request files
    signed,     \* the signature files, with the fee limit the operator gave
    damaged,    \* the request and signature files that lost a bit on the way
    via         \* the request that the last step submitted, or NoRequest
ovars == <<st, foreign, owner, requests, signed, damaged, via>>

NoRequest == [none |-> TRUE]

\* A payment address is the hash of an owner key, and check_state holds every
\* license to the address of its current owner: the key stands for the address.
payment_address(l) == owner[l]

-----------------------------------------------------------------------------
(* Requests and signatures.                                                *)

OfflineSpendRequest(from, to, amount, tx) ==
    [from |-> from, to |-> to, owner_public_key |-> owner[from],
     created_height |-> st.height,
     max_submit_height |-> st.height + OFFLINE_SPEND_MAX_SUBMIT_BLOCKS,
     amount |-> amount, fee |-> required_base_fee(st.base_fee_rate),
     prevouts |-> Spent(tx, st.utxos), core |-> tx]

validate_offline_request_static(r) ==
    /\ r.amount > 0
    /\ r.max_submit_height - r.created_height \in 0..OFFLINE_SPEND_MAX_SUBMIT_BLOCKS
    /\ r.prevouts # {} /\ Len(r.core.outs) \in 1..2
    /\ \A u \in r.prevouts : OwnerOf(u) = r.owner_public_key
    /\ r.core.outs[1].amount = r.amount
    /\ Len(r.core.outs) = 2 => /\ r.core.outs[2].amount > 0
                               /\ r.core.outs[2].owner = r.owner_public_key
    /\ InputValue(r.prevouts) - OutputValue(r.core) = r.fee
    /\ Cardinality(r.core.ins) = Cardinality(r.prevouts)

\* max_fee is not in the file: it records what the operator agreed to.
OfflineSpendSignature(r, key, max_fee) ==
    [request |-> r, owner_public_key |-> r.owner_public_key, key |-> key,
     signatures |-> Cardinality(r.prevouts), max_fee |-> max_fee]

\* decode: the checksum over the whole file, then the static rules.
DecodesRequest(r) == r \notin damaged /\ validate_offline_request_static(r)
DecodesSignature(s) == s \notin damaged

-----------------------------------------------------------------------------
(* The submission checks, against the chain state of the online machine.   *)

SignatureMatches(r, s) ==
    /\ s.request = r /\ s.owner_public_key = r.owner_public_key
    /\ s.signatures = Cardinality(r.prevouts)

WithinHorizon(r) == st.height <= r.max_submit_height

InEpochWindow(r) == next_mineable_epoch(st) >= r.core.at

OnlySourceIsCurrent(r) ==
    /\ owner[r.from] = r.owner_public_key
    /\ Len(r.core.outs) = 2 => r.core.outs[2].owner = payment_address(r.from)

\* The source owner has not changed, and the destination and the change still
\* go to the addresses of the two licenses.
AuthorityIsCurrent(r) ==
    /\ owner[r.from] = r.owner_public_key
    /\ r.core.outs[1].owner = payment_address(r.to)
    /\ Len(r.core.outs) = 2 => r.core.outs[2].owner = payment_address(r.from)

InputsAreCurrent(r) ==
    \A u \in r.prevouts :
        /\ Outpoint(u) \notin mempool_reserved_inputs(st)
        /\ u \in st.utxos
        /\ spendable_at_height(u, st.height + 1)

FeeIsCurrent(r) ==
    /\ InputValue(r.prevouts) - OutputValue(r.core) = r.fee
    /\ r.fee >= required_base_fee(st.base_fee_rate)

submit_offline_spend(r, s) ==
    /\ validate_offline_request_static(r)
    /\ SignatureMatches(r, s)
    /\ WithinHorizon(r)
    /\ InEpochWindow(r)
    /\ AuthorityIsCurrent(r)
    /\ InputsAreCurrent(r)
    /\ s.key = payment_address(r.from)     \* verify_pubkey_hash_witness
    /\ FeeIsCurrent(r)

-----------------------------------------------------------------------------
OfflineInit ==
    /\ Init
    /\ owner = InitOwner
    /\ requests = {} /\ signed = {} /\ damaged = {}
    /\ via = NoRequest

\* wallet-offline-send-create, on the online machine: no key is loaded and
\* nothing is reserved.
CreateRequest(from, to, amount) ==
    /\ Cardinality(requests) < MaxFiles
    /\ amount > 0
    /\ \E tx \in create_send_transaction(st, owner[from], payment_address(to), amount) :
          LET r == OfflineSpendRequest(from, to, amount, tx)
          IN  validate_offline_request_static(r) /\ requests' = requests \cup {r}
    /\ via' = NoRequest
    /\ UNCHANGED <<st, foreign, owner, signed, damaged>>

WithinOperatorMaximum(r, max_fee) == r.fee <= max_fee

\* wallet-offline-sign: the operator names the transaction, its destination and
\* its amount as the inspection of the file showed them, a limit for the fee and
\* the label of a key; a signature file is written only if all of them fit.
Sign(r, key, max_fee) ==
    /\ DecodesRequest(r)
    /\ WithinOperatorMaximum(r, max_fee)
    /\ key = r.owner_public_key
    /\ signed' = signed \cup {OfflineSpendSignature(r, key, max_fee)}
    /\ via' = NoRequest
    /\ UNCHANGED <<st, foreign, owner, requests, damaged>>

\* wallet-offline-submit and the RPC method of the same name: load, check,
\* push to the mempool, save.
Submit(r, s) ==
    /\ DecodesRequest(r) /\ DecodesSignature(s)
    /\ submit_offline_spend(r, s)
    /\ validate_pending_candidate(st, r.core)
    /\ st' = [st EXCEPT !.mempool = Append(@, r.core)]
    /\ foreign' = FALSE
    /\ via' = r
    /\ UNCHANGED <<owner, requests, signed, damaged>>

\* A file is damaged on the removable medium.
Damage(f) ==
    /\ Cardinality(damaged) < MaxDamage
    /\ damaged' = damaged \cup {f}
    /\ via' = NoRequest
    /\ UNCHANGED <<st, foreign, owner, requests, signed>>

\* A block with a license transfer and its owner-funded fee ticket: the license
\* and its payment address pass to another key, the coins stay where they are.
TransferBlock(l, key, miner) ==
    /\ key # owner[l] /\ st.tip_epoch < MaxEpoch
    /\ \E tx \in create_send_transaction([st EXCEPT !.mempool = <<>>],
                                         owner[l], owner[l], MARKER) :
          ReceiveBlock(<<tx>>, st.tip_epoch + 1, miner)
    /\ owner' = [owner EXCEPT ![l] = key]
    /\ via' = NoRequest
    /\ UNCHANGED <<requests, signed, damaged>>

\* What the ledger does by itself: other wallet commands, mining, and blocks of
\* peers that confirm part of the mempool.
LedgerStep ==
    /\ \/ \E p \in Payments, a \in Amounts : Send(owner[p[1]], payment_address(p[2]), a)
       \/ \E l \in Licenses : MineWin(payment_address(l))
       \/ MineEmpty
       \/ \E txs \in SeqOf(Range(st.mempool), BLOCK_WEIGHT_MAX), l \in Licenses :
             st.tip_epoch < MaxEpoch /\ ReceiveBlock(txs, st.tip_epoch + 1, payment_address(l))
    /\ via' = NoRequest
    /\ UNCHANGED <<owner, requests, signed, damaged>>

OfflineNext ==
    \/ \E p \in Payments, a \in Amounts : CreateRequest(p[1], p[2], a)
    \/ \E r \in requests, k \in Owners, x \in MaxFees : Sign(r, k, x)
    \/ \E r \in requests, s \in signed : Submit(r, s)
    \/ \E f \in (requests \cup signed) \ damaged : Damage(f)
    \/ \E l \in Licenses, k \in Owners : TransferBlock(l, k, payment_address(l))
    \/ LedgerStep

OfflineSpec == OfflineInit /\ [][OfflineNext]_ovars

-----------------------------------------------------------------------------
\* Between the signature and the submission a transfer may give the destination
\* or the source license to another key.  What a submission puts in the mempool
\* pays whoever owns the destination license now and spends coins of whoever
\* owns the source license now, never a former owner.
SubmissionPaysPresentOwners ==
    [][via' # NoRequest =>
          /\ via'.core.outs[1].owner = owner[via'.to]
          /\ \A u \in via'.prevouts : OwnerOf(u) = owner[via'.from]]_ovars

=============================================================================
