------------------------------ MODULE Licenses ------------------------------
(***************************************************************************)
(* Mining Licenses and the protocol operations on them: owner transfers,   *)
(* mining-key rotations, punishment evidence and mining presence; the      *)
(* queue of pending operations, the selection of a candidate, the          *)
(* application of a block, and what a reorganization puts back into the    *)
(* queue.  A key stands for itself and an operation for its OperationID; a *)
(* signature is the key that made it.  The fee ticket of an authority      *)
(* operation is bundled with it as the address that pays.                  *)
(***************************************************************************)
EXTENDS Integers, FiniteSets, FiniteSetsExt, Sequences, SequencesExt

CONSTANTS
    Licenses, Actors,   \* the licenses, and those whose keyholders act
    Keys, FirstKey,     \* owner and mining keys; every license starts with FirstKey
    Kinds,              \* the kinds of operation in use
    Tiers, EvidenceIds, \* offense tiers, and fixture variants of an offense
    STRIKE_DECAY_EPOCHS, REVOCATION_THRESHOLD,
    SUSPENSION_SHIFT,   \* 5
    PACK_K_EPOCH,       \* the activation epoch of mining presence
    PRESENCE_WINDOW,    \* MINING_PRESENCE_WINDOW_EPOCHS
    MaxHeight, MaxEpoch, MaxQueue, MaxBlockOps, MaxOffences  \* bounds of the model

VARIABLES
    st,        \* the license part of the canonical state
    chain,     \* what the canonical state was right after each of its blocks
    queue,     \* pending_protocol_operations
    offences,  \* the signed misbehaviour that exists in the world
    reorged    \* the last step adopted another branch
vars == <<st, chain, queue, offences, reorged>>

-----------------------------------------------------------------------------
(* State of a license and scheduled transitions.                           *)

ACTIVE == "active"
REVOKED == "revoked"

License == [owner_key |-> FirstKey, owner_seq |-> 0, mining_key |-> FirstKey, mining_seq |-> 0,
            status |-> ACTIVE, strike_weight |-> 0, suspended_until |-> 0]

Genesis == [height |-> 0, epoch |-> 0, licenses |-> [l \in Licenses |-> License],
            historical |-> {}, consumed |-> {}, events |-> {},
            presence |-> [l \in Licenses |-> {}], confirmed |-> {}]

is_eligible(s, l, epoch) ==
    s.licenses[l].status = ACTIVE /\ epoch >= s.licenses[l].suspended_until

offense_weight(tier) == 2 ^ (tier - 1)

Weight(events, l) ==
    MapThenSumSet(LAMBDA v : offense_weight(v.tier), {v \in events : v.lic = l})

\* apply_scheduled_license_transitions with punishment::expire_events, for
\* every epoch up to and including the given one.
ScheduledTransitions(s, epoch) ==
    LET live == {v \in s.events : v.expiry > epoch}
    IN  [s EXCEPT !.epoch = epoch, !.events = live,
                  !.licenses = [l \in Licenses |->
                      IF @[l].status = REVOKED THEN @[l]
                      ELSE [@[l] EXCEPT !.strike_weight = Weight(live, l)]]]

-----------------------------------------------------------------------------
(* Operations.                                                             *)

AuthorityOp(kind, s, l, key) ==
    [kind |-> kind, lic |-> l, owner_seq |-> s.licenses[l].owner_seq,
     mining_seq |-> s.licenses[l].mining_seq, new_key |-> key,
     signer |-> s.licenses[l].owner_key, ticket |-> s.licenses[l].owner_key]

\* Tier 2 is an equivocation of the owner key, tiers 1 and 3 of the mining key.
EvidenceOp(s, l, tier, id) ==
    [kind |-> "evidence", lic |-> l, tier |-> tier, id |-> id,
     owner_seq |-> s.licenses[l].owner_seq, mining_seq |-> s.licenses[l].mining_seq,
     signer |-> IF tier = 2 THEN s.licenses[l].owner_key ELSE s.licenses[l].mining_key]

PresenceOp(s, l, epoch) ==
    [kind |-> "presence", lic |-> l, mining_seq |-> s.licenses[l].mining_seq,
     epoch |-> epoch, signer |-> s.licenses[l].mining_key]

IsAuthority(op) == op.kind \in {"transfer", "rotate"}
Rank(op) == CASE op.kind = "transfer" -> 3 [] op.kind = "rotate" -> 4
              [] op.kind = "evidence" -> 5 [] op.kind = "presence" -> 8
Sorted(ops) == SetToSortSeq(ops, LAMBDA a, b : Rank(a) < Rank(b))

\* The keys a license had at given sequence numbers: the current ones or the
\* historical snapshots; no answer for a number that is not reached yet.
MiningKeyCurrentOnly(s, l, seq) ==
    IF seq = s.licenses[l].mining_seq THEN {s.licenses[l].mining_key} ELSE {}

mining_key_at_sequence(s, l, seq) ==
    IF seq = s.licenses[l].mining_seq THEN {s.licenses[l].mining_key}
    ELSE {h.mining_key : h \in {h \in s.historical : h.lic = l /\ h.mining_seq = seq}}

owner_key_at_sequences(s, l, oseq, mseq) ==
    IF oseq = s.licenses[l].owner_seq /\ mseq = s.licenses[l].mining_seq
    THEN {s.licenses[l].owner_key}
    ELSE {h.owner_key : h \in {h \in s.historical :
              h.lic = l /\ h.owner_seq = oseq /\ h.mining_seq = mseq}}

\* The keys whose signature the two halves of an evidence must carry.
EvidenceKeys(s, op) ==
    IF op.tier = 2 THEN owner_key_at_sequences(s, op.lic, op.owner_seq, op.mining_seq)
    ELSE mining_key_at_sequence(s, op.lic, op.mining_seq)

\* validate_objective_evidence: "future" while the sequence is not reached,
\* "invalid" (an error) when the signature is of another key.
validate_objective_evidence(s, op) ==
    LET lic == s.licenses[op.lic]
    IN  IF \/ op.mining_seq > lic.mining_seq
           \/ op.tier = 2 /\ op.owner_seq > lic.owner_seq THEN "future"
        ELSE IF EvidenceKeys(s, op) = {op.signer} THEN "valid" ELSE "invalid"

\* MiningPresenceV1::verify_against
PresenceValid(s, op, epoch) ==
    /\ epoch >= PACK_K_EPOCH
    /\ op.epoch = epoch
    /\ s.licenses[op.lic].status # REVOKED
    /\ op.mining_seq = s.licenses[op.lic].mining_seq
    /\ op.signer = s.licenses[op.lic].mining_key

prevalidate_block_operations(s, ops, epoch) ==
    LET present == {op \in ops : op.kind = "presence"}
        authority == {op.lic : op \in {op \in ops : IsAuthority(op)}}
    IN  \A op \in present :
            /\ PresenceValid(s, op, epoch)
            /\ op.lic \notin authority
            /\ \A other \in present : other.lic = op.lic => other = op

-----------------------------------------------------------------------------
(* Application of one operation to w: the state so far and the licenses    *)
(* whose authority this block has already changed.                         *)

Fail(w) == [w EXCEPT !.ok = FALSE]

authority_fee_ticket_matches(s, op) == op.ticket = s.licenses[op.lic].owner_key

\* store_historical_keys: the authority that the operation replaces.
HistoricalKeys(s, op) ==
    [op |-> op, lic |-> op.lic,
     owner_key |-> s.licenses[op.lic].owner_key, owner_seq |-> op.owner_seq,
     mining_key |-> s.licenses[op.lic].mining_key, mining_seq |-> op.mining_seq]

\* What apply_license_transfer and apply_mining_key_rotation require, with the
\* fee ticket and the uniqueness of the snapshot.
AuthorityReady(w, op) ==
    LET lic == w.s.licenses[op.lic]
    IN  /\ op.lic \notin w.targets
        /\ authority_fee_ticket_matches(w.s, op)
        /\ lic.status # REVOKED
        /\ op.owner_seq = lic.owner_seq /\ op.mining_seq = lic.mining_seq
        /\ op.signer = lic.owner_key
        /\ ~ \E h \in w.s.historical : h.op = op

RotationWithoutSnapshot(w, op) ==
    IF ~AuthorityReady(w, op) THEN Fail(w)
    ELSE [w EXCEPT !.targets = @ \cup {op.lic},
            !.s.licenses[op.lic].mining_key = op.new_key,
            !.s.licenses[op.lic].mining_seq = @ + 1,
            !.s.licenses[op.lic].owner_key = IF op.kind = "transfer" THEN op.new_key ELSE @,
            !.s.licenses[op.lic].owner_seq = IF op.kind = "transfer" THEN @ + 1 ELSE @,
            !.s.historical = IF op.kind = "rotate" THEN @ ELSE @ \cup {HistoricalKeys(w.s, op)}]

ApplyAuthority(w, op) ==
    IF ~AuthorityReady(w, op) THEN Fail(w)
    ELSE [w EXCEPT !.targets = @ \cup {op.lic},
            !.s.licenses[op.lic].mining_key = op.new_key,
            !.s.licenses[op.lic].mining_seq = @ + 1,
            !.s.licenses[op.lic].owner_key = IF op.kind = "transfer" THEN op.new_key ELSE @,
            !.s.licenses[op.lic].owner_seq = IF op.kind = "transfer" THEN @ + 1 ELSE @,
            !.s.historical = @ \cup {HistoricalKeys(w.s, op)}]

apply_offense(lic, tier, epoch) ==
    LET weight == lic.strike_weight + offense_weight(tier)
    IN  IF weight >= REVOCATION_THRESHOLD
        THEN [lic EXCEPT !.strike_weight = REVOCATION_THRESHOLD, !.status = REVOKED]
        ELSE [lic EXCEPT !.strike_weight = weight,
                         !.suspended_until = Max({@, epoch}) + 2 ^ (SUSPENSION_SHIFT + weight)]

\* punishment::apply_operation
ApplyEvidence(w, op, epoch) ==
    IF \/ op \in w.s.consumed
       \/ validate_objective_evidence(w.s, op) # "valid"
       \/ w.s.licenses[op.lic].status = REVOKED
    THEN Fail(w)
    ELSE [w EXCEPT !.s.licenses[op.lic] = apply_offense(@, op.tier, epoch),
                   !.s.consumed = @ \cup {op},
                   !.s.events = @ \cup {[op |-> op, lic |-> op.lic, tier |-> op.tier,
                                         expiry |-> epoch + STRIKE_DECAY_EPOCHS]}]

\* presence::apply_validated_operation: one record per license, the newest.
ApplyPresence(w, op) ==
    [w EXCEPT !.s.presence[op.lic] =
        {[mining_seq |-> op.mining_seq, epoch |-> op.epoch, signer |-> op.signer]}]

ApplyOp(w, op, epoch) ==
    IF ~w.ok THEN w
    ELSE CASE IsAuthority(op) -> ApplyAuthority(w, op)
           [] op.kind = "evidence" -> ApplyEvidence(w, op, epoch)
           [] op.kind = "presence" -> ApplyPresence(w, op)

apply_protocol_operations(s, ops, epoch) ==
    FoldLeft(LAMBDA w, op : ApplyOp(w, op, epoch),
             [ok |-> prevalidate_block_operations(s, ops, epoch), s |-> s, targets |-> {}],
             Sorted(ops))

-----------------------------------------------------------------------------
(* Eligibility under mining presence.                                      *)

license_has_fresh_presence(s, l, epoch) ==
    \/ epoch < PACK_K_EPOCH
    \/ \E p \in s.presence[l] : /\ p.mining_seq = s.licenses[l].mining_seq
                                /\ p.epoch <= epoch /\ epoch - p.epoch < PRESENCE_WINDOW

participation_eligible(s, epoch) ==
    {l \in Licenses : is_eligible(s, l, epoch) /\ license_has_fresh_presence(s, l, epoch)}

\* candidate_eligible_count: 0 stands for its errors.
candidate_eligible_count(s, l, ops, epoch) ==
    LET count == Cardinality(participation_eligible(s, epoch))
        self == {op \in ops : op.kind = "presence" /\ op.lic = l}
    IN  IF ~is_eligible(s, l, epoch) THEN 0
        ELSE IF license_has_fresh_presence(s, l, epoch) THEN count
        ELSE IF Cardinality(self) = 1 /\ \A op \in self : PresenceValid(s, op, epoch)
             THEN count + 1 ELSE 0

-----------------------------------------------------------------------------
(* Blocks.  `parent` is the state before the block, `epoch` its epoch.     *)

validate_and_apply_block(parent, epoch, miner, ops) ==
    LET s == ScheduledTransitions(parent, epoch)
        w == apply_protocol_operations(s, ops, epoch)
    IN  IF /\ epoch > parent.epoch
           /\ candidate_eligible_count(s, miner, ops, epoch) > 0
           /\ w.ok
        THEN [ok |-> TRUE, state |-> [w.s EXCEPT !.height = @ + 1, !.confirmed = @ \cup ops]]
        ELSE [ok |-> FALSE]

\* sorted_pending_protocol_operations_for_epoch: Poison when one queued
\* operation makes the whole selection an error.
Stale(s, op) == \/ op.owner_seq < s.licenses[op.lic].owner_seq
                \/ op.mining_seq < s.licenses[op.lic].mining_seq
Future(s, op) == \/ op.owner_seq > s.licenses[op.lic].owner_seq
                 \/ op.mining_seq > s.licenses[op.lic].mining_seq
AuthorityInQueue(q) == {op \in q : IsAuthority(op)}
EvidenceInQueue(q) == {op \in q : op.kind = "evidence"}
PresenceNow(q, epoch) == {op \in q : op.kind = "presence" /\ op.epoch = epoch}

Poisoned(s, q, epoch) ==
    \/ \E op \in AuthorityInQueue(q) : Stale(s, op)
    \/ \E op \in EvidenceInQueue(q) : validate_objective_evidence(s, op) = "invalid"
    \/ \E op \in PresenceNow(q, epoch) :
          \/ ~PresenceValid(s, op, epoch)
          \/ \E other \in AuthorityInQueue(q) : other.lic = op.lic /\ ~Future(s, other)
          \/ \E other \in PresenceNow(q, epoch) : other # op /\ other.lic = op.lic

SelectedWithFuture(s, q, epoch) ==
    {auth \cup {op \in EvidenceInQueue(q) : validate_objective_evidence(s, op) = "valid"}
          \cup PresenceNow(q, epoch) :
        auth \in {a \in SUBSET AuthorityInQueue(q) :
                    {op.lic : op \in a} = {op.lic : op \in AuthorityInQueue(q)}
                    /\ \A x, y \in a : x.lic = y.lic => x = y}}

\* One operation per license among the authority operations that are due
\* (the first by kind and hash), the evidence whose sequence is reached, and
\* the presence of this epoch.
Selected(s, q, epoch) ==
    LET due == {op \in AuthorityInQueue(q) : ~Future(s, op)}
    IN  {auth \cup {op \in EvidenceInQueue(q) : validate_objective_evidence(s, op) = "valid"}
              \cup PresenceNow(q, epoch) :
            auth \in {a \in SUBSET due :
                        /\ {op.lic : op \in a} = {op.lic : op \in due}
                        /\ \A x, y \in a : x.lic = y.lic => x = y
                        /\ \A x \in a, y \in due : x.lic = y.lic => Rank(x) <= Rank(y)}}

CandidateWithoutSelfPresence(s, q, epoch, l) ==
    IF Poisoned(s, q, epoch) THEN {} ELSE Selected(s, q, epoch)

\* candidate_protocol_operations: the miner adds its own presence unless it is
\* queued, or unless its authority changes in this very block.
CandidateOperations(s, q, epoch, l) ==
    IF Poisoned(s, q, epoch) THEN {}
    ELSE IF epoch < PACK_K_EPOCH THEN Selected(s, q, epoch)
    ELSE {IF \E op \in ops : IsAuthority(op) /\ op.lic = l THEN ops
          ELSE IF \E op \in ops : op.kind = "presence" /\ op.lic = l THEN ops
          ELSE ops \cup {PresenceOp(s, l, epoch)} :
            ops \in {o \in Selected(s, q, epoch) :
                        \/ license_has_fresh_presence(s, l, epoch)
                        \/ ~ \E op \in o : IsAuthority(op) /\ op.lic = l}}

\* mine_epoch_with_signer with a winning ticket: the candidates that succeed.
Candidates(q, epoch, l) ==
    LET s == ScheduledTransitions(st, epoch)
    IN  {ops \in IF is_eligible(s, l, epoch) THEN CandidateOperations(s, q, epoch, l) ELSE {} :
            validate_and_apply_block(st, epoch, l, ops).ok}

-----------------------------------------------------------------------------
Init ==
    /\ st = Genesis /\ chain = <<Genesis>>
    /\ queue = {} /\ offences = {} /\ reorged = FALSE

Enqueue(op) ==
    /\ Cardinality(queue) < MaxQueue
    /\ queue' = queue \cup {op}
    /\ reorged' = FALSE
    /\ UNCHANGED <<st, chain>>

NoPendingAuthority(l) == \A op \in AuthorityInQueue(queue) : op.lic # l

QueueTransfer(l, key) ==
    /\ "transfer" \in Kinds /\ NoPendingAuthority(l)
    /\ Enqueue(AuthorityOp("transfer", st, l, key)) /\ UNCHANGED offences

QueueRotation(l, key) ==
    /\ "rotate" \in Kinds /\ NoPendingAuthority(l)
    /\ Enqueue(AuthorityOp("rotate", st, l, key)) /\ UNCHANGED offences

queued_weight_for_license(l) ==
    MapThenSumSet(LAMBDA op : offense_weight(op.tier), {op \in EvidenceInQueue(queue) : op.lic = l})

\* punish-dev: evidence against the current keys, unless what is active and
\* queued already reaches the threshold.
QueueEvidence(l, tier, id) ==
    LET op == EvidenceOp(st, l, tier, id)
    IN  /\ "evidence" \in Kinds /\ Cardinality(offences \cup {op}) <= MaxOffences
        /\ st.licenses[l].status # REVOKED
        /\ st.licenses[l].strike_weight + queued_weight_for_license(l) < REVOCATION_THRESHOLD
        /\ op \notin st.consumed \cup queue
        /\ Enqueue(op)
        /\ offences' = offences \cup {op}

\* wallet-mining-presence for an epoch of the user's choice.
QueuePresence(l, epoch) ==
    LET op == PresenceOp(st, l, epoch)
    IN  /\ "presence" \in Kinds
        /\ PresenceValid(st, op, epoch) /\ op \notin queue
        /\ Enqueue(op) /\ UNCHANGED offences

\* A license signs something that is evidence against it, and nobody here
\* queues it: peers may put it into their blocks.
Misbehave(l, tier, id) ==
    /\ "evidence" \in Kinds /\ Cardinality(offences) < MaxOffences
    /\ offences' = offences \cup {EvidenceOp(st, l, tier, id)}
    /\ UNCHANGED <<st, chain, queue, reorged>>

\* Blocks confirm operations; whatever they confirm leaves the queue.
Connect(state, ops) ==
    /\ st' = state /\ chain' = Append(chain, state)
    /\ queue' = queue \ ops
    /\ reorged' = FALSE
    /\ UNCHANGED offences

MineLocal(l) ==
    /\ st.height < MaxHeight /\ st.epoch < MaxEpoch
    /\ \E ops \in Candidates(queue, st.epoch + 1, l) :
          Connect(validate_and_apply_block(st, st.epoch + 1, l, ops).state, ops)

\* advance-empty, and a mining attempt without a winning ticket.
AdvanceEmpty ==
    /\ st.epoch < MaxEpoch
    /\ st' = ScheduledTransitions(st, st.epoch + 1)
    /\ reorged' = FALSE
    /\ UNCHANGED <<chain, queue, offences>>

\* What a peer may put into a block on parent p: operations that keyholders
\* signed for this branch, and evidence of offences.
PeerOps(p, epoch) ==
    {AuthorityOp(k, p, l, key) : k \in Kinds \cap {"transfer", "rotate"}, l \in Actors, key \in Keys}
    \cup offences
    \cup {PresenceOp(p, l, epoch) : l \in IF "presence" \in Kinds THEN Licenses ELSE {}}

PeerBlocks(p, epoch) ==
    {ops \in kSubset(0, PeerOps(p, epoch)) \cup kSubset(1, PeerOps(p, epoch))
             \cup (IF MaxBlockOps > 1 THEN kSubset(2, PeerOps(p, epoch)) ELSE {}) :
        \E m \in Licenses : validate_and_apply_block(p, epoch, m, ops).ok}

AfterPeerBlock(p, epoch, ops) ==
    LET m == CHOOSE m \in Licenses : validate_and_apply_block(p, epoch, m, ops).ok
    IN  validate_and_apply_block(p, epoch, m, ops).state

ReceiveBlock(epoch) ==
    /\ st.height < MaxHeight
    /\ \E ops \in PeerBlocks(st, epoch) : Connect(AfterPeerBlock(st, epoch, ops), ops)

\* restore_reorg_mempool: the queue and the operations of the disconnected
\* blocks ...
ReorgCandidates(fork) == queue \cup (st.confirmed \ fork.confirmed)

\* ... except presence, except evidence the new branch has consumed, and
\* except authority operations whose fee ticket cannot return to the mempool
\* (it is confirmed on the new branch, or not spendable there: `lost`).
Restored(s, candidates, lost) ==
    {op \in candidates : /\ op.kind # "presence"
                         /\ op.kind = "evidence" => op \notin s.consumed
                         /\ IsAuthority(op) => op \notin lost \cup s.confirmed}

\* reconcile_validated_remote: a branch of two blocks from the parent of our
\* tip replaces the tip.
Reorg ==
    LET fork == chain[Len(chain) - 1]
        cands == ReorgCandidates(fork)
    IN  /\ Len(chain) > 1 /\ st.height < MaxHeight
        /\ \E e1 \in (fork.epoch + 1)..(MaxEpoch - 1) : \E ops1 \in PeerBlocks(fork, e1) :
              LET s1 == AfterPeerBlock(fork, e1, ops1)
              IN  \E ops2 \in PeerBlocks(s1, e1 + 1) :
                    LET s2 == AfterPeerBlock(s1, e1 + 1, ops2)
                    IN  /\ s1 # st
                        /\ st' = s2
                        /\ chain' = SubSeq(chain, 1, Len(chain) - 1) \o <<s1, s2>>
                        /\ \E lost \in SUBSET AuthorityInQueue(cands) :
                              queue' = Restored(s2, cands, lost)
        /\ reorged' = TRUE
        /\ UNCHANGED offences

Next ==
    \/ \E l \in Actors, k \in Keys : QueueTransfer(l, k) \/ QueueRotation(l, k)
    \/ \E l \in Actors, t \in Tiers, i \in EvidenceIds : QueueEvidence(l, t, i) \/ Misbehave(l, t, i)
    \/ \E l \in Actors, e \in (st.epoch + 1)..MaxEpoch : QueuePresence(l, e)
    \/ \E l \in Licenses : MineLocal(l)
    \/ AdvanceEmpty
    \/ \E e \in (st.epoch + 1)..MaxEpoch : ReceiveBlock(e)
    \/ Reorg

Spec == Init /\ [][Next]_vars

-----------------------------------------------------------------------------
\* Type invariant: in particular strikes stop at the revocation threshold and
\* presence_records holds at most one record per license.
TypeOK ==
    /\ st.height \in 0..MaxHeight /\ st.epoch \in 0..MaxEpoch
    /\ Len(chain) = st.height + 1
    /\ \A l \in Licenses :
          /\ st.licenses[l].status \in {ACTIVE, REVOKED}
          /\ st.licenses[l].strike_weight \in 0..REVOCATION_THRESHOLD
          /\ Cardinality(st.presence[l]) <= 1
    /\ \A op \in queue : op.kind \in Kinds
    /\ reorged \in BOOLEAN

\* store_historical_keys keeps exactly one snapshot of every authority a
\* license has had on this branch, whichever mixture of transfers, rotations
\* and reorganizations led here, so that no past signature becomes
\* unverifiable or ambiguous.
AuthorityHistoryComplete ==
    \A l \in Licenses : \A seq \in 0..(st.licenses[l].mining_seq - 1) :
        Cardinality({h \in st.historical : h.lic = l /\ h.mining_seq = seq}) = 1

\* A license cannot shed an offence by changing its keys: evidence that the
\* chain would accept is acceptable after every further block of the branch,
\* until it has been consumed or the license revoked.
EvidenceStaysValid ==
    [][~reorged' => \A op \in offences :
          validate_objective_evidence(st, op) = "valid"
              => validate_objective_evidence(st', op) = "valid"]_vars

\* check_state of punishment: the strikes of a license are the offences that
\* have not decayed, none of them is kept past its decay, and the weight is
\* pinned at the threshold exactly for revoked licenses.
StrikesMatchOffences ==
    /\ \A v \in st.events : v.expiry > st.epoch /\ v.op \in st.consumed
    /\ \A l \in Licenses :
          IF st.licenses[l].status = REVOKED
          THEN st.licenses[l].strike_weight = REVOCATION_THRESHOLD
          ELSE st.licenses[l].strike_weight = Weight(st.events, l)

\* The comment on sorted_pending_protocol_operations_for_epoch: operations of
\* a future sequence stay queued instead of poisoning the block.  As long as
\* nothing in the queue is stale or accuses a revoked license, an eligible
\* miner can build the next block out of it.
FutureOperationsDoNotPoison ==
    \A l \in Licenses :
        (/\ is_eligible(ScheduledTransitions(st, st.epoch + 1), l, st.epoch + 1)
         /\ st.epoch + 1 < PACK_K_EPOCH
         /\ \A op \in AuthorityInQueue(queue) :
                ~Stale(st, op) /\ st.licenses[op.lic].status # REVOKED
                /\ (Future(st, op) \/ op.signer = st.licenses[op.lic].owner_key)
         /\ EvidenceInQueue(queue) = {})
        => Candidates(queue, st.epoch + 1, l) # {}

\* A license counts as participating only on the strength of a presence that
\* its present mining key signed within the window: a rotation or a transfer
\* ends the presence of the key it replaced.
ParticipationIsOfCurrentKey ==
    \A l \in participation_eligible(st, st.epoch) :
        st.epoch >= PACK_K_EPOCH =>
            \E p \in st.presence[l] : /\ p.signer = st.licenses[l].mining_key
                                      /\ p.epoch + PRESENCE_WINDOW > st.epoch

\* Mining presence never locks the chain: with nothing queued, every license
\* that is not suspended or revoked can mine the next epoch, however long it
\* was absent and whatever its keys went through.
EligibleMinerIsNeverLockedOut ==
    \A l \in Licenses :
        is_eligible(ScheduledTransitions(st, st.epoch + 1), l, st.epoch + 1)
            => Candidates({}, st.epoch + 1, l) # {}
=============================================================================
