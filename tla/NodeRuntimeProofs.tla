------------------------- MODULE NodeRuntimeProofs --------------------------
(***************************************************************************)
(* Proofs about NodeRuntime, for every set of threads, peers and           *)
(* transactions, whatever chains the peers serve, and every number of      *)
(* faults and crashes: the node only ever holds valid chains, one thread   *)
(* at a time synchronizes, and on Mainnet memory is what the disk holds    *)
(* and the chain changes only for one with more work.                      *)
(***************************************************************************)
EXTENDS NodeRuntime, SequenceTheorems, FiniteSetTheorems, WellFoundedInduction, TLAPS

\* A validated chain.
GoodChain(c) == c \in Seq(Block) /\ Len(c) > 0 /\ Valid(c)

\* Pending transactions that one block can confirm.
Compatible(pending) == \A t, u \in pending : Coin[t] = Coin[u] => t = u

\* A state that may be published and saved.
States == [chain : Seq(Block), epoch : Int, mempool : SUBSET Txs, side : Seq(Seq(Block))]
GoodSide(side) == side \in Seq(Seq(Block)) /\ Len(side) <= MAX_SIDE_BRANCHES
GoodState(s) ==
    /\ s \in States /\ GoodChain(s.chain) /\ s.epoch >= TipEpoch(s.chain)
    /\ Compatible(s.mempool) /\ GoodSide(s.side)

-----------------------------------------------------------------------------
\* The epoch and the transactions of a chain.
LEMMA ChainFacts ==
  ASSUME NEW c, GoodChain(c)
  PROVE  /\ Len(c) \in Nat /\ Len(c) > 0 /\ \A i \in 1 .. Len(c) : c[i] \in Block
         /\ TipEpoch(c) \in Int
         /\ Confirmed(c) \in SUBSET Txs /\ Compatible(Confirmed(c))
         /\ Path(c) \in Seq(Miners \X Int)
<1>1. /\ Len(c) \in Nat /\ Len(c) > 0 /\ Len(c) \in 1 .. Len(c)
      /\ \A i \in 1 .. Len(c) : c[i] \in Block
  BY ElementOfSeq, LenProperties DEF GoodChain
<1>2. TipEpoch(c) \in Int
  BY <1>1 DEF TipEpoch, Block
<1>3. Confirmed(c) \in SUBSET Txs
  BY <1>1 DEF Confirmed, Block
<1>4. Compatible(Confirmed(c))
  BY DEF Compatible, Confirmed, GoodChain, Valid
<1>5. Path(c) \in Seq(Miners \X Int)
  <2>1. c[Len(c)].parent \in Seq(Miners \X Int) /\ c[Len(c)].by \in Miners \X Int
    BY <1>1 DEF Block
  <2> QED
    BY <2>1, AppendProperties DEF Path
<1> QED
  BY <1>1, <1>2, <1>3, <1>4, <1>5

\* What a reorganization disconnects was confirmed by the old chain.
LEMMA DisconnectedConfirmed ==
  ASSUME NEW c \in Seq(Block), NEW k \in Nat
  PROVE  Confirmed(SubSeq(c, k + 1, Len(c))) \subseteq Confirmed(c)
<1>1. Len(c) \in Nat /\ \A i \in k + 1 .. Len(c) : c[i] \in Block
  BY ElementOfSeq, LenProperties
<1> DEFINE d == SubSeq(c, k + 1, Len(c))
<1>2. /\ Len(d) = IF k + 1 <= Len(c) THEN Len(c) - (k + 1) + 1 ELSE 0
      /\ \A i \in 1 .. Len(c) - (k + 1) + 1 : d[i] = c[(k + 1) + i - 1]
  BY <1>1, SubSeqProperties
<1>3. \A i \in 1 .. Len(d) : k + i \in 1 .. Len(c) /\ d[i] = c[k + i]
  BY <1>1, <1>2
<1> QED
  BY Zenon, <1>3 DEF Confirmed

\* Where two chains part is a height.
LEMMA AncestorHeight ==
  ASSUME NEW a \in Seq(Block), NEW b
  PROVE  common_ancestor_height(a, b) \in Nat
<1>1. Len(a) \in Nat
  BY LenProperties
<1>2. IsFiniteSet(1 .. Len(a))
  BY <1>1, FS_Interval
<1>3. IsFiniteSet({i \in 1 .. Len(a) : i <= Len(b) /\ SubSeq(a, 1, i) = SubSeq(b, 1, i)})
  BY <1>2, FS_Subset
<1> QED
  BY <1>3, FS_CardinalityType DEF common_ancestor_height

\* Merged pending work never holds two spends of one coin.
LEMMA MergeCompatible ==
  ASSUME NEW c, NEW first \in SUBSET Txs, Compatible(first),
         NEW second \in SUBSET Txs, Compatible(second)
  PROVE  Merge(c, first, second) \in SUBSET Txs /\ Compatible(Merge(c, first, second))
BY DEF Merge, StillValid, Compatible

\* archive_branch keeps the limit on side branches.
LEMMA ArchiveBounded ==
  ASSUME NEW side, GoodSide(side), NEW c \in Seq(Block)
  PROVE  GoodSide(archive_branch(side, c))
<1> DEFINE s == Append(side, c)
<1>1. /\ side \in Seq(Seq(Block)) /\ Len(side) \in Nat /\ Len(side) <= MAX_SIDE_BRANCHES
      /\ MAX_SIDE_BRANCHES \in Nat
  BY RuntimeAssumption, LenProperties DEF GoodSide
<1>2. s \in Seq(Seq(Block)) /\ s # <<>> /\ Len(s) = Len(side) + 1
  BY <1>1, AppendProperties
<1>3. Tail(s) \in Seq(Seq(Block)) /\ Len(Tail(s)) = Len(s) - 1
  BY <1>2, HeadTailProperties
<1> QED
  BY <1>1, <1>2, <1>3 DEF archive_branch, GoodSide

\* The state of a validated chain.
LEMMA StateGood ==
  ASSUME NEW c, GoodChain(c), NEW pending \in SUBSET Txs, Compatible(pending),
         NEW side, GoodSide(side)
  PROVE  /\ GoodState(State(c, pending, side))
         /\ State(c, pending, side).chain = c
<1>1. TipEpoch(c) \in Int
  BY ChainFacts
<1> QED
  BY <1>1 DEF GoodState, GoodChain, GoodSide, State, States

\* A state with other pending work.
LEMMA WithMempoolGood ==
  ASSUME NEW s, GoodState(s), NEW pending \in SUBSET Txs, Compatible(pending)
  PROVE  GoodState(WithMempool(s, pending))
BY DEF GoodState, WithMempool, States

\* refresh_pending_after_runtime_commit
LEMMA RefreshGood ==
  ASSUME NEW candidate, GoodState(candidate), NEW current, GoodState(current)
  PROVE  GoodState(refresh_pending(candidate, current))
<1>1. /\ current.mempool \in SUBSET Txs /\ Compatible(current.mempool)
      /\ candidate.mempool \in SUBSET Txs /\ Compatible(candidate.mempool)
  BY DEF GoodState, States
<1>2. PICK p \in SUBSET Txs : /\ p = Merge(candidate.chain, current.mempool, candidate.mempool)
                              /\ Compatible(p)
  BY <1>1, MergeCompatible
<1> QED
  BY <1>2, WithMempoolGood DEF refresh_pending

\* A synchronization ends in the state it began with or in one of the peer's
\* chain.
LEMMA SyncGood ==
  ASSUME NEW s, GoodState(s), NEW c, GoodChain(c)
  PROVE  GoodState(sync_state_from_peer(s, c))
<1>1. /\ s.mempool \in SUBSET Txs /\ Compatible(s.mempool)
      /\ GoodChain(s.chain) /\ s.chain \in Seq(Block) /\ GoodSide(s.side)
  BY DEF GoodState, States, GoodChain
<1>2. GoodState(State(c, Unconfirmed(c, s.mempool), s.side))
  <2>1. Unconfirmed(c, s.mempool) \in SUBSET Txs /\ Compatible(Unconfirmed(c, s.mempool))
    BY <1>1 DEF Unconfirmed, Compatible
  <2> QED
    BY <1>1, <2>1, StateGood
<1>3. GoodState(reconcile(s, c))
  <2>1. PICK k \in Nat : k = common_ancestor_height(s.chain, c)
    BY <1>1, AncestorHeight
  <2>2. PICK d \in SUBSET Txs : /\ d = Confirmed(SubSeq(s.chain, k + 1, Len(s.chain)))
                                /\ Compatible(d)
    <3>1. Confirmed(s.chain) \in SUBSET Txs /\ Compatible(Confirmed(s.chain))
      BY <1>1, ChainFacts
    <3>2. Confirmed(SubSeq(s.chain, k + 1, Len(s.chain))) \subseteq Confirmed(s.chain)
      BY <1>1, DisconnectedConfirmed
    <3> QED
      BY <3>1, <3>2 DEF Compatible
  <2>3. PICK p \in SUBSET Txs : p = restore_reorg_mempool(c, s) /\ Compatible(p)
    <3>1. restore_reorg_mempool(c, s) = Merge(c, s.mempool, d)
      BY <2>1, <2>2 DEF restore_reorg_mempool
    <3> QED
      BY <3>1, <2>2, <1>1, MergeCompatible
  <2>4. GoodSide(archive_branch(s.side, s.chain))
    BY <1>1, ArchiveBounded
  <2> QED
    BY <2>3, <2>4, StateGood DEF reconcile
<1> QED
  BY <1>2, <1>3 DEF sync_state_from_peer

\* A chain with one more block.
LEMMA AppendFacts ==
  ASSUME NEW c \in Seq(Block), NEW b \in Block
  PROVE  /\ Append(c, b) \in Seq(Block) /\ Len(c) \in Nat /\ Len(Append(c, b)) = Len(c) + 1
         /\ \A i \in 1 .. Len(c) : Append(c, b)[i] = c[i]
         /\ Append(c, b)[Len(c) + 1] = b
         /\ \A i \in 1 .. Len(c) : SubSeq(Append(c, b), 1, i) = SubSeq(c, 1, i)
<1>1. /\ Append(c, b) \in Seq(Block) /\ Len(c) \in Nat /\ Len(Append(c, b)) = Len(c) + 1
      /\ \A i \in 1 .. Len(c) : Append(c, b)[i] = c[i]
      /\ Append(c, b)[Len(c) + 1] = b
  BY AppendProperties, LenProperties
<1>2. ASSUME NEW i \in 1 .. Len(c) PROVE SubSeq(Append(c, b), 1, i) = SubSeq(c, 1, i)
  <2>1. <<b>> \in Seq(Block) /\ Append(c, b) = c \o <<b>> /\ 1 \in 1 .. Len(c)
    BY <1>1, AppendIsConcat
  <2>2. SubSeq(c \o <<b>>, 1, i) = SubSeq(c, 1, i)
    BY <2>1, SubSeqOfConcat1
  <2> QED
    BY <2>1, <2>2
<1> QED
  BY <1>1, <1>2

\* The block of stage_mainnet_mining_attempt.
LEMMA MinedBlock ==
  ASSUME NEW up \in Seq(Miners \X Int), NEW e \in Int, NEW pending \in SUBSET Txs
  PROVE  [by |-> <<"me", e>>, parent |-> up, epoch |-> e, work |-> 1, txs |-> pending] \in Block
<1>1. PICK i \in Miners \X Int : i = <<"me", e>>
  BY Zenon, RuntimeAssumption
<1>2. [by |-> i, parent |-> up, epoch |-> e, work |-> 1, txs |-> pending] \in Block
  BY DEF Block
<1> QED
  BY <1>1, <1>2

\* A mined block extends a valid chain to a valid chain.
LEMMA CandidateGood ==
  ASSUME NEW s, GoodState(s), StillValid(s.chain, s.mempool) = s.mempool,
         NEW e \in Int, e > s.epoch
  PROVE  GoodChain(Candidate(s, e, s.mempool))
<1>1. /\ GoodChain(s.chain) /\ s.chain \in Seq(Block) /\ s.epoch \in Int
      /\ s.mempool \in SUBSET Txs /\ s.epoch >= TipEpoch(s.chain) /\ Compatible(s.mempool)
  BY DEF GoodState, States, GoodChain
<1>2. PICK c \in Seq(Block) : c = s.chain
  BY <1>1
<1>3. /\ Len(c) \in Nat /\ Len(c) > 0 /\ TipEpoch(c) \in Int /\ Path(c) \in Seq(Miners \X Int)
      /\ Valid(c)
  BY <1>1, <1>2, ChainFacts DEF GoodChain
<1>4. PICK b \in Block : b = [by |-> <<"me", e>>, parent |-> Path(c), epoch |-> e,
                              work |-> 1, txs |-> s.mempool]
  BY Zenon, <1>1, <1>3, MinedBlock
<1>5. b.parent = Path(c) /\ b.epoch = e /\ b.txs = s.mempool
  BY <1>4
<1>6. PICK d \in Seq(Block) : d = Append(c, b)
  BY Zenon, AppendFacts
<1>7. /\ Len(d) = Len(c) + 1 /\ d[Len(c) + 1] = b
      /\ \A i \in 1 .. Len(c) : d[i] = c[i] /\ SubSeq(d, 1, i) = SubSeq(c, 1, i)
  BY <1>6, AppendFacts
<1>8. Candidate(s, e, s.mempool) = d
  BY <1>2, <1>4, <1>6 DEF Candidate
<1>9. d[1] = Genesis
  BY <1>3, <1>7 DEF Valid
<1>10. ASSUME NEW i \in 2 .. Len(d) PROVE d[i].parent = Path(SubSeq(d, 1, i - 1))
  <2>1. CASE i <= Len(c)
    <3>1. i \in 2 .. Len(c) /\ i \in 1 .. Len(c) /\ i - 1 \in 1 .. Len(c)
      BY <2>1, <1>3, <1>7
    <3>2. c[i].parent = Path(SubSeq(c, 1, i - 1))
      BY <3>1, <1>3 DEF Valid
    <3> QED
      BY Zenon, <3>1, <3>2, <1>7
  <2>2. CASE i = Len(c) + 1
    <3>1. SubSeq(c, 1, Len(c)) = c
      BY SubSeqFull
    <3>2. SubSeq(d, 1, i - 1) = c
      BY <2>2, <3>1, <1>3, <1>7
    <3> QED
      BY Zenon, <2>2, <3>2, <1>5, <1>7
  <2> QED
    BY <2>1, <2>2, <1>3, <1>7
<1>11. ASSUME NEW i \in 2 .. Len(d) PROVE d[i].epoch > d[i - 1].epoch
  <2>1. CASE i <= Len(c)
    <3>1. i \in 2 .. Len(c) /\ i \in 1 .. Len(c) /\ i - 1 \in 1 .. Len(c)
      BY <2>1, <1>3, <1>7
    <3>2. c[i].epoch > c[i - 1].epoch
      BY <3>1, <1>3 DEF Valid
    <3> QED
      BY <3>1, <3>2, <1>7
  <2>2. CASE i = Len(c) + 1
    <3>1. d[i].epoch = e /\ d[i - 1].epoch = TipEpoch(c)
      BY <2>2, <1>3, <1>5, <1>7 DEF TipEpoch
    <3> QED
      BY <3>1, <1>1, <1>2, <1>3
  <2> QED
    BY <2>1, <2>2, <1>3, <1>7
<1>12. ASSUME NEW i \in 1 .. Len(d), NEW j \in 1 .. Len(d), NEW t \in d[i].txs,
              NEW u \in d[j].txs, Coin[t] = Coin[u]
       PROVE  t = u /\ i = j
  <2>1. \A k \in 1 .. Len(c), x \in b.txs : \A y \in c[k].txs : Coin[x] # Coin[y]
    BY <1>2, <1>5 DEF StillValid, Spent, Confirmed
  <2>2. CASE i <= Len(c) /\ j <= Len(c)
    <3>1. i \in 1 .. Len(c) /\ j \in 1 .. Len(c) /\ t \in c[i].txs /\ u \in c[j].txs
      BY <2>2, <1>3, <1>7
    <3> QED
      BY <3>1, <1>12, <1>3 DEF Valid
  <2>3. CASE i = Len(c) + 1 /\ j = Len(c) + 1
    BY <2>3, <1>12, <1>1, <1>5, <1>7 DEF Compatible
  <2>4. CASE i <= Len(c) /\ j = Len(c) + 1
    BY <2>4, <2>1, <1>12, <1>3, <1>7
  <2>5. CASE i = Len(c) + 1 /\ j <= Len(c)
    BY <2>5, <2>1, <1>12, <1>3, <1>7
  <2> QED
    BY <2>2, <2>3, <2>4, <2>5, <1>3, <1>7
<1>13. Valid(d)
  BY <1>9, <1>10, <1>11, <1>12 DEF Valid
<1> QED
  BY <1>3, <1>7, <1>8, <1>13 DEF GoodChain

-----------------------------------------------------------------------------
\* A synchronization of a copy of the state with some peer.
Jobs == [peer : Peers \cup {NoJob}, base : States, target : Nat, headers : Seq(Block)]
GoodJob(job) == job \in Jobs /\ job.peer \in Peers /\ GoodState(job.base)

\* The main loop: what it stages can be mined.
MainStates == [pc : {"loop", "staged", "poll", "sync"}, job : Jobs \cup {NoJob},
               left : SUBSET Peers]
GoodMain(m) ==
    /\ m \in MainStates
    /\ m.pc = "staged" => /\ m.job \in Jobs /\ GoodState(m.job.base)
                          /\ StillValid(m.job.base.chain, m.job.base.mempool) = m.job.base.mempool
    /\ m.pc = "sync" => GoodJob(m.job)

\* An announcement thread: the block it applies is the last of some chain.
WorkerStates == [pc : {"idle", "block", "apply", "collect"}, job : Jobs \cup {NoJob},
                 legacy : BOOLEAN]
GoodWorker(k) ==
    /\ k \in WorkerStates
    /\ k.pc # "idle" => GoodJob(k.job)
    /\ k.pc \in {"block", "apply"} => Len(k.job.headers) > 0

WorkersInv == worker \in [Workers -> WorkerStates] /\ \A w \in Workers : GoodWorker(worker[w])
PeersInv == peer \in [Peers -> Seq(Block)] /\ \A p \in Peers : Len(peer[p]) > 0

\* BLOCK_SYNC_IN_FLIGHT is a mutual exclusion: it is taken while exactly one
\* thread may synchronize.
Holds(w) == worker[w].pc # "idle" /\ ~worker[w].legacy
OneHolder ==
    /\ permit \in BOOLEAN
    /\ permit <=> main.pc = "sync" \/ \E w \in Workers : Holds(w)
    /\ \A w \in Workers : Holds(w) =>
          main.pc # "sync" /\ \A k \in Workers : Holds(k) => k = w

\* The inductive invariant.
RuntimeInv ==
    /\ GoodState(mem) /\ GoodState(disk)
    /\ PeersInv /\ GoodMain(main) /\ WorkersInv /\ OneHolder

-----------------------------------------------------------------------------
\* A new job.
LEMMA JobGood ==
  ASSUME NEW p \in Peers \cup {NoJob}, NEW s, GoodState(s)
  PROVE  /\ Job(p, s) \in Jobs /\ Job(p, s).base = s /\ Job(p, s).peer = p
         /\ p \in Peers => GoodJob(Job(p, s))
<1>1. s \in States /\ <<>> \in Seq(Block)
  BY EmptySeq DEF GoodState
<1>2. Job(p, s) \in Jobs /\ Job(p, s).base = s /\ Job(p, s).peer = p
  BY <1>1 DEF Job, Jobs
<1> QED
  BY <1>2 DEF GoodJob

\* The headers that peers answered, of one chain or of several.
LEMMA CollectGood ==
  ASSUME PeersInv, NEW job, GoodJob(job)
  PROVE  GoodJob(Collect(job))
<1>1. /\ job \in Jobs /\ job.headers \in Seq(Block) /\ job.target \in Nat
      /\ peer[job.peer] \in Seq(Block) /\ MAX_HEADERS_PER_RESPONSE \in Nat
  BY RuntimeAssumption DEF GoodJob, Jobs, PeersInv
<1>2. PICK c \in Seq(Block) : c = peer[job.peer]
  BY <1>1
<1>3. Len(c) \in Nat /\ Len(job.headers) \in Nat /\ \A i \in 1 .. Len(c) : c[i] \in Block
  BY <1>1, ElementOfSeq, LenProperties
<1>4. PICK n \in Nat : n = (IF Len(job.headers) + MAX_HEADERS_PER_RESPONSE < Len(c)
                            THEN Len(job.headers) + MAX_HEADERS_PER_RESPONSE ELSE Len(c))
                       /\ n <= Len(c)
  BY <1>1, <1>3
<1>5. Answer(job) \in Seq(Block)
  <2>1. \A i \in Len(job.headers) + 1 .. n : c[i] \in Block
    BY <1>3, <1>4
  <2>2. SubSeq(c, Len(job.headers) + 1, n) \in Seq(Block)
    BY <2>1, <1>3, <1>4, SubSeqProperties
  <2> QED
    BY <2>2, <1>2, <1>4 DEF Answer
<1>6. PICK h \in Seq(Block) : h = job.headers \o Answer(job)
  BY Zenon, <1>1, <1>5, ConcatProperties
<1>7. PICK target \in Nat : target = IF job.target = 0 THEN Len(peer[job.peer]) ELSE job.target
  BY <1>1, <1>2, <1>3
<1>8. PICK k \in Nat : k = (IF Len(h) < target THEN Len(h) ELSE target) /\ k <= Len(h)
  BY LenProperties
<1>9. PICK new \in Seq(Block) : new = SubSeq(h, 1, k)
  <2>1. \A i \in 1 .. k : h[i] \in Block
    BY <1>8, ElementOfSeq, LenProperties
  <2>2. 1 \in Int /\ k \in Int
    OBVIOUS
  <2>3. SubSeq(h, 1, k) \in Seq(Block)
    BY <2>1, <2>2, SubSeqProperties
  <2> QED
    BY Zenon, <2>3
<1>10. Collect(job) = [job EXCEPT !.target = target, !.headers = new]
  BY <1>6, <1>7, <1>8, <1>9 DEF Collect
<1>11. PICK r \in Jobs : r = [job EXCEPT !.target = target, !.headers = new]
  BY Zenon, <1>1 DEF Jobs
<1>12. r.peer = job.peer /\ r.base = job.base
  BY <1>1, <1>11 DEF Jobs
<1> QED
  BY <1>10, <1>11, <1>12 DEF GoodJob

\* What a finished synchronization commits.
LEMMA ToCommitGood ==
  ASSUME NEW job, GoodJob(job), Collected(job), GoodState(mem)
  PROVE  GoodState(ToCommit(job))
<1>1. job.headers \in Seq(Block) /\ Len(job.headers) > 0 /\ GoodState(job.base)
  BY LenProperties DEF GoodJob, Jobs, Collected
<1>2. GoodState(SyncResult(job))
  <2>1. Valid(job.headers) => GoodState(sync_state_from_peer(job.base, job.headers))
    BY <1>1, SyncGood DEF GoodChain
  <2> QED
    BY <2>1, <1>1 DEF SyncResult
<1> QED
  BY <1>2, RefreshGood DEF ToCommit

-----------------------------------------------------------------------------
\* Whatever becomes of a save, memory and disk hold the old state or the new.
LEMMA SavedStates ==
  ASSUME GoodState(mem), GoodState(disk), NEW new, GoodState(new),
         \/ SaveAndPublish(new)
         \/ SaveFails(new) /\ mem' \in {mem, new}
  PROVE  GoodState(mem') /\ GoodState(disk')
<1>1. mem' \in {mem, new} /\ disk' \in {disk, new}
  BY DEF SaveAndPublish, SaveFails
<1> QED
  BY <1>1

\* Who holds the permit does not change.
LEMMA HolderKept ==
  ASSUME OneHolder, permit' = permit, main'.pc = "sync" <=> main.pc = "sync",
         \A w \in Workers : Holds(w)' <=> Holds(w)
  PROVE  OneHolder'
BY DEF OneHolder

\* A process that ends or crashes takes its threads along.
LEMMA ThreadsStopped ==
  ASSUME StopThreads
  PROVE  GoodMain(main') /\ WorkersInv' /\ OneHolder'
<1>1. GoodMain(main') /\ main'.pc = "loop"
  BY DEF StopThreads, GoodMain, MainStates
<1>2. PICK k \in WorkerStates : k = [pc |-> "idle", job |-> NoJob, legacy |-> FALSE]
  BY Zenon DEF WorkerStates
<1>3. k.pc = "idle" /\ GoodWorker(k)
  BY <1>2 DEF GoodWorker
<1>4. worker' \in [Workers -> WorkerStates] /\ \A w \in Workers : worker'[w] = k
  BY <1>2 DEF StopThreads
<1>5. WorkersInv'
  BY <1>3, <1>4 DEF WorkersInv
<1>6. OneHolder'
  BY Zenon, <1>1, <1>3, <1>4 DEF OneHolder, Holds, StopThreads
<1> QED
  BY <1>1, <1>5, <1>6

\* One announcement thread moves to state k.
LEMMA WorkerMoves ==
  ASSUME WorkersInv, NEW w \in Workers, NEW k, GoodWorker(k), worker' = [worker EXCEPT ![w] = k]
  PROVE  /\ WorkersInv' /\ worker'[w] = k
         /\ \A v \in Workers : v # w => worker'[v] = worker[v]
         /\ \A v \in Workers : v # w => (Holds(v)' <=> Holds(v))
         /\ Holds(w)' <=> k.pc # "idle" /\ ~k.legacy
<1>1. worker \in [Workers -> WorkerStates] /\ k \in WorkerStates
  BY DEF WorkersInv, GoodWorker
<1>2. /\ worker' \in [Workers -> WorkerStates] /\ worker'[w] = k
      /\ \A v \in Workers : v # w => worker'[v] = worker[v]
  BY <1>1
<1> QED
  BY <1>2 DEF WorkersInv, Holds

\* A thread that ends gives its permit back.
LEMMA ReleaseKeeps ==
  ASSUME WorkersInv, OneHolder, NEW w \in Workers, worker[w].pc # "idle", Release(w), main' = main
  PROVE  WorkersInv' /\ OneHolder'
<1>1. PICK k \in WorkerStates : k = [pc |-> "idle", job |-> NoJob, legacy |-> FALSE]
  BY Zenon DEF WorkerStates
<1>2. k.pc = "idle" /\ GoodWorker(k)
  BY <1>1 DEF GoodWorker
<1>3. worker' = [worker EXCEPT ![w] = k] /\ permit' = (permit /\ worker[w].legacy)
  BY <1>1 DEF Release, Done
<1>4. /\ WorkersInv' /\ ~Holds(w)'
      /\ \A v \in Workers : v # w => (Holds(v)' <=> Holds(v))
  BY Zenon, <1>2, <1>3, WorkerMoves
<1>5. worker[w].legacy \in BOOLEAN /\ (Holds(w) <=> ~worker[w].legacy)
  BY DEF WorkersInv, WorkerStates, Holds
<1>6. CASE worker[w].legacy
  <2>1. permit' = permit /\ \A v \in Workers : Holds(v)' <=> Holds(v)
    BY <1>3, <1>4, <1>5, <1>6 DEF OneHolder
  <2> QED
    BY <2>1, <1>4, HolderKept
<1>7. CASE ~worker[w].legacy
  <2>1. permit' = FALSE
    BY Zenon, <1>3, <1>7
  <2>2. main.pc # "sync" /\ \A v \in Workers : ~Holds(v)'
    BY <1>4, <1>5, <1>7 DEF OneHolder
  <2> QED
    BY Zenon, <2>1, <2>2, <1>4 DEF OneHolder
<1> QED
  BY <1>5, <1>6, <1>7

\* A thread goes on with its announcement.
LEMMA WorkerGoesOn ==
  ASSUME WorkersInv, OneHolder, NEW w \in Workers, worker[w].pc # "idle",
         NEW k, GoodWorker(k), k.pc # "idle", k.legacy = worker[w].legacy,
         worker' = [worker EXCEPT ![w] = k], UNCHANGED <<permit, main>>
  PROVE  WorkersInv' /\ OneHolder'
<1>1. /\ WorkersInv' /\ (Holds(w)' <=> Holds(w))
      /\ \A v \in Workers : v # w => (Holds(v)' <=> Holds(v))
  BY Zenon, WorkerMoves DEF Holds
<1> QED
  BY <1>1, HolderKept

\* The main loop goes on without the permit.
LEMMA MainGoesOn ==
  ASSUME OneHolder, main.pc # "sync", main'.pc # "sync", UNCHANGED <<permit, worker>>
  PROVE  OneHolder'
BY HolderKept DEF Holds

\* The poll of a peer ends and gives the permit back.
LEMMA PollDoneKeeps ==
  ASSUME GoodMain(main), OneHolder, main.pc = "sync", PollDone, worker' = worker
  PROVE  GoodMain(main') /\ OneHolder'
<1>1. main \in MainStates
  BY DEF GoodMain
<1>2. PICK m \in MainStates : m = [main EXCEPT !.pc = "poll", !.job = NoJob]
  BY Zenon, <1>1 DEF MainStates
<1>3. m.pc = "poll"
  BY <1>1, <1>2 DEF MainStates
<1>4. main' = m /\ permit' = FALSE
  BY <1>2 DEF PollDone
<1>5. \A w \in Workers : ~Holds(w)'
  BY DEF OneHolder, Holds
<1> QED
  BY Zenon, <1>3, <1>4, <1>5 DEF GoodMain, OneHolder

-----------------------------------------------------------------------------
(* The announcement threads.                                               *)

\* An announcement is taken up: RequestID 0 with the permit, the one-shot
\* announcers of the command line without it.
LEMMA AnnounceBlockKeeps ==
  ASSUME RuntimeInv, NEW w \in Workers, NEW p \in Peers, NEW legacy \in BOOLEAN,
         AnnounceBlock(w, p, legacy)
  PROVE  RuntimeInv'
<1>a. /\ GoodState(mem) /\ GoodState(disk) /\ PeersInv /\ GoodMain(main) /\ WorkersInv /\ OneHolder
      /\ UNCHANGED <<mem, disk, main, peer>>
  BY DEF RuntimeInv, AnnounceBlock
<1>b. /\ worker[w].pc = "idle" /\ (~legacy => ~permit) /\ permit' = (permit \/ ~legacy)
      /\ ~Holds(w) /\ permit \in BOOLEAN
  BY <1>a DEF AnnounceBlock, Holds, OneHolder
<1>1. PICK h \in Seq(Block) : /\ h = IF IsMainnet \/ legacy THEN peer[p] ELSE <<>>
                              /\ (IsMainnet \/ legacy) => Len(h) > 0
  BY Zenon, <1>a, EmptySeq DEF PeersInv
<1>2. Job(p, mem) \in Jobs /\ Job(p, mem).base = mem /\ Job(p, mem).peer = p
  BY <1>a, JobGood
<1>3. PICK job \in Jobs : job = [Job(p, mem) EXCEPT !.headers = h]
  BY Zenon, <1>2 DEF Jobs
<1>4. job.headers = h /\ GoodJob(job)
  BY <1>2, <1>3, <1>a DEF Jobs, GoodJob
<1>5. PICK k \in WorkerStates :
        k = [pc |-> IF IsMainnet \/ legacy THEN "block" ELSE "collect", job |-> job, legacy |-> legacy]
  <2>1. PICK pc \in {"block", "collect"} : pc = IF IsMainnet \/ legacy THEN "block" ELSE "collect"
    OBVIOUS
  <2>2. [pc |-> pc, job |-> job, legacy |-> legacy] \in WorkerStates
    BY Zenon DEF WorkerStates
  <2> QED
    BY <2>1, <2>2
<1>6. /\ k.pc # "idle" /\ k.legacy = legacy /\ k.job = job
      /\ k.pc \in {"block", "apply"} => IsMainnet \/ legacy
  BY <1>5
<1>7. GoodWorker(k)
  BY <1>1, <1>4, <1>6 DEF GoodWorker
<1>8. worker' = [worker EXCEPT ![w] = k]
  BY <1>1, <1>3, <1>5 DEF AnnounceBlock
<1>9. /\ WorkersInv' /\ (Holds(w)' <=> ~legacy)
      /\ \A v \in Workers : v # w => (Holds(v)' <=> Holds(v))
  BY Zenon, <1>a, <1>6, <1>7, <1>8, WorkerMoves
<1>10. OneHolder'
  <2>1. CASE legacy
    <3>1. permit' = permit /\ \A v \in Workers : Holds(v)' <=> Holds(v)
      BY <2>1, <1>b, <1>9
    <3> QED
      BY <3>1, <1>a, HolderKept
  <2>2. CASE ~legacy
    <3>1. permit' = TRUE /\ Holds(w)'
      BY Zenon, <2>2, <1>b, <1>9
    <3>2. main'.pc # "sync" /\ \A v \in Workers : v # w => ~Holds(v)'
      BY <2>2, <1>a, <1>b, <1>9 DEF OneHolder
    <3> QED
      BY <3>1, <3>2 DEF OneHolder
  <2> QED
    BY <2>1, <2>2
<1> QED
  BY <1>a, <1>9, <1>10 DEF RuntimeInv, PeersInv

\* The announced block arrives: it is applied, or starts a synchronization.
LEMMA ReceiveBlockKeeps ==
  ASSUME RuntimeInv, NEW w \in Workers, ReceiveBlock(w)
  PROVE  RuntimeInv'
<1> DEFINE job == worker[w].job
           base == IF worker[w].legacy THEN mem ELSE job.base
           syncs == IsMainnet /\ ~Extends(base, job.headers)
<1>a. /\ GoodState(mem) /\ GoodState(disk) /\ PeersInv /\ GoodMain(main) /\ WorkersInv /\ OneHolder
      /\ UNCHANGED <<mem, disk, main, peer, permit>> /\ worker[w].pc = "block"
  BY DEF RuntimeInv, ReceiveBlock
<1>b. worker[w] \in WorkerStates /\ GoodJob(job) /\ Len(job.headers) > 0
  BY <1>a DEF WorkersInv, GoodWorker
<1>1. Job(job.peer, base) \in Jobs /\ GoodJob(Job(job.peer, base))
  BY <1>a, <1>b, JobGood DEF GoodJob
<1>2. PICK k \in WorkerStates :
        k = IF syncs THEN [worker[w] EXCEPT !.pc = "collect", !.job = Job(job.peer, base)]
            ELSE [worker[w] EXCEPT !.pc = "apply"]
  BY Zenon, <1>1, <1>b DEF WorkerStates
<1>3. /\ k.legacy = worker[w].legacy /\ k.pc # "idle"
      /\ \/ k.pc = "collect" /\ k.job = Job(job.peer, base)
         \/ k.pc = "apply" /\ k.job = job
  BY <1>1, <1>2, <1>b DEF WorkerStates
<1>4. GoodWorker(k)
  BY <1>1, <1>3, <1>b DEF GoodWorker
<1>5. worker' = [worker EXCEPT ![w] = k]
  BY <1>2 DEF ReceiveBlock
<1>6. WorkersInv' /\ OneHolder'
  BY Zenon, <1>a, <1>3, <1>4, <1>5, WorkerGoesOn
<1> QED
  BY <1>a, <1>6 DEF RuntimeInv, PeersInv

\* A thread commits, and ends with its permit given back; or the failed save
\* ends the process.
LEMMA CommitKeeps ==
  ASSUME RuntimeInv, NEW w \in Workers, worker[w].pc # "idle", NEW new, GoodState(new),
         Commit(new, Release(w) /\ main' = main), peer' = peer
  PROVE  RuntimeInv'
<1>a. GoodState(mem) /\ GoodState(disk) /\ PeersInv /\ GoodMain(main) /\ WorkersInv /\ OneHolder
  BY DEF RuntimeInv
<1>1. GoodState(mem') /\ GoodState(disk')
  <2>1. SaveAndPublish(new) \/ (SaveFails(new) /\ mem' \in {mem, new})
    BY DEF Commit
  <2> QED
    BY <2>1, <1>a, SavedStates
<1>2. (Release(w) /\ main' = main) \/ StopThreads
  BY DEF Commit
<1>3. GoodMain(main') /\ WorkersInv' /\ OneHolder'
  BY <1>2, <1>a, ReleaseKeeps, ThreadsStopped
<1> QED
  BY <1>a, <1>1, <1>3 DEF RuntimeInv, PeersInv

\* A thread ends without a commit.
LEMMA EndKeeps ==
  ASSUME RuntimeInv, NEW w \in Workers, worker[w].pc # "idle", Release(w),
         UNCHANGED <<mem, disk, main, peer>>
  PROVE  RuntimeInv'
<1>a. GoodState(mem) /\ GoodState(disk) /\ PeersInv /\ GoodMain(main) /\ WorkersInv /\ OneHolder
  BY DEF RuntimeInv
<1>1. WorkersInv' /\ OneHolder'
  BY <1>a, ReleaseKeeps
<1> QED
  BY <1>a, <1>1 DEF RuntimeInv, PeersInv

\* validate_and_apply_announced_block on the live state, under the lock.
LEMMA ApplyBlockKeeps ==
  ASSUME RuntimeInv, NEW w \in Workers, ApplyBlock(w)
  PROVE  RuntimeInv'
<1> DEFINE job == worker[w].job
           new == State(job.headers, Unconfirmed(job.headers, mem.mempool), mem.side)
<1>a. worker[w].pc = "apply" /\ peer' = peer /\ worker[w].pc # "idle"
  BY DEF ApplyBlock
<1>1. CASE AppliesToLive(w) /\ Commit(new, Release(w) /\ main' = main)
  <2>1. job.headers \in Seq(Block) /\ Len(job.headers) > 0 /\ Valid(job.headers)
    BY <1>1, <1>a DEF RuntimeInv, WorkersInv, GoodWorker, GoodJob, Jobs, AppliesToLive
  <2>2. mem.mempool \in SUBSET Txs /\ Compatible(mem.mempool) /\ GoodSide(mem.side)
    BY DEF RuntimeInv, GoodState, States
  <2>3. /\ Unconfirmed(job.headers, mem.mempool) \in SUBSET Txs
        /\ Compatible(Unconfirmed(job.headers, mem.mempool))
    BY <2>2 DEF Unconfirmed, Compatible
  <2>4. GoodState(new)
    BY <2>1, <2>2, <2>3, StateGood DEF GoodChain
  <2> QED
    BY <1>1, <1>a, <2>4, CommitKeeps
<1>2. CASE Release(w) /\ UNCHANGED <<mem, disk, running, main, faults>>
  BY <1>2, <1>a, EndKeeps
<1> QED
  BY Zenon, <1>1, <1>2 DEF ApplyBlock

\* GETHEADERS of an announcement thread.
LEMMA CollectWorkerKeeps ==
  ASSUME RuntimeInv, NEW w \in Workers, CollectWorker(w)
  PROVE  RuntimeInv'
<1>a. /\ GoodState(mem) /\ GoodState(disk) /\ PeersInv /\ GoodMain(main) /\ WorkersInv /\ OneHolder
      /\ UNCHANGED <<mem, disk, main, peer>> /\ worker[w].pc = "collect" /\ worker[w].pc # "idle"
  BY DEF RuntimeInv, CollectWorker
<1>1. CASE Release(w)
  BY <1>1, <1>a, EndKeeps
<1>2. CASE worker' = [worker EXCEPT ![w].job = Collect(worker[w].job)] /\ permit' = permit
  <2>1. worker[w] \in WorkerStates /\ GoodJob(worker[w].job)
    BY <1>a DEF WorkersInv, GoodWorker
  <2>2. PICK job \in Jobs : job = Collect(worker[w].job) /\ GoodJob(job)
    BY <2>1, <1>a, CollectGood DEF GoodJob
  <2>3. PICK k \in WorkerStates : k = [worker[w] EXCEPT !.job = job]
    BY Zenon, <2>1 DEF WorkerStates
  <2>4. k.pc = "collect" /\ k.legacy = worker[w].legacy /\ k.job = job
    BY <2>1, <2>3, <1>a DEF WorkerStates
  <2>5. GoodWorker(k) /\ k.pc # "idle"
    BY <2>2, <2>4 DEF GoodWorker
  <2>6. worker' = [worker EXCEPT ![w] = k]
    BY <1>2, <2>2, <2>3, <1>a DEF WorkersInv
  <2>7. WorkersInv' /\ OneHolder'
    BY Zenon, <1>2, <2>4, <2>5, <2>6, <1>a, WorkerGoesOn
  <2> QED
    BY <2>7, <1>a DEF RuntimeInv, PeersInv
<1> QED
  BY <1>1, <1>2 DEF CollectWorker

\* The commit of an announcement thread.
LEMMA CommitWorkerKeeps ==
  ASSUME RuntimeInv, NEW w \in Workers, CommitWorker(w)
  PROVE  RuntimeInv'
<1>a. /\ worker[w].pc = "collect" /\ worker[w].pc # "idle" /\ Collected(worker[w].job)
      /\ peer' = peer /\ GoodState(mem) /\ GoodJob(worker[w].job)
  BY DEF CommitWorker, RuntimeInv, WorkersInv, GoodWorker
<1>1. CASE Commit(ToCommit(worker[w].job), Release(w) /\ main' = main)
  <2>1. GoodState(ToCommit(worker[w].job))
    BY <1>a, ToCommitGood
  <2> QED
    BY <1>1, <1>a, <2>1, CommitKeeps
<1>2. CASE Release(w) /\ UNCHANGED <<mem, disk, running, main, faults>>
  BY <1>2, <1>a, EndKeeps
<1> QED
  BY Zenon, <1>1, <1>2 DEF CommitWorker

\* A transaction is admitted that spends no coin spent by the chain or by
\* another pending one.
LEMMA AnnounceTxKeeps ==
  ASSUME RuntimeInv, NEW t \in Txs, AnnounceTx(t)
  PROVE  RuntimeInv'
<1> DEFINE new == WithMempool(mem, mem.mempool \cup {t})
<1>a. /\ GoodState(mem) /\ GoodState(disk) /\ PeersInv /\ GoodMain(main) /\ WorkersInv /\ OneHolder
      /\ peer' = peer /\ ~ \E u \in mem.mempool : Coin[u] = Coin[t]
      /\ Commit(new, UNCHANGED <<permit, main, worker>>)
  BY Zenon DEF RuntimeInv, AnnounceTx
<1>1. GoodState(new)
  <2>1. mem.mempool \in SUBSET Txs /\ Compatible(mem.mempool)
    BY <1>a DEF GoodState, States
  <2>2. mem.mempool \cup {t} \in SUBSET Txs /\ Compatible(mem.mempool \cup {t})
    BY <2>1, <1>a DEF Compatible
  <2> QED
    BY <2>2, <1>a, WithMempoolGood
<1>2. GoodState(mem') /\ GoodState(disk')
  <2>1. SaveAndPublish(new) \/ (SaveFails(new) /\ mem' \in {mem, new})
    BY <1>a DEF Commit
  <2> QED
    BY <2>1, <1>1, <1>a, SavedStates
<1>3. CASE StopThreads
  BY <1>2, <1>3, <1>a, ThreadsStopped DEF RuntimeInv, PeersInv
<1>4. CASE UNCHANGED <<permit, main, worker>>
  BY <1>2, <1>4, <1>a DEF RuntimeInv, PeersInv, WorkersInv, OneHolder, Holds
<1> QED
  BY <1>3, <1>4, <1>a DEF Commit

-----------------------------------------------------------------------------
(* The main loop and the environment.                                      *)

\* The main loop commits, or leaves run_network_node and ends the process.
LEMMA CommitMainKeeps ==
  ASSUME GoodState(mem), GoodState(disk), NEW new, GoodState(new), NEW ACTION rest,
         CommitMain(new, rest)
  PROVE  GoodState(mem') /\ GoodState(disk') /\ (rest \/ StopThreads)
<1>1. SaveAndPublish(new) \/ (SaveFails(new) /\ mem' \in {mem, new})
  BY DEF CommitMain
<1>2. rest \/ StopThreads
  BY DEF CommitMain
<1> QED
  BY <1>1, <1>2, SavedStates

\* The main loop on its way from mining to the peers.
LEMMA ToPoll ==
  ASSUME main' = [pc |-> "poll", job |-> NoJob, left |-> Peers]
  PROVE  GoodMain(main') /\ main'.pc = "poll"
BY DEF GoodMain, MainStates

\* A mining attempt starts on a copy of the state that a block can extend.
LEMMA StageMiningKeeps ==
  ASSUME RuntimeInv, StageMining
  PROVE  RuntimeInv'
<1>a. /\ GoodState(mem) /\ GoodState(disk) /\ PeersInv /\ GoodMain(main) /\ WorkersInv /\ OneHolder
      /\ UNCHANGED <<mem, disk, peer, permit, worker>> /\ main.pc = "loop"
  BY DEF RuntimeInv, StageMining
<1>b. main \in MainStates
  BY <1>a DEF GoodMain
<1>1. GoodMain(main') /\ main'.pc # "sync"
  <2>1. CASE CandidateBuilds(mem)
    <3>1. PICK job \in Jobs : job = Job(NoJob, mem) /\ job.base = mem
      BY <1>a, JobGood
    <3>2. PICK m \in MainStates : m = [main EXCEPT !.pc = "staged", !.job = job]
      BY Zenon, <1>b DEF MainStates
    <3>3. m.pc = "staged" /\ m.job = job
      BY <1>b, <3>2 DEF MainStates
    <3>4. main' = m
      BY <2>1, <3>1, <3>2 DEF StageMining
    <3> QED
      BY <2>1, <3>1, <3>3, <3>4, <1>a DEF GoodMain, CandidateBuilds
  <2>2. CASE ~CandidateBuilds(mem)
    <3>1. PICK m \in MainStates : m = [main EXCEPT !.pc = "poll", !.left = Peers]
      BY Zenon, <1>b DEF MainStates
    <3>2. m.pc = "poll"
      BY <1>b, <3>1 DEF MainStates
    <3>3. main' = m
      BY <2>2, <3>1 DEF StageMining
    <3> QED
      BY <3>2, <3>3 DEF GoodMain
  <2> QED
    BY <2>1, <2>2
<1>2. OneHolder'
  BY <1>1, <1>a, MainGoesOn
<1> QED
  BY <1>1, <1>2, <1>a DEF RuntimeInv, PeersInv, WorkersInv

\* The attempt is over: without a ticket, or with a block to commit.
LEMMA MiningEndKeeps ==
  ASSUME RuntimeInv, main.pc # "sync", peer' = peer, GoodState(mem'), GoodState(disk'),
         \/ main' = [pc |-> "poll", job |-> NoJob, left |-> Peers] /\ UNCHANGED <<permit, worker>>
         \/ StopThreads
  PROVE  RuntimeInv'
<1>a. PeersInv /\ WorkersInv /\ OneHolder
  BY DEF RuntimeInv
<1>1. CASE main' = [pc |-> "poll", job |-> NoJob, left |-> Peers] /\ UNCHANGED <<permit, worker>>
  <2>1. GoodMain(main') /\ main'.pc = "poll"
    BY <1>1, ToPoll
  <2>2. OneHolder'
    BY <1>1, <2>1, <1>a, MainGoesOn
  <2> QED
    BY <1>1, <2>1, <2>2, <1>a DEF RuntimeInv, PeersInv, WorkersInv
<1>2. CASE StopThreads
  BY <1>2, <1>a, ThreadsStopped DEF RuntimeInv, PeersInv
<1> QED
  BY <1>1, <1>2

\* The block mined on the copy is committed only if the tip did not move.
LEMMA CommitMiningKeeps ==
  ASSUME RuntimeInv, CommitMining
  PROVE  RuntimeInv'
<1> DEFINE base == main.job.base
           rest == main' = [pc |-> "poll", job |-> NoJob, left |-> Peers] /\ UNCHANGED <<permit, worker>>
<1>a. /\ GoodState(mem) /\ GoodState(disk) /\ main.pc = "staged" /\ main.pc # "sync" /\ peer' = peer
      /\ GoodState(base) /\ StillValid(base.chain, base.mempool) = base.mempool
  BY DEF RuntimeInv, CommitMining, GoodMain
<1>1. ASSUME NEW e \in (base.epoch + 1) .. MaxEpoch,
             CommitMain(refresh_pending(State(Candidate(base, e, base.mempool), {}, base.side), mem), rest)
      PROVE  RuntimeInv'
  <2>1. base.epoch \in Int /\ e \in Int /\ e > base.epoch /\ GoodSide(base.side)
    BY <1>a DEF GoodState, States
  <2>2. PICK c : c = Candidate(base, e, base.mempool) /\ GoodChain(c)
    BY <2>1, <1>a, CandidateGood
  <2>3. {} \in SUBSET Txs /\ Compatible({})
    BY DEF Compatible
  <2>4. GoodState(State(c, {}, base.side))
    BY <2>1, <2>2, <2>3, StateGood
  <2>5. PICK new : new = refresh_pending(State(c, {}, base.side), mem) /\ GoodState(new)
    BY <2>4, <1>a, RefreshGood
  <2>6. GoodState(mem') /\ GoodState(disk') /\ (rest \/ StopThreads)
    BY Zenon, <1>1, <2>2, <2>5, <1>a, CommitMainKeeps
  <2> QED
    BY <2>6, <1>a, MiningEndKeeps
<1>2. CASE rest /\ UNCHANGED <<mem, disk, running, faults>>
  BY <1>2, <1>a, MiningEndKeeps
<1> QED
  BY Zenon, <1>1, <1>2 DEF CommitMining

\* Devnet mines under the lock, or lets the epoch pass.
LEMMA MineDevnetKeeps ==
  ASSUME RuntimeInv, MineDevnet
  PROVE  RuntimeInv'
<1> DEFINE e == mem.epoch + 1
           rest == main' = [pc |-> "poll", job |-> NoJob, left |-> Peers] /\ UNCHANGED <<permit, worker>>
<1>a. /\ GoodState(mem) /\ GoodState(disk) /\ main.pc # "sync" /\ peer' = peer
  BY DEF RuntimeInv, MineDevnet
<1>b. /\ mem \in States /\ mem.epoch \in Int /\ e \in Int /\ e > mem.epoch /\ GoodSide(mem.side)
      /\ TipEpoch(mem.chain) \in Int /\ mem.epoch >= TipEpoch(mem.chain)
  BY <1>a, ChainFacts DEF GoodState, States
<1>1. CASE CandidateBuilds(mem) /\ CommitMain(State(Candidate(mem, e, mem.mempool), {}, mem.side), rest)
  <2>1. StillValid(mem.chain, mem.mempool) = mem.mempool
    BY <1>1 DEF CandidateBuilds
  <2>2. PICK c : c = Candidate(mem, e, mem.mempool) /\ GoodChain(c)
    BY <2>1, <1>a, <1>b, CandidateGood
  <2>3. {} \in SUBSET Txs /\ Compatible({})
    BY DEF Compatible
  <2>4. PICK new : new = State(c, {}, mem.side) /\ GoodState(new)
    BY <2>2, <2>3, <1>b, StateGood
  <2>5. GoodState(mem') /\ GoodState(disk') /\ (rest \/ StopThreads)
    BY Zenon, <1>1, <2>2, <2>4, <1>a, CommitMainKeeps
  <2> QED
    BY <2>5, <1>a, MiningEndKeeps
<1>2. CASE CommitMain([mem EXCEPT !.epoch = e], rest)
  <2>1. PICK new \in States : new = [mem EXCEPT !.epoch = e]
    BY Zenon, <1>b DEF States
  <2>2. /\ new.chain = mem.chain /\ new.epoch = e /\ new.mempool = mem.mempool
        /\ new.side = mem.side
    BY <2>1, <1>b DEF States
  <2>3. GoodState(new)
    BY <2>2, <1>a, <1>b DEF GoodState
  <2>4. GoodState(mem') /\ GoodState(disk') /\ (rest \/ StopThreads)
    BY Zenon, <1>2, <2>1, <2>3, <1>a, CommitMainKeeps
  <2> QED
    BY <2>4, <1>a, MiningEndKeeps
<1> QED
  BY <1>1, <1>2 DEF MineDevnet

\* A poll takes the permit, or skips the peer.
LEMMA StartPollKeeps ==
  ASSUME RuntimeInv, NEW p \in Peers, StartPoll(p)
  PROVE  RuntimeInv'
<1>a. /\ GoodState(mem) /\ GoodState(disk) /\ PeersInv /\ GoodMain(main) /\ WorkersInv /\ OneHolder
      /\ UNCHANGED <<mem, disk, peer, worker>> /\ main.pc = "poll"
  BY DEF RuntimeInv, StartPoll
<1>b. main \in MainStates /\ main.left \ {p} \in SUBSET Peers
  BY <1>a DEF GoodMain, MainStates
<1>1. CASE /\ ~permit /\ permit' = TRUE
           /\ main' = [pc |-> "sync", job |-> Job(p, mem), left |-> main.left \ {p}]
  <2>1. PICK job \in Jobs : job = Job(p, mem) /\ GoodJob(job)
    BY <1>a, JobGood
  <2>2. PICK m \in MainStates : m = [pc |-> "sync", job |-> job, left |-> main.left \ {p}]
    BY Zenon, <1>b DEF MainStates
  <2>3. main' = m /\ m.pc = "sync" /\ m.job = job
    BY <1>1, <2>1, <2>2
  <2>4. GoodMain(main')
    BY <2>1, <2>3 DEF GoodMain
  <2>5. \A w \in Workers : ~Holds(w)'
    BY <1>1, <1>a DEF OneHolder, Holds
  <2>6. OneHolder'
    BY <1>1, <2>3, <2>5 DEF OneHolder
  <2> QED
    BY <2>4, <2>6, <1>a DEF RuntimeInv, PeersInv, WorkersInv
<1>2. CASE permit /\ permit' = permit /\ main' = [main EXCEPT !.left = @ \ {p}]
  <2>1. PICK m \in MainStates : m = [main EXCEPT !.left = @ \ {p}]
    BY Zenon, <1>b DEF MainStates
  <2>2. main' = m /\ m.pc = "poll"
    BY <1>2, <2>1, <1>a, <1>b DEF MainStates
  <2>3. GoodMain(main')
    BY <2>2 DEF GoodMain
  <2>4. OneHolder'
    BY <1>2, <2>2, <1>a, MainGoesOn
  <2> QED
    BY <2>3, <2>4, <1>a DEF RuntimeInv, PeersInv, WorkersInv
<1> QED
  BY Zenon, <1>1, <1>2 DEF StartPoll

\* A new round, with another mining attempt.
LEMMA NextRoundKeeps ==
  ASSUME RuntimeInv, NextRound
  PROVE  RuntimeInv'
<1>a. /\ GoodState(mem) /\ GoodState(disk) /\ PeersInv /\ GoodMain(main) /\ WorkersInv /\ OneHolder
      /\ UNCHANGED <<mem, disk, peer, worker, permit>> /\ main.pc = "poll" /\ main \in MainStates
  BY DEF RuntimeInv, NextRound, GoodMain
<1>1. PICK m \in MainStates : m = [main EXCEPT !.pc = "loop"]
  BY Zenon, <1>a DEF MainStates
<1>2. main' = m /\ m.pc = "loop"
  BY <1>1, <1>a DEF NextRound, MainStates
<1>3. GoodMain(main')
  BY <1>2 DEF GoodMain
<1>4. OneHolder'
  BY <1>2, <1>a, MainGoesOn
<1> QED
  BY <1>3, <1>4, <1>a DEF RuntimeInv, PeersInv, WorkersInv

\* GETHEADERS of the main loop.
LEMMA CollectMainKeeps ==
  ASSUME RuntimeInv, CollectMain
  PROVE  RuntimeInv'
<1>a. /\ GoodState(mem) /\ GoodState(disk) /\ PeersInv /\ GoodMain(main) /\ WorkersInv /\ OneHolder
      /\ UNCHANGED <<mem, disk, peer, worker>> /\ main.pc = "sync"
  BY DEF RuntimeInv, CollectMain
<1>1. CASE PollDone
  BY <1>1, <1>a, PollDoneKeeps DEF RuntimeInv, PeersInv, WorkersInv
<1>2. CASE main' = [main EXCEPT !.job = Collect(@)] /\ permit' = permit
  <2>1. main \in MainStates /\ GoodJob(main.job)
    BY <1>a DEF GoodMain
  <2>2. PICK job \in Jobs : job = Collect(main.job) /\ GoodJob(job)
    BY <2>1, <1>a, CollectGood DEF GoodJob
  <2>3. PICK m \in MainStates : m = [main EXCEPT !.job = job]
    BY Zenon, <2>1 DEF MainStates
  <2>4. main' = m /\ m.pc = "sync" /\ m.job = job
    BY <1>2, <2>1, <2>2, <2>3, <1>a DEF MainStates
  <2>5. GoodMain(main')
    BY <2>2, <2>4 DEF GoodMain
  <2>6. OneHolder'
    BY <1>2, <2>4, <1>a, HolderKept DEF Holds
  <2> QED
    BY <2>5, <2>6, <1>a DEF RuntimeInv, PeersInv, WorkersInv
<1> QED
  BY <1>1, <1>2 DEF CollectMain

\* The commit of a poll.
LEMMA CommitPollKeeps ==
  ASSUME RuntimeInv, CommitPoll
  PROVE  RuntimeInv'
<1>a. /\ GoodState(mem) /\ GoodState(disk) /\ PeersInv /\ GoodMain(main) /\ WorkersInv /\ OneHolder
      /\ peer' = peer /\ main.pc = "sync" /\ Collected(main.job) /\ GoodJob(main.job)
  BY DEF RuntimeInv, CommitPoll, GoodMain
<1>1. CASE CommitMain(ToCommit(main.job), PollDone /\ worker' = worker)
  <2>1. GoodState(ToCommit(main.job))
    BY <1>a, ToCommitGood
  <2>2. GoodState(mem') /\ GoodState(disk') /\ ((PollDone /\ worker' = worker) \/ StopThreads)
    BY Zenon, <1>1, <2>1, <1>a, CommitMainKeeps
  <2>3. CASE PollDone /\ worker' = worker
    BY <2>2, <2>3, <1>a, PollDoneKeeps DEF RuntimeInv, PeersInv, WorkersInv
  <2>4. CASE StopThreads
    BY <2>2, <2>4, <1>a, ThreadsStopped DEF RuntimeInv, PeersInv
  <2> QED
    BY <2>2, <2>3, <2>4
<1>2. CASE PollDone /\ UNCHANGED <<mem, disk, running, worker, faults>>
  BY <1>2, <1>a, PollDoneKeeps DEF RuntimeInv, PeersInv, WorkersInv
<1> QED
  BY Zenon, <1>1, <1>2 DEF CommitPoll

\* A peer holds another chain, which may be invalid.
LEMMA PeerAdoptsKeeps ==
  ASSUME RuntimeInv, NEW p \in Peers, PeerAdopts(p)
  PROVE  RuntimeInv'
<1>a. /\ GoodState(mem) /\ GoodState(disk) /\ PeersInv /\ GoodMain(main) /\ WorkersInv /\ OneHolder
      /\ UNCHANGED <<mem, disk, permit, main, worker>>
  BY DEF RuntimeInv, PeerAdopts
<1>1. PICK c \in PeerChains \cup {mem.chain} : peer' = [peer EXCEPT ![p] = c]
  BY Zenon DEF PeerAdopts
<1>2. c \in Seq(Block) /\ Len(c) > 0
  BY <1>a, RuntimeAssumption DEF GoodState, GoodChain
<1>3. PeersInv'
  BY <1>1, <1>2, <1>a DEF PeersInv
<1> QED
  BY <1>3, <1>a DEF RuntimeInv, WorkersInv, OneHolder, Holds

\* A node starts from its disk, with or without the pending work.
LEMMA RestartKeeps ==
  ASSUME RuntimeInv, Restart
  PROVE  RuntimeInv'
<1>a. /\ GoodState(mem) /\ GoodState(disk) /\ PeersInv /\ GoodMain(main) /\ WorkersInv /\ OneHolder
      /\ UNCHANGED <<permit, main, worker, peer>>
  BY DEF RuntimeInv, Restart
<1>1. PICK pending \in {disk.mempool, {}} : disk' = WithMempool(disk, pending) /\ mem' = disk'
  BY DEF Restart
<1>2. pending \in SUBSET Txs /\ Compatible(pending)
  BY <1>a DEF GoodState, States, Compatible
<1>3. GoodState(disk') /\ GoodState(mem')
  BY <1>1, <1>2, <1>a, WithMempoolGood
<1> QED
  BY <1>3, <1>a DEF RuntimeInv, PeersInv, WorkersInv, OneHolder, Holds

\* A node starts with the bootstrap block and idle threads.
LEMMA RuntimeInitInv == Init => RuntimeInv
<1> SUFFICES ASSUME Init PROVE RuntimeInv
  OBVIOUS
<1>a. Genesis \in Block /\ MAX_SIDE_BRANCHES \in Nat /\ Compatible(Genesis.txs)
  BY RuntimeAssumption DEF Compatible
<1>b. PICK c : c = <<Genesis>>
  BY Zenon
<1>c. c \in Seq(Block) /\ Len(c) = 1 /\ c[1] = Genesis
  BY <1>a, <1>b
<1>d. 2 .. Len(c) = {} /\ \A i \in 1 .. Len(c) : i = 1
  BY <1>c
<1>1. GoodChain(c)
  <2>1. Valid(c)
    BY <1>a, <1>c, <1>d DEF Valid, Compatible
  <2> QED
    BY <2>1, <1>c DEF GoodChain
<1>2. GoodState(State(c, {}, <<>>))
  <2>1. GoodSide(<<>>)
    BY <1>a DEF GoodSide
  <2>2. Compatible({}) /\ {} \in SUBSET Txs
    BY DEF Compatible
  <2> QED
    BY <1>1, <2>1, <2>2, StateGood
<1>3. GoodState(mem) /\ GoodState(disk)
  BY <1>2, <1>b DEF Init
<1>4. PeersInv
  <2>1. peer = [p \in Peers |-> c]
    BY <1>b DEF Init
  <2>2. \A p \in Peers : peer[p] = c
    BY <2>1
  <2>3. peer \in [Peers -> Seq(Block)]
    BY Zenon, <2>1, <1>c
  <2>4. Len(c) > 0
    BY <1>c
  <2> QED
    BY Zenon, <2>2, <2>3, <2>4 DEF PeersInv
<1>5. GoodMain(main) /\ main.pc = "loop"
  BY DEF Init, GoodMain, MainStates
<1>6. WorkersInv /\ \A w \in Workers : ~Holds(w)
  BY DEF Init, WorkersInv, GoodWorker, WorkerStates, Holds
<1>7. OneHolder
  BY Zenon, <1>5, <1>6 DEF Init, OneHolder
<1> QED
  BY <1>3, <1>4, <1>5, <1>6, <1>7 DEF RuntimeInv

\* Every step of the node keeps the invariant.
LEMMA RuntimeNextInv == RuntimeInv /\ [Next]_vars => RuntimeInv'
<1> SUFFICES ASSUME RuntimeInv, [Next]_vars PROVE RuntimeInv'
  OBVIOUS
<1>a. GoodState(mem) /\ GoodState(disk) /\ PeersInv /\ GoodMain(main) /\ WorkersInv /\ OneHolder
  BY DEF RuntimeInv
<1>1. CASE UNCHANGED vars
  BY <1>1, <1>a DEF vars, RuntimeInv, PeersInv, WorkersInv, OneHolder, Holds
<1>2. CASE NoTicket
  <2>1. /\ main.pc # "sync" /\ peer' = peer /\ UNCHANGED <<mem, disk>>
        /\ main' = [pc |-> "poll", job |-> NoJob, left |-> Peers] /\ UNCHANGED <<permit, worker>>
    BY <1>2 DEF NoTicket
  <2> QED
    BY <2>1, <1>a, MiningEndKeeps
<1>3. CASE MainLoop
  BY <1>2, <1>3, StageMiningKeeps, CommitMiningKeeps, MineDevnetKeeps, NextRoundKeeps,
     CollectMainKeeps, CommitPollKeeps, StartPollKeeps DEF MainLoop
<1>4. ASSUME NEW w \in Workers, WorkerStep(w) PROVE RuntimeInv'
  BY <1>4, ReceiveBlockKeeps, ApplyBlockKeeps, CollectWorkerKeeps, CommitWorkerKeeps
     DEF WorkerStep
<1>5. ASSUME NEW w \in Workers, RequestFails(w) PROVE RuntimeInv'
  <2>1. worker[w].pc # "idle" /\ Release(w) /\ UNCHANGED <<mem, disk, main, peer>>
    BY <1>5 DEF RequestFails
  <2> QED
    BY <2>1, EndKeeps
<1>6. CASE Crash
  <2>1. StopThreads /\ UNCHANGED <<mem, disk, peer>>
    BY <1>6 DEF Crash
  <2> QED
    BY <2>1, <1>a, ThreadsStopped DEF RuntimeInv, PeersInv
<1> QED
  BY <1>1, <1>3, <1>4, <1>5, <1>6, AnnounceBlockKeeps, AnnounceTxKeeps, PeerAdoptsKeeps,
     RestartKeeps DEF Next

-----------------------------------------------------------------------------
(* What the invariant says of a node, on Mainnet and on Devnet.              *)

\* The inductive invariant holds in every state of a node.
THEOREM RuntimeInvariant == Spec => []RuntimeInv
  BY RuntimeInitInv, RuntimeNextInv, PTL DEF Spec

\* Whatever peers serve, and whichever threads interleave, save or crash, what
\* a node holds in memory and on disk is a valid chain, its side branches are
\* bounded, and BLOCK_SYNC_IN_FLIGHT is set exactly while a thread owns it.
THEOREM ChainsAreValid == Spec => []TypeOK
<1>1. RuntimeInv => TypeOK
  <2> SUFFICES ASSUME RuntimeInv PROVE TypeOK
    OBVIOUS
  <2>1. /\ Valid(mem.chain) /\ Valid(disk.chain) /\ mem.epoch >= TipEpoch(mem.chain)
        /\ Len(mem.side) <= MAX_SIDE_BRANCHES
    BY Zenon DEF RuntimeInv, GoodState, GoodChain, GoodSide
  <2>2. /\ main.pc \in {"loop", "staged", "poll", "sync"}
        /\ \A w \in Workers : worker[w].pc \in {"idle", "block", "apply", "collect"}
    BY DEF RuntimeInv, GoodMain, MainStates, WorkersInv, WorkerStates
  <2>3. /\ permit \in BOOLEAN
        /\ permit <=> main.pc = "sync" \/ \E w \in Workers : Holds(w)
    BY Zenon DEF RuntimeInv, OneHolder
  <2>4. permit = (main.pc = "sync" \/ \E w \in Workers : worker[w].pc # "idle" /\ ~worker[w].legacy)
    BY Zenon, <2>3 DEF Holds
  <2> QED
    BY Zenon, <2>1, <2>2, <2>4 DEF TypeOK
<1> QED
  BY <1>1, RuntimeInvariant, PTL

\* BlockSyncPermit::try_acquire: no two threads synchronize at a time, except
\* for the announcers of the command line, which take no permit.
THEOREM OneSynchronizer == Spec => []OneHolder
<1>1. RuntimeInv => OneHolder
  BY DEF RuntimeInv
<1> QED
  BY <1>1, RuntimeInvariant, PTL

-----------------------------------------------------------------------------
(* Mainnet: durability, and the transactions that were admitted.             *)

Durable == running => mem = disk

\* What state s still holds, or has settled, of the pending transactions.
Survive(pending, s) == \A t \in pending : t \in s.mempool \/ Coin[t] \in Spent(s.chain)

\* What one step owes the pending transactions.
Kept == running /\ running' => Survive(mem.mempool, mem')

\* refresh_pending_after_runtime_commit keeps the live mempool, except for what
\* the new chain spends.
LEMMA RefreshKeepsPending ==
  ASSUME NEW candidate, NEW current
  PROVE  Survive(current.mempool, refresh_pending(candidate, current))
BY DEF Survive, refresh_pending, WithMempool, Merge, StillValid

\* validate_and_apply_block drops only what the chain confirms.
LEMMA UnconfirmedKeepsPending ==
  ASSUME NEW c, NEW pending, NEW side
  PROVE  Survive(pending, State(c, Unconfirmed(c, pending), side))
BY DEF Survive, State, Unconfirmed, Spent

\* Every step of a Mainnet node leaves memory and disk equal or the process
\* ended, and keeps what is pending.
LEMMA StepIsSafe ==
  ASSUME IsMainnet, Durable, Next
  PROVE  Durable' /\ (mem' = mem \/ Kept)
<1> USE DEF Durable, Kept
<1>1. ASSUME NEW w \in Workers, ApplyBlock(w)
      PROVE  Durable' /\ (mem' = mem \/ Kept)
  <2> DEFINE job == worker[w].job
             new == State(job.headers, Unconfirmed(job.headers, mem.mempool), mem.side)
  <2>1. Survive(mem.mempool, new)
    BY UnconfirmedKeepsPending
  <2> QED
    BY Zenon, <1>1, <2>1
    DEF ApplyBlock, Commit, SaveAndPublish, SaveFails, StopThreads
<1>2. ASSUME NEW w \in Workers, CommitWorker(w)
      PROVE  Durable' /\ (mem' = mem \/ Kept)
  <2>1. Survive(mem.mempool, ToCommit(worker[w].job))
    BY RefreshKeepsPending, IsMainnet DEF ToCommit
  <2> QED
    BY Zenon, <1>2, <2>1
    DEF CommitWorker, Commit, SaveAndPublish, SaveFails, StopThreads
<1>3. CASE CommitPoll
  <2>1. Survive(mem.mempool, ToCommit(main.job))
    BY RefreshKeepsPending, IsMainnet DEF ToCommit
  <2> QED
    BY Zenon, <1>3, <2>1
    DEF CommitPoll, CommitMain, SaveAndPublish, SaveFails, StopThreads
<1>4. CASE CommitMining
  <2>1. \A candidate : Survive(mem.mempool, refresh_pending(candidate, mem))
    BY RefreshKeepsPending
  <2> QED
    BY Zenon, <1>4, <2>1
    DEF CommitMining, CommitMain, SaveAndPublish, SaveFails, StopThreads
<1>5. ASSUME NEW t \in Txs, AnnounceTx(t)
      PROVE  Durable' /\ (mem' = mem \/ Kept)
  <2>1. Survive(mem.mempool, WithMempool(mem, mem.mempool \cup {t}))
    BY DEF Survive, WithMempool
  <2> QED
    BY Zenon, <1>5, <2>1
    DEF AnnounceTx, Commit, SaveAndPublish, SaveFails, StopThreads
<1>6. CASE Restart
  BY <1>6 DEF Restart
<1>7. CASE Crash
  BY <1>7 DEF Crash, StopThreads
<1>8. ASSUME UNCHANGED <<mem, disk, running>>
      PROVE  Durable' /\ (mem' = mem \/ Kept)
  BY <1>8
<1>9. CASE StageMining \/ NoTicket \/ NextRound \/ CollectMain \/ \E p \in Peers : StartPoll(p)
  BY <1>8, <1>9 DEF StageMining, NoTicket, NextRound, CollectMain, StartPoll
<1>10. CASE \E w \in Workers : ReceiveBlock(w) \/ CollectWorker(w) \/ RequestFails(w)
  BY <1>8, <1>10 DEF ReceiveBlock, CollectWorker, RequestFails
<1>11. CASE \/ \E w \in Workers, p \in Peers, legacy \in BOOLEAN : AnnounceBlock(w, p, legacy)
            \/ \E p \in Peers : PeerAdopts(p)
  BY <1>8, <1>11 DEF AnnounceBlock, PeerAdopts
<1>12. ~MineDevnet
  BY IsMainnet DEF MineDevnet
<1> QED
  BY <1>1, <1>2, <1>3, <1>4, <1>5, <1>6, <1>7, <1>9, <1>10, <1>11, <1>12
  DEF Next, MainLoop, WorkerStep

\* save_live_runtime_state and the lock around it: what a running Mainnet node
\* shows is a valid chain, and is what its disk holds.
THEOREM RunningMemoryIsDurable ==
  ASSUME IsMainnet
  PROVE  Spec => []MemoryIsDurable
<1>1. Init => Durable
  BY DEF Init, Durable
<1>2. Durable /\ [Next]_vars => Durable'
  BY Zenon, StepIsSafe, IsMainnet DEF Durable, vars
<1>3. TypeOK /\ Durable => MemoryIsDurable
  BY DEF Durable, MemoryIsDurable
<1> QED
  BY <1>1, <1>2, <1>3, ChainsAreValid, PTL DEF Spec

\* No commit of a thread that worked on an old copy of the state loses a
\* transaction that was admitted meanwhile.
THEOREM AdmittedSurvives ==
  ASSUME IsMainnet
  PROVE  Spec => AdmittedSurvivesCommit
<1>1. Durable /\ [Next]_vars =>
        [running /\ running' => \A t \in mem.mempool :
            t \in mem'.mempool \/ Coin[t] \in Spent(mem'.chain)]_mem
  BY StepIsSafe, IsMainnet DEF Kept, Survive, vars
<1>2. MemoryIsDurable => Durable
  BY DEF Durable, MemoryIsDurable
<1>3. Spec => []MemoryIsDurable
  BY RunningMemoryIsDurable, IsMainnet
<1> QED
  BY <1>1, <1>2, <1>3, PTL DEF Spec, AdmittedSurvivesCommit

-----------------------------------------------------------------------------
(* Induction on the natural numbers, for sets: a property that holds of 0 and *)
(* of n + 1 whenever it holds of n is the set of all natural numbers.          *)

Less == {ss \in Nat \X Nat : ss[1] < ss[2]}

\* The pairs of that relation.
LEMMA LessPairs == \A x, y \in Nat : x < y => <<x, y>> \in Less
<1>1. TAKE x, y \in Nat
<1>2. HAVE x < y
<1>3. <<x, y>> \in Nat \X Nat /\ <<x, y>>[1] = x /\ <<x, y>>[2] = y
  OBVIOUS
<1> QED
  BY Zenon, <1>2, <1>3 DEF Less

\* A set of natural numbers has a least element.
LEMMA LeastNatural ==
  ASSUME NEW T \in SUBSET Nat, T # {}
  PROVE  \E x \in T : \A y \in T : x <= y
<1>1. OpToRel(<, Nat) = Less
  BY Zenon DEF OpToRel, Less
<1>2. IsWellFoundedOn(Less, Nat)
  BY Zenon, <1>1, NatLessThanWellFounded
<1>3. PICK x \in T : \A y \in T : <<y, x>> \notin Less
  BY Zenon, <1>2, WFMin
<1>4. ASSUME NEW y \in T PROVE x <= y
  <2>1. x \in Nat /\ y \in Nat
    OBVIOUS
  <2>2. <<y, x>> \notin Less
    BY Zenon, <1>3
  <2>3. ~(y < x)
    BY Zenon, <2>1, <2>2, LessPairs
  <2> QED
    BY <2>1, <2>3
<1> QED
  BY <1>4

\* Induction.
LEMMA SetInduction ==
  ASSUME NEW T \in SUBSET Nat, 0 \in T, \A n \in T : n + 1 \in T
  PROVE  T = Nat
<1>1. SUFFICES ASSUME Nat \ T # {} PROVE FALSE
  BY Zenon
<1>2. PICK x \in Nat \ T : \A y \in Nat \ T : x <= y
  BY Zenon, <1>1, LeastNatural
<1>3. x - 1 \in Nat /\ x - 1 \notin Nat \ T
  BY <1>2
<1> QED
  BY <1>2, <1>3

-----------------------------------------------------------------------------
(* Mainnet: the work of the chain.                                            *)

\* Every block has work, whatever its target.
LEMMA BlockWork ==
  ASSUME NEW c \in Seq(Block)
  PROVE  Len(c) \in Nat /\ \A i \in 1 .. Len(c) : c[i].work \in Nat /\ c[i].work > 0
<1>1. Len(c) \in Nat /\ \A i \in 1 .. Len(c) : c[i] \in Block
  BY LenProperties, ElementOfSeq
<1> QED
  BY <1>1 DEF Block

\* f adds up the work of the first blocks of c, up to the n-th.
Sums(f, c, n) == /\ f \in [0 .. n -> Int]
                 /\ \A i \in 0 .. n : f[i] = IF i = 0 THEN 0 ELSE f[i - 1] + c[i].work

\* One block more.
LEMMA NextSum ==
  ASSUME NEW f, NEW c, NEW m \in Nat, Sums(f, c, m), NEW n \in Nat, n + 1 <= m
  PROVE  f[n] \in Int /\ f[n + 1] \in Int /\ f[n + 1] = f[n] + c[n + 1].work
BY DEF Sums

\* There is such an f: the sums are extended block by block.
LEMMA SumsExist ==
  ASSUME NEW c \in Seq(Block), NEW m \in Nat, m <= Len(c)
  PROVE  \E f : Sums(f, c, m)
<1> DEFINE T == {n \in Nat : n <= Len(c) => \E f : Sums(f, c, n)}
<1>a. Len(c) \in Nat /\ \A i \in 1 .. Len(c) : c[i].work \in Nat
  BY BlockWork
<1>1. 0 \in T
  <2>1. Sums([i \in 0 .. 0 |-> 0], c, 0)
    BY DEF Sums
  <2> QED
    BY <2>1
<1>2. ASSUME NEW n \in T PROVE n + 1 \in T
  <2>1. SUFFICES ASSUME n + 1 <= Len(c) PROVE \E f : Sums(f, c, n + 1)
    OBVIOUS
  <2>2. PICK f : Sums(f, c, n)
    BY <2>1, <1>a
  <2>3. c[n + 1].work \in Nat
    BY <2>1, <1>a
  <2> DEFINE g == [i \in 0 .. n + 1 |-> IF i = n + 1 THEN f[n] + c[n + 1].work ELSE f[i]]
  <2>4. g \in [0 .. n + 1 -> Int]
    BY <2>2, <2>3 DEF Sums
  <2>5. ASSUME NEW i \in 0 .. n + 1 PROVE g[i] = IF i = 0 THEN 0 ELSE g[i - 1] + c[i].work
    BY <2>2, <2>3 DEF Sums
  <2>6. Sums(g, c, n + 1)
    BY <2>4, <2>5 DEF Sums
  <2> QED
    BY <2>6
<1>3. T = Nat
  <2> HIDE DEF T
  <2>1. T \in SUBSET Nat
    BY DEF T
  <2> QED
    BY <1>1, <1>2, <2>1, SetInduction
<1> QED
  BY <1>3

\* The loop of chainwork computes these sums.
LEMMA WorkAddsUp ==
  ASSUME NEW c \in Seq(Block)
  PROVE  Sums(WorkUpTo(c), c, Len(c))
<1>a. Len(c) \in Nat
  BY LenProperties
<1>1. PICK f : Sums(f, c, Len(c))
  BY <1>a, SumsExist
<1>2. f = [i \in 0 .. Len(c) |-> IF i = 0 THEN 0 ELSE f[i - 1] + c[i].work]
  BY <1>1 DEF Sums
<1> DEFINE W == WorkUpTo(c)
<1>3. W = CHOOSE g : g = [i \in 0 .. Len(c) |-> IF i = 0 THEN 0 ELSE g[i - 1] + c[i].work]
  BY Zenon DEF WorkUpTo
<1>4. W = [i \in 0 .. Len(c) |-> IF i = 0 THEN 0 ELSE W[i - 1] + c[i].work]
  BY Zenon, <1>2, <1>3
<1> HIDE DEF W
<1> DEFINE T == {n \in Nat : n <= Len(c) => W[n] = f[n]}
<1>5. 0 \in T
  BY <1>1, <1>4, <1>a DEF Sums
<1>6. ASSUME NEW n \in T PROVE n + 1 \in T
  BY <1>1, <1>4, <1>a DEF Sums
<1>7. T = Nat
  <2>1. T \in SUBSET Nat
    OBVIOUS
  <2> HIDE DEF T
  <2> QED
    BY <1>5, <1>6, <2>1, SetInduction
<1>8. \A i \in 0 .. Len(c) : W[i] = f[i]
  BY <1>7, <1>a
<1>9. W \in [0 .. Len(c) -> Int]
  BY <1>1, <1>4, <1>8 DEF Sums
<1> QED
  BY <1>1, <1>8, <1>9, <1>a DEF Sums, W

\* The first blocks of a chain have less work than all of it.
LEMMA WorkGrows ==
  ASSUME NEW c \in Seq(Block), NEW k \in 0 .. Len(c), k < Len(c)
  PROVE  WorkUpTo(c)[k] < chainwork(c)
<1>a. Len(c) \in Nat /\ \A i \in 1 .. Len(c) : c[i].work \in Nat /\ c[i].work > 0
  BY BlockWork
<1> DEFINE W == WorkUpTo(c)
<1>b. Sums(W, c, Len(c))
  BY WorkAddsUp
<1> HIDE DEF W
<1> DEFINE T == {n \in Nat : k < n /\ n <= Len(c) => W[k] < W[n]}
<1>1. 0 \in T
  OBVIOUS
<1>2. ASSUME NEW n \in T PROVE n + 1 \in T
  <2>1. SUFFICES ASSUME k < n + 1, n + 1 <= Len(c) PROVE W[k] < W[n + 1]
    OBVIOUS
  <2>2. W[n] \in Int /\ W[n + 1] \in Int /\ W[n + 1] = W[n] + c[n + 1].work
    BY <2>1, <1>a, <1>b, NextSum
  <2>3. c[n + 1].work \in Nat /\ c[n + 1].work > 0
    BY <2>1, <1>a
  <2>4. k = n \/ W[k] < W[n]
    BY <2>1, <1>a
  <2>5. W[k] \in Int
    BY <1>a, <1>b DEF Sums
  <2> QED
    BY <2>2, <2>3, <2>4, <2>5
<1>3. T = Nat
  <2>1. T \in SUBSET Nat
    OBVIOUS
  <2> HIDE DEF T
  <2> QED
    BY <1>1, <1>2, <2>1, SetInduction
<1>5. W[k] < W[Len(c)]
  BY <1>3, <1>a
<1> QED
  BY <1>5 DEF chainwork, W

\* chainwork of a prefix.
LEMMA WorkOfPrefix ==
  ASSUME NEW a \in Seq(Block), NEW b \in Seq(Block), Len(a) <= Len(b),
         \A i \in 1 .. Len(a) : a[i] = b[i]
  PROVE  WorkUpTo(b)[Len(a)] = chainwork(a)
<1>a. Len(a) \in Nat /\ Len(b) \in Nat
  BY LenProperties
<1> DEFINE V == WorkUpTo(a)
           W == WorkUpTo(b)
<1>b. Sums(V, a, Len(a)) /\ Sums(W, b, Len(b))
  BY WorkAddsUp
<1> HIDE DEF V, W
<1> DEFINE T == {n \in Nat : n <= Len(a) => V[n] = W[n]}
<1>1. 0 \in T
  BY <1>a, <1>b DEF Sums
<1>2. ASSUME NEW n \in T PROVE n + 1 \in T
  <2>1. SUFFICES ASSUME n + 1 <= Len(a) PROVE V[n + 1] = W[n + 1]
    OBVIOUS
  <2>2. V[n + 1] = V[n] + a[n + 1].work /\ W[n + 1] = W[n] + b[n + 1].work
    BY <2>1, <1>a, <1>b, NextSum
  <2>3. a[n + 1] = b[n + 1] /\ V[n] = W[n]
    BY <2>1, <1>a
  <2> QED
    BY <2>2, <2>3
<1>3. T = Nat
  <2>1. T \in SUBSET Nat
    OBVIOUS
  <2> HIDE DEF T
  <2> QED
    BY <1>1, <1>2, <2>1, SetInduction
<1>4. V[Len(a)] = W[Len(a)]
  BY <1>3, <1>a
<1> QED
  BY <1>4 DEF chainwork, V, W

\* Whatever extends a chain has more work.
LEMMA ExtensionHasMoreWork ==
  ASSUME NEW a \in Seq(Block), NEW b \in Seq(Block), Len(a) < Len(b), IsPrefix(a, b)
  PROVE  chainwork(b) > chainwork(a)
<1>a. Len(a) \in Nat /\ Len(b) \in Nat
  BY LenProperties
<1>1. \A i \in 1 .. Len(a) : a[i] = b[i]
  <2>1. SubSeq(a, 1, Len(a)) = SubSeq(b, 1, Len(a))
    BY Zenon DEF IsPrefix
  <2>2. ASSUME NEW i \in 1 .. Len(a)
        PROVE  SubSeq(a, 1, Len(a))[i] = a[i] /\ SubSeq(b, 1, Len(a))[i] = b[i]
    BY <1>a
  <2> QED
    BY <2>1, <2>2
<1>2. WorkUpTo(b)[Len(a)] = chainwork(a)
  BY <1>1, <1>a, WorkOfPrefix
<1>3. WorkUpTo(b)[Len(a)] < chainwork(b)
  BY <1>a, WorkGrows
<1>4. Sums(WorkUpTo(b), b, Len(b))
  BY WorkAddsUp
<1>5. WorkUpTo(b)[Len(a)] \in Int /\ chainwork(b) \in Int
  BY <1>4, <1>a DEF Sums, chainwork
<1> QED
  BY <1>2, <1>3, <1>5

\* A mined block extends the chain.
LEMMA CandidateExtends ==
  ASSUME NEW s, GoodState(s), NEW e \in Int
  PROVE  /\ Len(s.chain) < Len(Candidate(s, e, s.mempool))
         /\ IsPrefix(s.chain, Candidate(s, e, s.mempool))
<1>1. /\ GoodChain(s.chain) /\ s.chain \in Seq(Block) /\ s.mempool \in SUBSET Txs
      /\ Path(s.chain) \in Seq(Miners \X Int) /\ Len(s.chain) > 0
  BY ChainFacts DEF GoodState, States, GoodChain
<1>2. PICK b \in Block : b = [by |-> <<"me", e>>, parent |-> Path(s.chain), epoch |-> e,
                              work |-> 1, txs |-> s.mempool]
  BY Zenon, <1>1, MinedBlock
<1>3. Candidate(s, e, s.mempool) = Append(s.chain, b)
  BY Zenon, <1>2 DEF Candidate
<1>4. /\ Len(s.chain) \in Nat /\ Len(Append(s.chain, b)) = Len(s.chain) + 1
      /\ \A i \in 1 .. Len(s.chain) : SubSeq(Append(s.chain, b), 1, i) = SubSeq(s.chain, 1, i)
  BY <1>1, AppendFacts
<1>5. /\ Len(s.chain) <= Len(Append(s.chain, b))
      /\ SubSeq(s.chain, 1, Len(s.chain)) = SubSeq(Append(s.chain, b), 1, Len(s.chain))
  BY <1>1, <1>4
<1> QED
  BY <1>3, <1>4, <1>5 DEF IsPrefix

\* Adopting state s is no loss: it has the chain of the live state, or more work.
NoLess(s) == s.chain = mem.chain \/ chainwork(s.chain) > chainwork(mem.chain)

\* sync_state_from_peer_duplex and reconcile_validated_remote keep the chain or
\* return one with more work.
LEMMA SyncHasMoreWork ==
  ASSUME NEW s, GoodState(s), NEW c, GoodChain(c)
  PROVE  \/ sync_state_from_peer(s, c).chain = s.chain
         \/ chainwork(sync_state_from_peer(s, c).chain) > chainwork(s.chain)
<1>1. c \in Seq(Block) /\ s.chain \in Seq(Block) /\ Len(c) \in Nat /\ Len(s.chain) \in Nat
  BY LenProperties DEF GoodChain, GoodState
<1>2. \A pending, side : State(c, pending, side).chain = c
  BY DEF State
<1>3. CASE Len(c) > Len(s.chain) /\ IsPrefix(s.chain, c)
  <2>1. chainwork(c) > chainwork(s.chain)
    BY <1>1, <1>3, ExtensionHasMoreWork
  <2> QED
    BY Zenon, <1>2, <1>3, <2>1 DEF sync_state_from_peer
<1>4. CASE ~(Len(c) > Len(s.chain) /\ IsPrefix(s.chain, c))
  BY Zenon, <1>2, <1>4 DEF sync_state_from_peer, reconcile, MoreWork
<1> QED
  BY <1>3, <1>4

\* What a finished synchronization commits, if the tip did not move.
LEMMA ToCommitNoLess ==
  ASSUME NEW job, GoodJob(job), Collected(job), TipUnchanged(job)
  PROVE  NoLess(ToCommit(job))
<1>1. job.headers \in Seq(Block) /\ Len(job.headers) > 0 /\ GoodState(job.base)
  BY LenProperties DEF GoodJob, Jobs, Collected
<1>2. NoLess(SyncResult(job))
  <2>1. Valid(job.headers) => NoLess(sync_state_from_peer(job.base, job.headers))
    BY <1>1, SyncHasMoreWork DEF GoodChain, NoLess, TipUnchanged
  <2> QED
    BY Zenon, <2>1 DEF SyncResult, NoLess, TipUnchanged
<1>3. ToCommit(job).chain = SyncResult(job).chain
  BY DEF ToCommit, refresh_pending, WithMempool
<1> QED
  BY <1>2, <1>3 DEF NoLess

\* The chain in memory changes only for one with more work, and what is on disk
\* is never behind it: a Mainnet process that failed to save has ended, and its
\* disk may hold the state that it was about to publish.
Grows == mem'.chain = mem.chain \/ chainwork(mem'.chain) > chainwork(mem.chain)

\* Whatever becomes of a save.
LEMMA SaveGrows ==
  ASSUME NoLess(disk), NEW new, NoLess(new),
         \/ SaveAndPublish(new)
         \/ SaveFails(new) /\ mem' = mem
  PROVE  NoLess(disk)' /\ Grows
<1>1. CASE SaveAndPublish(new)
  BY <1>1 DEF SaveAndPublish, NoLess, Grows
<1>2. CASE SaveFails(new) /\ mem' = mem
  BY <1>2 DEF SaveFails, NoLess, Grows
<1> QED
  BY <1>1, <1>2

\* Every step of a Mainnet node.
LEMMA StepGrows ==
  ASSUME IsMainnet, RuntimeInv, NoLess(disk), Next
  PROVE  NoLess(disk)' /\ Grows
<1>a. /\ GoodState(mem) /\ mem.chain \in Seq(Block) /\ WorkersInv /\ GoodMain(main)
  BY DEF RuntimeInv, GoodState, GoodChain
<1>0. ASSUME UNCHANGED <<mem, disk>> PROVE NoLess(disk)' /\ Grows
  BY <1>0 DEF NoLess, Grows
<1>1. ASSUME NEW w \in Workers, ApplyBlock(w)
      PROVE  NoLess(disk)' /\ Grows
  <2> DEFINE job == worker[w].job
             new == State(job.headers, Unconfirmed(job.headers, mem.mempool), mem.side)
  <2>1. CASE AppliesToLive(w) /\ Commit(new, Release(w) /\ main' = main)
    <3>1. job.headers \in Seq(Block)
      BY <1>1, <1>a DEF ApplyBlock, WorkersInv, GoodWorker, GoodJob, Jobs
    <3>2. Len(job.headers) = Len(mem.chain) + 1 /\ IsPrefix(mem.chain, job.headers)
      BY Zenon, <2>1 DEF AppliesToLive, Extends
    <3>3. chainwork(job.headers) > chainwork(mem.chain)
      BY <3>1, <3>2, <1>a, LenProperties, ExtensionHasMoreWork
    <3>4. NoLess(new)
      BY <3>3 DEF NoLess, State
    <3>5. SaveAndPublish(new) \/ (SaveFails(new) /\ mem' = mem)
      BY Zenon, <2>1, IsMainnet DEF Commit
    <3> QED
      BY Zenon, <3>4, <3>5, SaveGrows
  <2>2. CASE UNCHANGED <<mem, disk>>
    BY <2>2, <1>0
  <2> QED
    BY Zenon, <1>1, <2>1, <2>2 DEF ApplyBlock
<1>2. ASSUME NEW w \in Workers, CommitWorker(w)
      PROVE  NoLess(disk)' /\ Grows
  <2> DEFINE new == ToCommit(worker[w].job)
  <2>1. CASE TipUnchanged(worker[w].job) /\ Commit(new, Release(w) /\ main' = main)
    <3>1. GoodJob(worker[w].job) /\ Collected(worker[w].job)
      BY <1>2, <1>a DEF CommitWorker, WorkersInv, GoodWorker
    <3>2. NoLess(new)
      BY Zenon, <2>1, <3>1, ToCommitNoLess
    <3>3. SaveAndPublish(new) \/ (SaveFails(new) /\ mem' = mem)
      BY Zenon, <2>1, IsMainnet DEF Commit
    <3> QED
      BY Zenon, <3>2, <3>3, SaveGrows
  <2>2. CASE UNCHANGED <<mem, disk>>
    BY <2>2, <1>0
  <2> QED
    BY Zenon, <1>2, <2>1, <2>2 DEF CommitWorker
<1>3. CASE CommitPoll
  <2> DEFINE new == ToCommit(main.job)
  <2>1. CASE TipUnchanged(main.job) /\ CommitMain(new, PollDone /\ worker' = worker)
    <3>1. GoodJob(main.job) /\ Collected(main.job)
      BY <1>3, <1>a DEF CommitPoll, GoodMain
    <3>2. NoLess(new)
      BY Zenon, <2>1, <3>1, ToCommitNoLess
    <3>3. SaveAndPublish(new) \/ (SaveFails(new) /\ mem' = mem)
      BY Zenon, <2>1, IsMainnet DEF CommitMain
    <3> QED
      BY Zenon, <3>2, <3>3, SaveGrows
  <2>2. CASE UNCHANGED <<mem, disk>>
    BY <2>2, <1>0
  <2> QED
    BY Zenon, <1>3, <2>1, <2>2 DEF CommitPoll
<1>4. CASE CommitMining
  <2> DEFINE base == main.job.base
             rest == main' = [pc |-> "poll", job |-> NoJob, left |-> Peers] /\ UNCHANGED <<permit, worker>>
  <2>1. ASSUME TipUnchanged(main.job), NEW e \in (base.epoch + 1) .. MaxEpoch,
               CommitMain(refresh_pending(State(Candidate(base, e, base.mempool), {}, base.side), mem), rest)
        PROVE  NoLess(disk)' /\ Grows
    <3>1. /\ GoodState(base) /\ base.chain = mem.chain
          /\ StillValid(base.chain, base.mempool) = base.mempool
      BY <1>4, <1>a, <2>1 DEF CommitMining, GoodMain, TipUnchanged
    <3>2. base.epoch \in Int /\ e \in Int /\ e > base.epoch
      BY <2>1, <3>1 DEF GoodState, States
    <3>3. PICK c : c = Candidate(base, e, base.mempool) /\ GoodChain(c)
      BY <3>1, <3>2, CandidateGood
    <3>4. chainwork(c) > chainwork(mem.chain)
      <4>1. Len(mem.chain) < Len(c) /\ IsPrefix(mem.chain, c)
        BY Zenon, <3>1, <3>2, <3>3, CandidateExtends
      <4>2. c \in Seq(Block)
        BY Zenon, <3>3 DEF GoodChain
      <4> QED
        BY Zenon, <4>1, <4>2, <1>a, ExtensionHasMoreWork
    <3>5. PICK new : new = refresh_pending(State(c, {}, base.side), mem) /\ NoLess(new)
      <4>1. refresh_pending(State(c, {}, base.side), mem).chain = c
        BY DEF refresh_pending, WithMempool, State
      <4> QED
        BY Zenon, <3>4, <4>1 DEF NoLess
    <3>6. SaveAndPublish(new) \/ (SaveFails(new) /\ mem' = mem)
      BY Zenon, <2>1, <3>3, <3>5, IsMainnet DEF CommitMain
    <3> QED
      BY Zenon, <3>5, <3>6, SaveGrows
  <2>2. CASE UNCHANGED <<mem, disk>>
    BY <2>2, <1>0
  <2> QED
    BY Zenon, <1>4, <2>1, <2>2 DEF CommitMining
<1>5. ASSUME NEW t \in Txs, AnnounceTx(t)
      PROVE  NoLess(disk)' /\ Grows
  <2> DEFINE new == WithMempool(mem, mem.mempool \cup {t})
  <2>1. NoLess(new)
    BY DEF NoLess, WithMempool
  <2>2. SaveAndPublish(new) \/ (SaveFails(new) /\ mem' = mem)
    BY Zenon, <1>5, IsMainnet DEF AnnounceTx, Commit
  <2> QED
    BY Zenon, <2>1, <2>2, SaveGrows
<1>6. CASE Restart
  <2>1. mem'.chain = disk.chain /\ disk'.chain = disk.chain
    BY <1>6 DEF Restart, WithMempool
  <2> QED
    BY <2>1 DEF NoLess, Grows
<1>7. CASE Crash
  BY <1>0, <1>7 DEF Crash
<1>8. CASE StageMining \/ NoTicket \/ NextRound \/ CollectMain \/ \E p \in Peers : StartPoll(p)
  BY <1>0, <1>8 DEF StageMining, NoTicket, NextRound, CollectMain, StartPoll
<1>9. CASE \E w \in Workers : ReceiveBlock(w) \/ CollectWorker(w) \/ RequestFails(w)
  BY <1>0, <1>9 DEF ReceiveBlock, CollectWorker, RequestFails
<1>10. CASE \/ \E w \in Workers, p \in Peers, legacy \in BOOLEAN : AnnounceBlock(w, p, legacy)
            \/ \E p \in Peers : PeerAdopts(p)
  BY <1>0, <1>10 DEF AnnounceBlock, PeerAdopts
<1>11. ~MineDevnet
  BY IsMainnet DEF MineDevnet
<1> QED
  BY <1>1, <1>2, <1>3, <1>4, <1>5, <1>6, <1>7, <1>8, <1>9, <1>10, <1>11
  DEF Next, MainLoop, WorkerStep

\* A Mainnet node leaves its chain only for one with more work, whatever its
\* threads read before they took the lock and wherever a save or the process fails.
THEOREM WorkOnlyGrows ==
  ASSUME IsMainnet
  PROVE  Spec => NoChangeWithoutWork
<1>1. Init => NoLess(disk)
  BY DEF Init, NoLess
<1>2. RuntimeInv /\ NoLess(disk) /\ [Next]_vars => NoLess(disk)'
  <2>1. CASE Next
    BY Zenon, <2>1, StepGrows, IsMainnet
  <2>2. CASE UNCHANGED vars
    BY <2>2 DEF NoLess, vars
  <2> QED
    BY <2>1, <2>2
<1>3. RuntimeInv /\ NoLess(disk) /\ [Next]_vars =>
        [mem'.chain # mem.chain => chainwork(mem'.chain) > chainwork(mem.chain)]_mem
  <2>1. CASE Next
    BY Zenon, <2>1, StepGrows, IsMainnet DEF Grows
  <2>2. CASE UNCHANGED vars
    BY <2>2 DEF vars
  <2> QED
    BY <2>1, <2>2
<1> QED
  BY <1>1, <1>2, <1>3, RuntimeInvariant, PTL DEF Spec, NoChangeWithoutWork
=============================================================================
