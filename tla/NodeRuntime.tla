---------------------------- MODULE NodeRuntime -----------------------------
(***************************************************************************)
(* One running node: the shared state behind its lock, the main loop that  *)
(* mines and polls its peers, the threads that handle announcements, the   *)
(* permit that lets one synchronization run at a time, and the storage.    *)
(*                                                                         *)
(* A chain is a sequence of blocks from the bootstrap block on; comparing  *)
(* chains is comparing tip hashes.  A synchronization reads a base, talks  *)
(* to a peer without the lock, and commits only if the tip did not move.   *)
(***************************************************************************)
EXTENDS Integers, Sequences, FiniteSets, SequencesExt

CONSTANTS
    IsMainnet,
    Peers, Workers, Txs,
    Miners,                    \* who may sign a block; "me" is this node
    Coin,                      \* the output that a transaction spends
    Genesis,                   \* the bootstrap block
    PeerChains,                \* what peers may come to hold
    NoJob,
    MAX_HEADERS_PER_RESPONSE, MAX_SIDE_BRANCHES,
    MaxHeight, MaxEpoch, MaxFaults, MaxCrashes, MaxAnnounces

\* The work of a block is 2^256 \div (target + 1), never 0 for 32 bytes of target.
Block == [by : Miners \X Int, parent : Seq(Miners \X Int), epoch : Int, work : Nat \ {0},
          txs : SUBSET Txs]

ASSUME RuntimeAssumption ==
    /\ "me" \in Miners
    /\ MAX_HEADERS_PER_RESPONSE \in Nat /\ MAX_SIDE_BRANCHES \in Nat
    /\ Genesis \in Block
    /\ \A t, u \in Genesis.txs : Coin[t] = Coin[u] => t = u
    /\ \A c \in PeerChains : c \in Seq(Block) /\ Len(c) > 0

VARIABLES
    mem, disk,      \* [chain, epoch, mempool, side]
    running,
    permit,         \* BLOCK_SYNC_IN_FLIGHT
    main,           \* the main loop: [pc, job, left]
    worker,         \* announcement threads: [pc, job, legacy]
    peer,           \* canonical chains of the peers
    faults, crashes, announces
vars == <<mem, disk, running, permit, main, worker, peer, faults, crashes, announces>>

-----------------------------------------------------------------------------
(* Chains.                                                                 *)

\* The work of the first i blocks, for every i.
WorkUpTo(c) ==
    LET work[i \in 0..Len(c)] == IF i = 0 THEN 0 ELSE work[i - 1] + c[i].work
    IN  work
chainwork(c) == WorkUpTo(c)[Len(c)]
Confirmed(c) == UNION {c[i].txs : i \in 1..Len(c)}
Spent(c) == {Coin[t] : t \in Confirmed(c)}
TipEpoch(c) == c[Len(c)].epoch

Path(c) == Append(c[Len(c)].parent, c[Len(c)].by)

Valid(c) == /\ c[1] = Genesis
            /\ \A i \in 2..Len(c) : c[i].parent = Path(SubSeq(c, 1, i - 1))
            /\ \A i \in 2..Len(c) : c[i].epoch > c[i - 1].epoch
            /\ \A i, j \in 1..Len(c) : \A t \in c[i].txs, u \in c[j].txs :
                  Coin[t] = Coin[u] => t = u /\ i = j

common_ancestor_height(a, b) ==
    Cardinality({i \in 1..Len(a) : i <= Len(b) /\ SubSeq(a, 1, i) = SubSeq(b, 1, i)})

State(c, pending, side) ==
    [chain |-> c, epoch |-> TipEpoch(c), mempool |-> pending, side |-> side]

WithMempool(s, pending) ==
    [chain |-> s.chain, epoch |-> s.epoch, mempool |-> pending, side |-> s.side]

\* A pending transaction that is neither confirmed nor double spent.
StillValid(c, pending) == {t \in pending : Coin[t] \notin Spent(c)}

\* validate_and_apply_block removes what it confirms and keeps the rest.
Unconfirmed(c, pending) == pending \ Confirmed(c)

block_known(s, c) ==
    \/ \E i \in 1..Len(s.chain) : SubSeq(s.chain, 1, i) = c
    \/ \E k \in 1..Len(s.side) : \E i \in 1..Len(s.side[k]) : SubSeq(s.side[k], 1, i) = c

archive_branch(side, c) ==
    IF \E k \in 1..Len(side) : side[k] = c THEN side
    ELSE LET s == Append(side, c)
         IN  IF Len(s) > MAX_SIDE_BRANCHES THEN Tail(s) ELSE s

\* Transactions of the old mempool first, then the disconnected ones.
Merge(c, first, second) ==
    LET f == StillValid(c, first)
    IN  f \cup {t \in StillValid(c, second) : ~ \E u \in f : Coin[u] = Coin[t]}

restore_reorg_mempool(c, old) ==
    Merge(c, old.mempool,
          Confirmed(SubSeq(old.chain, common_ancestor_height(old.chain, c) + 1, Len(old.chain))))

MoreWork(local, remote) == chainwork(remote) > chainwork(local)

\* reconcile_validated_remote.  A losing branch is archived in the candidate
\* only, which the callers then drop.
reconcile(s, c) ==
    IF ~MoreWork(s.chain, c) THEN s
    ELSE State(c, restore_reorg_mempool(c, s), archive_branch(s.side, s.chain))

NoRewind(s, c) ==
    IF Len(c) > Len(s.chain) /\ IsPrefix(s.chain, c)
    THEN IF c[Len(s.chain) + 1].epoch > s.epoch THEN State(c, Unconfirmed(c, s.mempool), s.side) ELSE s
    ELSE IF IsPrefix(c, s.chain) THEN s
    ELSE reconcile(s, c)

\* sync_state_from_peer_duplex: local empty epochs are rewound for a late
\* block that extends the chain.
sync_state_from_peer(s, c) ==
    IF Len(c) > Len(s.chain) /\ IsPrefix(s.chain, c) THEN State(c, Unconfirmed(c, s.mempool), s.side)
    ELSE IF IsPrefix(c, s.chain) THEN s
    ELSE reconcile(s, c)

refresh_pending(candidate, current) ==
    WithMempool(candidate, Merge(candidate.chain, current.mempool, candidate.mempool))

-----------------------------------------------------------------------------
(* Saving.  save_live_runtime_state ends a Mainnet process whose save      *)
(* failed, because the commit may be durable or not; a Devnet thread       *)
(* reports the error and goes on with the new state.                       *)

StopThreads ==
    /\ running' = FALSE /\ permit' = FALSE
    /\ main' = [pc |-> "loop", job |-> NoJob, left |-> {}]
    /\ worker' = [w \in Workers |-> [pc |-> "idle", job |-> NoJob, legacy |-> FALSE]]

SaveFails(new) ==
    /\ faults > 0 /\ faults' = faults - 1
    /\ disk' \in {disk, new}

SaveAndPublish(new) == /\ disk' = new /\ mem' = new /\ UNCHANGED <<running, faults>>

SaveErrorIgnored(new, rest) ==
    \/ SaveAndPublish(new) /\ rest
    \/ SaveFails(new) /\ mem' = new /\ running' = running /\ rest

\* A thread other than the main loop saves: `rest' says what becomes of the
\* threads when the process goes on.
Commit(new, rest) ==
    \/ SaveAndPublish(new) /\ rest
    \/ SaveFails(new) /\ IsMainnet /\ mem' = mem /\ StopThreads
    \/ SaveFails(new) /\ ~IsMainnet /\ mem' = new /\ running' = running /\ rest

\* The main loop leaves run_network_node on an error, which ends the process.
CommitMain(new, rest) ==
    \/ SaveAndPublish(new) /\ rest
    \/ SaveFails(new) /\ mem' = (IF IsMainnet THEN mem ELSE new) /\ StopThreads

-----------------------------------------------------------------------------
Init ==
    /\ mem = State(<<Genesis>>, {}, <<>>) /\ disk = mem
    /\ running = TRUE /\ permit = FALSE
    /\ main = [pc |-> "loop", job |-> NoJob, left |-> {}]
    /\ worker = [w \in Workers |-> [pc |-> "idle", job |-> NoJob, legacy |-> FALSE]]
    /\ peer = [p \in Peers |-> <<Genesis>>]
    /\ faults = MaxFaults /\ crashes = 0 /\ announces = 0

\* A synchronization in progress, read from shared state s.
Job(p, s) == [peer |-> p, base |-> s, target |-> 0, headers |-> <<>>]

\* One GETHEADERS: the first answer fixes the height to reach; the peer may
\* reorganize between two answers.
Answer(job) ==
    LET last == Len(job.headers) + MAX_HEADERS_PER_RESPONSE
        c == peer[job.peer]
    IN  SubSeq(c, Len(job.headers) + 1, IF last < Len(c) THEN last ELSE Len(c))
Collected(job) == job.target > 0 /\ Len(job.headers) >= job.target
CollectFails(job) == job.target > 0 /\ Len(peer[job.peer]) < job.target
Collect(job) ==
    LET target == IF job.target = 0 THEN Len(peer[job.peer]) ELSE job.target
        h == job.headers \o Answer(job)
    IN  [job EXCEPT !.target = target,
                    !.headers = SubSeq(h, 1, IF Len(h) < target THEN Len(h) ELSE target)]

\* Headers of two branches do not form a chain: the blocks fail validation.
SyncResult(job) ==
    IF Valid(job.headers) THEN sync_state_from_peer(job.base, job.headers) ELSE job.base

TipUnchecked(job) == TRUE
TipUnchanged(job) == mem.chain = job.base.chain

CandidateAsIs(job) == SyncResult(job)

\* What is committed: Mainnet merges the pending work of the live state, Devnet
\* publishes the candidate as it is.
ToCommit(job) ==
    IF IsMainnet THEN refresh_pending(SyncResult(job), mem) ELSE SyncResult(job)

-----------------------------------------------------------------------------
(* Announcements.  Only the newest block of a peer is announced.           *)

\* process_duplex_block_announce up to its first answer.  RequestID 0 needs
\* the permit; the one-shot announcers of the command line do not.
AnnounceBlock(w, p, legacy) ==
    /\ running /\ worker[w].pc = "idle" /\ announces < MaxAnnounces
    /\ announces' = announces + 1
    /\ ~legacy => ~permit
    /\ ~block_known(mem, peer[p])
    /\ permit' = (permit \/ ~legacy)
    /\ worker' = [worker EXCEPT ![w] =
          [pc |-> IF IsMainnet \/ legacy THEN "block" ELSE "collect",
           job |-> [Job(p, mem) EXCEPT !.headers = IF IsMainnet \/ legacy THEN peer[p] ELSE <<>>],
           legacy |-> legacy]]
    /\ UNCHANGED <<mem, disk, running, main, peer, faults, crashes>>

Done(w) == [worker EXCEPT ![w] = [pc |-> "idle", job |-> NoJob, legacy |-> FALSE]]
Release(w) == worker' = Done(w) /\ permit' = (permit /\ worker[w].legacy)

Extends(s, c) == Len(c) = Len(s.chain) + 1 /\ IsPrefix(s.chain, c)

\* GETBLOCK answered.  The one-shot path copies the state only now.  On Mainnet
\* a block that does not extend the copy starts a synchronization.
ReceiveBlock(w) ==
    LET job == worker[w].job
        base == IF worker[w].legacy THEN mem ELSE job.base
    IN  /\ running /\ worker[w].pc = "block"
        /\ worker' = [worker EXCEPT ![w] = IF IsMainnet /\ ~Extends(base, job.headers)
                         THEN [@ EXCEPT !.pc = "collect", !.job = Job(job.peer, base)]
                         ELSE [@ EXCEPT !.pc = "apply"]]
        /\ UNCHANGED <<mem, disk, running, permit, main, peer, faults, crashes, announces>>

\* Under the lock, on the live state; RequestID 0 also asks that its tip be the
\* one of the copy.
AppliesToLive(w) ==
    LET job == worker[w].job
    IN  /\ Extends(mem, job.headers) /\ Valid(job.headers)
        /\ ~worker[w].legacy => TipUnchanged(job)
        /\ IsMainnet => job.headers[Len(job.headers)].epoch > mem.epoch

ApplyBlock(w) ==
    LET job == worker[w].job
    IN  /\ running /\ worker[w].pc = "apply"
        /\ \/ /\ AppliesToLive(w)
              /\ Commit(State(job.headers, Unconfirmed(job.headers, mem.mempool), mem.side),
                        Release(w) /\ main' = main)
           \/ /\ ~AppliesToLive(w)
              /\ Release(w)
              /\ UNCHANGED <<mem, disk, running, main, faults>>
        /\ UNCHANGED <<peer, crashes, announces>>

CollectWorker(w) ==
    LET job == worker[w].job
    IN  /\ running /\ worker[w].pc = "collect" /\ ~Collected(job)
        /\ \/ CollectFails(job) /\ Release(w)
           \/ /\ ~CollectFails(job)
              /\ worker' = [worker EXCEPT ![w].job = Collect(job)] /\ permit' = permit
        /\ UNCHANGED <<mem, disk, running, main, peer, faults, crashes, announces>>

CommitWorker(w) ==
    LET job == worker[w].job
        new == ToCommit(job)
    IN  /\ running /\ worker[w].pc = "collect" /\ Collected(job)
        /\ \/ /\ SyncResult(job).chain # job.base.chain /\ TipUnchanged(job)
              /\ Commit(new, Release(w) /\ main' = main)
           \/ /\ SyncResult(job).chain = job.base.chain \/ ~TipUnchanged(job)
              /\ Release(w)
              /\ UNCHANGED <<mem, disk, running, main, faults>>
        /\ UNCHANGED <<peer, crashes, announces>>

\* A request times out: the thread ends.
RequestFails(w) ==
    /\ running /\ worker[w].pc \in {"block", "collect"} /\ faults > 0
    /\ faults' = faults - 1 /\ Release(w)
    /\ UNCHANGED <<mem, disk, running, main, peer, crashes, announces>>

\* process_duplex_tx_announce under the lock; the admitted transaction is saved.
AnnounceTx(t) ==
    /\ running /\ announces < MaxAnnounces
    /\ announces' = announces + 1
    /\ t \notin mem.mempool \cup Confirmed(mem.chain)
    /\ StillValid(mem.chain, {t}) = {t}
    /\ ~ \E u \in mem.mempool : Coin[u] = Coin[t]
    /\ StillValid(mem.chain, mem.mempool) = mem.mempool
    /\ Commit(WithMempool(mem, mem.mempool \cup {t}), UNCHANGED <<permit, main, worker>>)
    /\ UNCHANGED <<peer, crashes>>

-----------------------------------------------------------------------------
(* The main loop: one mining attempt, then one synchronization per peer.   *)

Candidate(s, e, pending) ==
    Append(s.chain, [by |-> <<"me", e>>, parent |-> Path(s.chain),
                     epoch |-> e, work |-> 1, txs |-> pending])

\* A pending transaction that became invalid fails the candidate.
CandidateBuilds(s) == StillValid(s.chain, s.mempool) = s.mempool /\ Len(s.chain) < MaxHeight

\* Mainnet: the attempt runs on a copy, without the lock.
StageMining ==
    /\ running /\ IsMainnet /\ main.pc = "loop"
    /\ main' = IF CandidateBuilds(mem) THEN [main EXCEPT !.pc = "staged", !.job = Job(NoJob, mem)]
               ELSE [main EXCEPT !.pc = "poll", !.left = Peers]
    /\ UNCHANGED <<mem, disk, running, permit, worker, peer, faults, crashes, announces>>

NoTicket ==
    /\ running /\ main.pc \in {"loop", "staged"} /\ (IsMainnet \/ mem.epoch = MaxEpoch)
    /\ main' = [pc |-> "poll", job |-> NoJob, left |-> Peers]
    /\ UNCHANGED <<mem, disk, running, permit, worker, peer, faults, crashes, announces>>

\* The epoch is the next one, or a later one after attempts without a ticket.
CommitMining ==
    LET base == main.job.base
        rest == main' = [pc |-> "poll", job |-> NoJob, left |-> Peers] /\ UNCHANGED <<permit, worker>>
    IN  /\ running /\ main.pc = "staged"
        /\ \/ /\ TipUnchanged(main.job)
              /\ \E e \in (base.epoch + 1)..MaxEpoch :
                    LET c == Candidate(base, e, base.mempool)
                    IN  CommitMain(refresh_pending(State(c, {}, base.side), mem), rest)
           \/ ~TipUnchanged(main.job) /\ rest /\ UNCHANGED <<mem, disk, running, faults>>
        /\ UNCHANGED <<peer, crashes, announces>>

\* Devnet mines under the lock; an epoch without a winner passes.  (A failing
\* candidate ends the node; that is left out.)
MineDevnet ==
    LET e == mem.epoch + 1
        c == Candidate(mem, e, mem.mempool)
        rest == main' = [pc |-> "poll", job |-> NoJob, left |-> Peers] /\ UNCHANGED <<permit, worker>>
    IN  /\ running /\ ~IsMainnet /\ main.pc = "loop" /\ e <= MaxEpoch
        /\ \/ CandidateBuilds(mem) /\ CommitMain(State(c, {}, mem.side), rest)
           \/ CommitMain([mem EXCEPT !.epoch = e], rest)
        /\ UNCHANGED <<peer, crashes, announces>>

StartPoll(p) ==
    /\ running /\ main.pc = "poll" /\ p \in main.left
    /\ \/ ~permit /\ permit' = TRUE /\ main' = [pc |-> "sync", job |-> Job(p, mem), left |-> main.left \ {p}]
       \/ permit /\ permit' = permit /\ main' = [main EXCEPT !.left = @ \ {p}]
    /\ UNCHANGED <<mem, disk, running, worker, peer, faults, crashes, announces>>

NextRound ==
    /\ running /\ main.pc = "poll" /\ main.left = {}
    /\ main' = [main EXCEPT !.pc = "loop"]
    /\ UNCHANGED <<mem, disk, running, permit, worker, peer, faults, crashes, announces>>

PollDone == main' = [main EXCEPT !.pc = "poll", !.job = NoJob] /\ permit' = FALSE

CollectMain ==
    /\ running /\ main.pc = "sync" /\ ~Collected(main.job)
    /\ \/ CollectFails(main.job) /\ PollDone /\ faults' = faults
       \/ faults > 0 /\ faults' = faults - 1 /\ PollDone
       \/ /\ ~CollectFails(main.job) /\ faults' = faults
          /\ main' = [main EXCEPT !.job = Collect(@)] /\ permit' = permit
    /\ UNCHANGED <<mem, disk, running, worker, peer, crashes, announces>>

CommitPoll ==
    /\ running /\ main.pc = "sync" /\ Collected(main.job)
    /\ \/ /\ SyncResult(main.job).chain # main.job.base.chain /\ TipUnchanged(main.job)
          /\ CommitMain(ToCommit(main.job), PollDone /\ worker' = worker)
       \/ /\ SyncResult(main.job).chain = main.job.base.chain \/ ~TipUnchanged(main.job)
          /\ PollDone
          /\ UNCHANGED <<mem, disk, running, worker, faults>>
    /\ UNCHANGED <<peer, crashes, announces>>

-----------------------------------------------------------------------------
(* The environment.                                                        *)

\* A peer adopts a chain with more work, its own or ours.
PeerAdopts(p) ==
    /\ \E c \in PeerChains \cup {mem.chain} :
          MoreWork(peer[p], c) /\ peer' = [peer EXCEPT ![p] = c]
    /\ UNCHANGED <<mem, disk, running, permit, main, worker, faults, crashes, announces>>

Crash ==
    /\ running /\ crashes < MaxCrashes /\ crashes' = crashes + 1
    /\ StopThreads
    /\ UNCHANGED <<mem, disk, peer, faults, announces>>

\* Recovery of an interrupted commit purges the pending work.
Restart ==
    /\ ~running /\ running' = TRUE
    /\ \E pending \in {disk.mempool, {}} :
          /\ disk' = WithMempool(disk, pending)
          /\ mem' = disk'
    /\ UNCHANGED <<permit, main, worker, peer, faults, crashes, announces>>

MainLoop ==
    \/ StageMining \/ NoTicket \/ CommitMining \/ MineDevnet
    \/ NextRound \/ CollectMain \/ CommitPoll
    \/ \E p \in Peers : StartPoll(p)

WorkerStep(w) == ReceiveBlock(w) \/ ApplyBlock(w) \/ CollectWorker(w) \/ CommitWorker(w)

Next ==
    \/ MainLoop
    \/ \E w \in Workers : WorkerStep(w) \/ RequestFails(w)
    \/ \E w \in Workers, p \in Peers, legacy \in BOOLEAN : AnnounceBlock(w, p, legacy)
    \/ \E t \in Txs : AnnounceTx(t)
    \/ \E p \in Peers : PeerAdopts(p)
    \/ Crash \/ Restart

Spec == Init /\ [][Next]_vars

\* Threads run, and a request is answered or times out; a stopped node is
\* started again.
FairSpec == Spec /\ WF_vars(MainLoop) /\ \A w \in Workers : WF_vars(WorkerStep(w))
                 /\ WF_vars(Restart)

-----------------------------------------------------------------------------
\* Type invariant: in particular what is in memory and on disk is a valid chain,
\* side branches are bounded, and the sync permit is held exactly by the thread
\* that collects.
TypeOK ==
    /\ Valid(mem.chain) /\ Valid(disk.chain)
    /\ mem.epoch >= TipEpoch(mem.chain)
    /\ Len(mem.side) <= MAX_SIDE_BRANCHES
    /\ main.pc \in {"loop", "staged", "poll", "sync"}
    /\ \A w \in Workers : worker[w].pc \in {"idle", "block", "apply", "collect"}
    /\ permit = (main.pc = "sync" \/ \E w \in Workers : worker[w].pc # "idle" /\ ~worker[w].legacy)

\* On Mainnet what the node shows and serves is what is on its disk, whatever
\* order its threads commit in and whichever save fails.
MemoryIsDurable == TypeOK /\ (running => mem = disk)

\* Mainnet: the node leaves its chain only for one with more work.  Ties keep the
\* branch adopted first, a thread that worked on an old copy cannot undo what
\* another thread committed meanwhile, and neither can a crash or a failed save.
NoChangeWithoutWork ==
    [][mem'.chain # mem.chain => chainwork(mem'.chain) > chainwork(mem.chain)]_mem

\* Mainnet: a commit keeps every transaction admitted while it was prepared,
\* unless the new chain confirms it or spends its output.
AdmittedSurvivesCommit ==
    [][running /\ running' => \A t \in mem.mempool :
          t \in mem'.mempool \/ Coin[t] \in Spent(mem'.chain)]_mem

\* Mainnet and Devnet: however announcements, polls and mining interleave, the
\* node ends up with at least the work of every peer.
CatchesUp == \A p \in Peers : <>[](chainwork(mem.chain) >= chainwork(peer[p]))
=============================================================================
