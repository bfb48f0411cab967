------------------------------ MODULE RpcServer ------------------------------
(***************************************************************************)
(* The loopback RPC server (mutiny-node/src/rpc.rs): an acceptor, up to    *)
(* RPC_MAX_CONCURRENT_WORKERS worker threads with one request each, and    *)
(* the storage calls by which they load and save the data directory.       *)
(* There is no lock around the directory, so every file system call that   *)
(* another thread can observe is a step.  A test for existence and the     *)
(* read that follows it are one step, and so is a write of a temporary     *)
(* file with its sync.                                                     *)
(***************************************************************************)
EXTENDS Integers, FiniteSetsExt, SequencesExt

CONSTANTS
    Clients,                     \* client connections
    Request,                     \* what each client sends
    SpentCoin,                   \* the output a client's offline spend consumes
    RPC_MAX_CONCURRENT_WORKERS,  \* 16
    MaxRequests,                 \* --max-requests
    ConcurrentClients,           \* bound on calls in progress at once
    NoFile

RETAIN_GENERATIONS == 2
Gen == 1 .. (2 * Cardinality(Clients) + 1)

SnapshotFile == [gen : Nat, pool : SUBSET Clients]
MetaFile == [gen : Nat, sha : SnapshotFile]
JournalFile == [gen : Nat, previous : Nat, sha : SnapshotFile]

ASSUME ServerAssumption ==
    /\ IsFiniteSet(Clients) /\ MaxRequests \in Nat
    /\ NoFile \notin SnapshotFile \cup MetaFile \cup JournalFile

VARIABLES
    backlog,    \* connections the listener has not yet accepted, in order
    workers,    \* the join handles of the acceptor
    handled,    \* connections accepted, served or dropped
    answer,     \* what each client got
    thr,        \* the thread of each connection
    \* the data directory; a snapshot file stands for its own hash
    meta, journal, snaps, journal_tmp, meta_tmp, snap_tmp
directory == <<meta, journal, snaps, journal_tmp, meta_tmp, snap_tmp>>
serverVars == <<backlog, workers, handled, answer, thr, directory>>

Idle == [pc |-> "idle", task |-> "load", after |-> "loaded", j |-> NoFile, m |-> NoFile,
         pool |-> {}, recovered |-> FALSE]

ServerInit ==
    /\ backlog = <<>> /\ workers = {} /\ handled = 0
    /\ answer = [c \in Clients |-> "none"]
    /\ thr = [c \in Clients |-> Idle]
    /\ meta = [gen |-> 1, sha |-> [gen |-> 1, pool |-> {}]]
    /\ snaps = [g \in Gen |-> IF g = 1 THEN meta.sha ELSE NoFile]
    /\ journal = NoFile /\ journal_tmp = NoFile /\ meta_tmp = NoFile
    /\ snap_tmp = [g \in Gen |-> NoFile]

-----------------------------------------------------------------------------
(* Clients and the acceptor.                                               *)

Calling == {c \in Clients : c \in Range(backlog) \/ thr[c].pc \notin {"idle", "done"}}

\* rpc-call connects and writes its one line.
Connect(c) ==
    /\ thr[c].pc = "idle" /\ answer[c] = "none" /\ c \notin Range(backlog)
    /\ Cardinality(Calling) < ConcurrentClients
    /\ backlog' = Append(backlog, c)
    /\ UNCHANGED <<workers, handled, answer, thr, directory>>

reap_rpc_workers == {c \in workers : thr[c].pc # "done"}

\* serve_listener: reap, then spawn a worker or drop the stream at the limit.
Accept ==
    /\ backlog # <<>> /\ handled < MaxRequests
    /\ backlog' = Tail(backlog) /\ handled' = handled + 1
    /\ LET c == Head(backlog)
           full == Cardinality(reap_rpc_workers) >= RPC_MAX_CONCURRENT_WORKERS
       IN  /\ workers' = reap_rpc_workers \cup (IF full THEN {} ELSE {c})
           /\ answer' = IF full THEN [answer EXCEPT ![c] = "dropped"] ELSE answer
           /\ thr' = IF full THEN thr ELSE [thr EXCEPT ![c].pc = "read_line"]
    /\ UNCHANGED directory

\* After the last request the server joins its workers and exits; whoever is
\* still waiting to be accepted is refused.
Exit ==
    /\ handled >= MaxRequests /\ reap_rpc_workers = {}
    /\ backlog # <<>> /\ backlog' = <<>>
    /\ answer' = [c \in Clients |-> IF c \in Range(backlog) THEN "dropped" ELSE answer[c]]
    /\ UNCHANGED <<workers, handled, thr, directory>>

-----------------------------------------------------------------------------
(* A worker thread.                                                        *)

At(c, pc) == thr[c].pc = pc

Goto(c, pc) == thr' = [thr EXCEPT ![c].pc = pc]

write_response(c, a) ==
    /\ answer' = [answer EXCEPT ![c] = a]
    /\ Goto(c, "done")

Fail(c) == write_response(c, "error") /\ UNCHANGED directory

server == <<backlog, workers, handled>>

NeverLate(c) == FALSE

\* read_line_bounded under RPC_IO_TIMEOUT.
ReadTimeout(c) ==
    /\ At(c, "read_line") /\ Request[c].line = "stalled"
    /\ Fail(c)

\* parse_wire_token and constant_time_eq against the token file.
Authenticated(c) == Request[c].token

\* reject_secret_params: no key of the parameters names wallet secret material.
NoSecretParams(c) == ~Request[c].secret

\* handle_line: parse, authenticate, refuse secrets, dispatch; each refusal is
\* answered with an error.
handle_line(c) ==
    /\ At(c, "read_line") /\ Request[c].line # "stalled"
    /\ IF /\ Request[c].line # "bad" /\ Authenticated(c) /\ NoSecretParams(c)
          /\ Request[c].method # "other"
       THEN /\ thr' = [thr EXCEPT ![c] = [Idle EXCEPT !.pc = "recover"]]
            /\ UNCHANGED <<answer, directory>>
       ELSE Fail(c)

AfterRecovery(t) == IF t.task = "load" THEN "load_meta" ELSE "commit_meta"

\* recover, first half: is there a journal?
recover(c) ==
    /\ At(c, "recover")
    /\ thr' = [thr EXCEPT ![c] = [@ EXCEPT
                  !.j = journal,
                  !.pc = IF journal = NoFile THEN AfterRecovery(thr[c]) ELSE "recover_meta"]]
    /\ UNCHANGED <<answer, directory>>

\* recover, second half: finalize what meta already names, roll back what it
\* does not, refuse anything else.
recover_meta(c) ==
    /\ At(c, "recover_meta")
    /\ LET j == thr[c].j
           committed == meta.gen = j.gen /\ meta.sha = j.sha /\ snaps[meta.gen] = meta.sha
           prepared == meta.gen # j.gen /\ meta.gen = j.previous
       IN  \/ committed /\ Goto(c, "unlink_journal") /\ UNCHANGED <<answer, directory>>
           \/ /\ prepared /\ snaps[j.gen] = j.sha
              /\ Goto(c, "unlink_staged") /\ UNCHANGED <<answer, directory>>
           \/ /\ prepared /\ snaps[j.gen] = NoFile
              /\ Goto(c, "unlink_journal") /\ UNCHANGED <<answer, directory>>
           \/ /\ ~committed
              /\ prepared => snaps[j.gen] \notin {NoFile, j.sha}
              /\ Fail(c)

unlink_staged(c) ==
    /\ At(c, "unlink_staged")
    /\ snaps' = [snaps EXCEPT ![thr[c].j.gen] = NoFile]
    /\ Goto(c, "unlink_journal")
    /\ UNCHANGED <<answer, meta, journal, journal_tmp, meta_tmp, snap_tmp>>

unlink_journal(c) ==
    /\ At(c, "unlink_journal")
    /\ journal' = NoFile
    /\ thr' = [thr EXCEPT ![c] = [@ EXCEPT !.recovered = @ \/ thr[c].task = "load",
                                           !.pc = AfterRecovery(thr[c])]]
    /\ UNCHANGED <<answer, meta, snaps, journal_tmp, meta_tmp, snap_tmp>>

load_meta(c) ==
    /\ At(c, "load_meta")
    /\ thr' = [thr EXCEPT ![c] = [@ EXCEPT !.m = meta, !.pc = "load_snapshot"]]
    /\ UNCHANGED <<answer, directory>>

Saving(t, pool, after) ==
    [t EXCEPT !.pool = pool, !.task = "commit", !.after = after, !.pc = "recover"]

\* verify_snapshot_for_meta, and load_state's purge: a state read after a
\* recovery loses its mempool, and the purged state is saved.
load_snapshot(c) ==
    /\ At(c, "load_snapshot")
    /\ LET t == thr[c]  snapshot == snaps[t.m.gen]
       IN  IF snapshot # t.m.sha THEN Fail(c)
           ELSE /\ thr' = [thr EXCEPT ![c] =
                     IF t.recovered /\ snapshot.pool # {}
                     THEN Saving(t, {}, "loaded")
                     ELSE [t EXCEPT !.pool = snapshot.pool, !.pc = "loaded"]]
                /\ UNCHANGED <<answer, directory>>

\* submit_offline_spend and validate_pending_candidate against the loaded state.
AdmitsSpend(pool, c) == \A d \in pool : SpentCoin[d] # SpentCoin[c]

AcknowledgeEarly(c) ==
    /\ At(c, "loaded")
    /\ IF Request[c].method = "chain.status" THEN write_response(c, "status")
       ELSE IF AdmitsSpend(thr[c].pool, c) THEN write_response(c, "MEMPOOL")
       ELSE write_response(c, "error")
    /\ UNCHANGED directory

\* The reading methods answer; rpc_offline_submit checks the spend against the
\* loaded state, pushes it and saves.
execute(c) ==
    /\ At(c, "loaded")
    /\ IF Request[c].method = "chain.status"
       THEN write_response(c, "status")
       ELSE IF AdmitsSpend(thr[c].pool, c)
       THEN /\ thr' = [thr EXCEPT ![c] = Saving(@, @.pool \cup {c}, "saved")]
            /\ UNCHANGED answer
       ELSE write_response(c, "error")
    /\ UNCHANGED directory

-----------------------------------------------------------------------------
(* commit_snapshot.                                                        *)

commit_meta(c) ==
    /\ At(c, "commit_meta")
    /\ thr' = [thr EXCEPT ![c] = [@ EXCEPT !.m = meta, !.pc = "write_journal"]]
    /\ UNCHANGED <<answer, directory>>

Generation(c) == thr[c].m.gen + 1
Snapshot(c) == [gen |-> Generation(c), pool |-> thr[c].pool]

write_journal(c) ==
    /\ At(c, "write_journal")
    /\ journal_tmp' = [gen |-> Generation(c), previous |-> thr[c].m.gen, sha |-> Snapshot(c)]
    /\ Goto(c, "rename_journal")
    /\ UNCHANGED <<answer, meta, journal, snaps, meta_tmp, snap_tmp>>

\* The temporary files have fixed names: a rename publishes whatever the last
\* writer left there, and fails when another thread has renamed it already.
rename_journal(c) ==
    /\ At(c, "rename_journal")
    /\ IF journal_tmp = NoFile THEN Fail(c)
       ELSE /\ journal' = journal_tmp /\ journal_tmp' = NoFile
            /\ Goto(c, "write_snapshot")
            /\ UNCHANGED <<answer, meta, snaps, meta_tmp, snap_tmp>>

write_snapshot(c) ==
    /\ At(c, "write_snapshot")
    /\ snap_tmp' = [snap_tmp EXCEPT ![Generation(c)] = Snapshot(c)]
    /\ Goto(c, "rename_snapshot")
    /\ UNCHANGED <<answer, meta, journal, snaps, journal_tmp, meta_tmp>>

rename_snapshot(c) ==
    /\ At(c, "rename_snapshot")
    /\ LET g == Generation(c)
       IN  IF snap_tmp[g] = NoFile THEN Fail(c)
           ELSE /\ snaps' = [snaps EXCEPT ![g] = snap_tmp[g]]
                /\ snap_tmp' = [snap_tmp EXCEPT ![g] = NoFile]
                /\ Goto(c, "write_meta")
                /\ UNCHANGED <<answer, meta, journal, journal_tmp, meta_tmp>>

write_meta(c) ==
    /\ At(c, "write_meta")
    /\ meta_tmp' = [gen |-> Generation(c), sha |-> Snapshot(c)]
    /\ Goto(c, "rename_meta")
    /\ UNCHANGED <<answer, meta, journal, snaps, journal_tmp, snap_tmp>>

rename_meta(c) ==
    /\ At(c, "rename_meta")
    /\ IF meta_tmp = NoFile THEN Fail(c)
       ELSE /\ meta' = meta_tmp /\ meta_tmp' = NoFile
            /\ Goto(c, "finalize")
            /\ UNCHANGED <<answer, journal, snaps, journal_tmp, snap_tmp>>

finalize(c) ==
    /\ At(c, "finalize")
    /\ journal' = NoFile
    /\ Goto(c, "prune")
    /\ UNCHANGED <<answer, meta, snaps, journal_tmp, meta_tmp, snap_tmp>>

Retained(gens, current) ==
    {current} \cup {g \in gens : Cardinality({h \in gens : h > g}) < RETAIN_GENERATIONS}

\* prune_old_snapshots, after which the save returns to its caller: to the load
\* whose purge it was, or to the answer of offline.submit.
prune(c) ==
    /\ At(c, "prune")
    /\ snaps' = [g \in Gen |->
                    IF g \in Retained({h \in Gen : snaps[h] # NoFile}, Generation(c))
                    THEN snaps[g] ELSE NoFile]
    /\ IF thr[c].after = "loaded"
       THEN Goto(c, "loaded") /\ UNCHANGED answer
       ELSE write_response(c, "MEMPOOL")
    /\ UNCHANGED <<meta, journal, journal_tmp, meta_tmp, snap_tmp>>

Worker(c) ==
    /\ \/ ReadTimeout(c) \/ handle_line(c)
       \/ recover(c) \/ recover_meta(c) \/ unlink_staged(c) \/ unlink_journal(c)
       \/ load_meta(c) \/ load_snapshot(c) \/ execute(c)
       \/ commit_meta(c) \/ write_journal(c) \/ rename_journal(c)
       \/ write_snapshot(c) \/ rename_snapshot(c)
       \/ write_meta(c) \/ rename_meta(c) \/ finalize(c) \/ prune(c)
    /\ UNCHANGED server

ServerNext ==
    \/ \E c \in Clients : Connect(c) \/ Worker(c)
    \/ Accept \/ Exit

ServerSpec == ServerInit /\ [][ServerNext]_serverVars

\* Threads are scheduled, the acceptor is never stuck (no call of it waits for
\* a worker before the last request), and a stalled read times out.
FairServerSpec ==
    /\ ServerSpec
    /\ WF_serverVars(Accept) /\ WF_serverVars(Exit)
    /\ \A c \in Clients : WF_serverVars(Worker(c))

-----------------------------------------------------------------------------
\* Type invariant: in particular a snapshot file never holds a generation other
\* than the one in its name, whichever worker wrote it.
ServerTypeOK ==
    /\ Range(backlog) \subseteq Clients /\ workers \subseteq Clients
    /\ handled \in 0..Cardinality(Clients)
    /\ \A c \in Clients : answer[c] \in {"none", "status", "MEMPOOL", "error", "dropped"}
    /\ \A c \in Clients : thr[c].pool \subseteq Clients /\ thr[c].task \in {"load", "commit"}
    /\ meta.gen \in Gen
    /\ \A g \in Gen : snaps[g] # NoFile => snaps[g].gen = g /\ snaps[g].pool \subseteq Clients

\* The atomic storage commit: at every moment the meta file names a snapshot
\* that is there and hashes to what meta says, so that the next load, and a
\* restart, can read the state.
CommittedStateReadable == snaps[meta.gen] = meta.sha

\* A client that was told that its transaction is in the mempool can rely on
\* it: the committed state holds it, whatever requests came before and after.
AcknowledgedInMempool ==
    \A c \in Clients : answer[c] = "MEMPOOL" => c \in meta.sha.pool

\* Clients that are served one at a time can rely on the answer: the transaction
\* is in the committed state, and that state can be read.
AcknowledgedIsStored == ServerTypeOK /\ CommittedStateReadable /\ AcknowledgedInMempool

\* No head-of-line blocking and no stuck worker: whoever connects is answered or
\* turned away, even behind clients that never finish their line and among
\* threads that trip over each other's files.
EveryCallEnds == \A c \in Clients : c \in Range(backlog) ~> answer[c] # "none"
==============================================================================
