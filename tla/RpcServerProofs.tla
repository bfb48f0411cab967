-------------------------- MODULE RpcServerProofs ---------------------------
(***************************************************************************)
(* Proofs about RpcServer when its clients call one at a time, for every    *)
(* number of clients, every mixture of requests and every worker limit: a   *)
(* spend that was acknowledged is in the committed state from then on, and  *)
(* that state can be read.  (Calls that overlap break this: see the run     *)
(* rpc_commit_race.)                                                        *)
(***************************************************************************)
EXTENDS RpcServer, FiniteSetTheorems, TLAPS

-----------------------------------------------------------------------------
(* The inductive invariant.                                                 *)

\* Where a worker is while it takes part in the commit, before and after the
\* rename of the meta file, and with the journal published.
BeforeMeta == {"commit_meta", "write_journal", "rename_journal", "write_snapshot",
               "rename_snapshot", "write_meta", "rename_meta"}
AfterMeta == {"finalize", "prune"}
Journalled == {"write_snapshot", "rename_snapshot", "write_meta", "rename_meta", "finalize"}

\* No worker of a serial history meets a journal, so none is in recovery.
Pc == {"idle", "done", "read_line", "recover", "load_meta", "load_snapshot", "loaded"}
      \cup BeforeMeta \cup AfterMeta

Thread == [pc : Pc, task : {"load", "commit"}, after : {"loaded", "saved"}, j : {NoFile},
           m : MetaFile \cup {NoFile}, pool : SUBSET Clients, recovered : {FALSE}]

Answers == {"none", "status", "MEMPOOL", "error", "dropped"}

ServiceTypes ==
    /\ workers \in SUBSET Clients /\ handled \in Nat
    /\ answer \in [Clients -> Answers] /\ thr \in [Clients -> Thread]

DirectoryTypes ==
    /\ meta \in MetaFile /\ journal \in JournalFile \cup {NoFile}
    /\ journal_tmp \in JournalFile \cup {NoFile} /\ meta_tmp \in MetaFile \cup {NoFile}
    /\ snaps \in [Gen -> SnapshotFile \cup {NoFile}]
    /\ snap_tmp \in [Gen -> SnapshotFile \cup {NoFile}]
    /\ \A g \in Gen : snaps[g] # NoFile => snaps[g].gen = g

Active == {c \in Clients : thr[c].pc \notin {"idle", "done"}}

\* One call at a time: a client waits in the backlog, or one worker is at work.
Serial ==
    /\ \/ backlog = <<>>
       \/ \E c \in Clients : /\ backlog = <<c>> /\ thr[c].pc = "idle"
                             /\ answer[c] = "none" /\ Active = {}
    /\ \A c, d \in Active : c = d

\* Every client is accepted once and writes one generation at most.
Ended == {c \in Clients : thr[c].pc # "idle" \/ answer[c] # "none"}
Written == {c \in Clients : thr[c].pc \in AfterMeta \cup {"done"}}
Counts ==
    /\ handled <= Cardinality(Ended)
    /\ meta.gen \in 1 .. Cardinality(Written) + 1

\* What the worker of c has in mind, and what it has put on the disk so far.
Saves(c) == /\ thr[c].task = "commit" /\ thr[c].after = "saved"
            /\ thr[c].pool = meta.sha.pool \cup {c}

Progress(c) ==
    /\ thr[c].pc = "recover" => thr[c].task = "load" \/ Saves(c)
    /\ thr[c].pc \in {"load_meta", "load_snapshot", "loaded"} => thr[c].task = "load"
    /\ thr[c].pc = "load_snapshot" => thr[c].m = meta
    /\ thr[c].pc = "loaded" => thr[c].pool = meta.sha.pool
    /\ thr[c].pc \in BeforeMeta => Saves(c)
    /\ thr[c].pc \in BeforeMeta \ {"commit_meta"} => thr[c].m = meta
    /\ thr[c].pc = "rename_journal" => journal_tmp # NoFile
    /\ thr[c].pc = "rename_snapshot" => snap_tmp[Generation(c)] = Snapshot(c)
    /\ thr[c].pc \in {"write_meta", "rename_meta"} => snaps[Generation(c)] = Snapshot(c)
    /\ thr[c].pc = "rename_meta" => meta_tmp = [gen |-> Generation(c), sha |-> Snapshot(c)]
    /\ thr[c].pc \in AfterMeta =>
         /\ thr[c].after = "saved" /\ thr[c].m \in MetaFile
         /\ meta = [gen |-> Generation(c), sha |-> Snapshot(c)] /\ c \in thr[c].pool
    /\ thr[c].pc \notin Journalled => journal = NoFile

Files ==
    /\ CommittedStateReadable /\ AcknowledgedInMempool
    /\ Active = {} => journal = NoFile
    /\ \A c \in Active : Progress(c)

IInv == ServiceTypes /\ DirectoryTypes /\ Serial /\ Counts /\ Files

-----------------------------------------------------------------------------
(* Counting clients.                                                        *)

\* A set of clients is finite, and has at most as many members as a larger one.
LEMMA CountGrows ==
    ASSUME NEW T \in SUBSET Clients, NEW S \in SUBSET T
    PROVE  /\ Cardinality(S) \in Nat /\ Cardinality(T) \in Nat
           /\ Cardinality(S) <= Cardinality(T)
<1>1. IsFiniteSet(T)
    BY ServerAssumption, FS_Subset
<1> QED
    BY <1>1, FS_Subset, FS_CardinalityType

\* A client that joins a set of clients adds one to its size.
LEMMA CountAdds ==
    ASSUME NEW S \in SUBSET Clients, NEW c \in Clients \ S
    PROVE  /\ Cardinality(S) \in Nat
           /\ Cardinality(S \cup {c}) = Cardinality(S) + 1
<1>1. IsFiniteSet(S)
    BY ServerAssumption, FS_Subset
<1> QED
    BY <1>1, FS_AddElement, FS_CardinalityType

\* The generation that the worker of c is about to commit is one the model has
\* room for: the directory never grows past one generation for each client.
LEMMA RoomForGeneration ==
    ASSUME IInv
    PROVE  /\ meta.gen \in Gen
           /\ \A c \in Clients : thr[c].pc \notin AfterMeta \cup {"done"} => meta.gen + 1 \in Gen
<1> DEFINE N == Cardinality(Clients)
<1>1. /\ Cardinality(Written) <= N /\ N \in Nat /\ Cardinality(Written) \in Nat
    BY CountGrows, Written \in SUBSET Clients DEF Written
<1>2. meta.gen \in 1 .. Cardinality(Written) + 1
    BY DEF IInv, Counts
<1>3. ASSUME NEW c \in Clients, thr[c].pc \notin AfterMeta \cup {"done"}
      PROVE  meta.gen + 1 \in Gen
    <2>1. Written \in SUBSET Clients /\ c \in Clients \ Written
        BY <1>3 DEF Written
    <2>2. Cardinality(Written \cup {c}) = Cardinality(Written) + 1
        BY <2>1, CountAdds
    <2>3. Cardinality(Written \cup {c}) <= N
        BY <2>1, CountGrows, Written \cup {c} \in SUBSET Clients
    <2> QED
        BY <1>1, <1>2, <2>2, <2>3 DEF Gen
<1> QED
    BY <1>1, <1>2, <1>3 DEF Gen

-----------------------------------------------------------------------------
(* What every step of a worker has in common.                               *)

\* The worker of c moves to the local state t; acceptor and backlog stay.
Moves(c, t) ==
    /\ t \in Thread /\ t.pc # "idle"
    /\ thr' = [thr EXCEPT ![c] = t]
    /\ UNCHANGED server

\* A step that only advances the worker's place in the code is such a move.
LEMMA GotoMoves ==
    ASSUME NEW c \in Clients, thr \in [Clients -> Thread], NEW pc \in Pc \ {"idle"},
           Goto(c, pc), UNCHANGED server
    PROVE  Moves(c, [thr[c] EXCEPT !.pc = pc])
<1> DEFINE t == [thr[c] EXCEPT !.pc = pc]
<1>1. thr[c] \in Thread
    OBVIOUS
<1>2. t \in Thread /\ t.pc = pc
    BY Zenon, <1>1 DEF Thread
<1>3. thr' = [thr EXCEPT ![c] = t]
    BY DEF Goto
<1> QED
    BY <1>2, <1>3 DEF Moves

\* A step of the one worker keeps the calls serial and the count of clients.
LEMMA MoveKeepsSerial ==
    ASSUME IInv, NEW c \in Active, NEW t, Moves(c, t), answer' \in [Clients -> Answers],
           \A d \in Clients \ {c} : answer'[d] = answer[d]
    PROVE  /\ ServiceTypes' /\ Serial' /\ Active' \subseteq {c}
           /\ (t.pc # "done" => Active' = {c})
           /\ handled' <= Cardinality(Ended')
<1>1. c \in Clients /\ thr[c].pc \notin {"idle", "done"} /\ thr \in [Clients -> Thread]
    BY DEF Active, IInv, ServiceTypes
<1>2. thr'[c] = t /\ \A d \in Clients \ {c} : thr'[d] = thr[d]
    BY <1>1 DEF Moves
<1>3. ServiceTypes'
    BY <1>1 DEF IInv, ServiceTypes, Moves, server
<1>4. backlog = <<>> /\ Active = {c}
    BY DEF IInv, Serial
<1>5. Active' \subseteq {c} /\ (t.pc # "done" => Active' = {c})
    BY <1>1, <1>2, <1>4 DEF Active, Moves
<1>6. Serial'
    BY <1>4, <1>5 DEF Serial, Moves, server
<1>7. Ended' = Ended
    BY <1>1, <1>2 DEF Ended, Moves
<1>8. handled' <= Cardinality(Ended')
    BY <1>7 DEF IInv, Counts, Moves, server
<1> QED
    BY <1>3, <1>5, <1>6, <1>8

\* A step within a call that neither answers nor renames the meta file.
LEMMA Advance ==
    ASSUME IInv, NEW c \in Active, NEW t, Moves(c, t), t.pc # "done",
           thr[c].pc \in AfterMeta => t.pc \in AfterMeta,
           UNCHANGED <<answer, meta>>, DirectoryTypes', snaps'[meta.gen] = meta.sha, Progress(c)'
    PROVE  IInv'
<1>1. ServiceTypes' /\ Serial' /\ Active' = {c} /\ handled' <= Cardinality(Ended')
    BY MoveKeepsSerial DEF IInv, ServiceTypes
<1>2. c \in Clients /\ thr \in [Clients -> Thread] /\ thr[c].pc # "done"
    BY DEF Active, IInv, ServiceTypes
<1>3. Written \in SUBSET Written' /\ Written' \in SUBSET Clients
    BY <1>2 DEF Written, Moves
<1>4. Cardinality(Written) <= Cardinality(Written') /\ Cardinality(Written) \in Nat
      /\ Cardinality(Written') \in Nat
    BY <1>3, CountGrows
<1>5. Counts'
    BY <1>1, <1>4 DEF Counts, IInv
<1>6. Files'
    BY <1>1 DEF Files, IInv, CommittedStateReadable, AcknowledgedInMempool
<1> QED
    BY <1>1, <1>5, <1>6 DEF IInv

\* The answer that ends a call, with the files as they were or pruned.
LEMMA Respond ==
    ASSUME IInv, NEW c \in Active, NEW a \in Answers \ {"none"}, write_response(c, a),
           UNCHANGED server, thr[c].pc \notin Journalled,
           a = "MEMPOOL" => c \in meta.sha.pool,
           UNCHANGED <<meta, journal>>, DirectoryTypes', snaps'[meta.gen] = meta.sha
    PROVE  IInv'
<1> DEFINE t == [thr[c] EXCEPT !.pc = "done"]
<1>1. c \in Clients /\ thr \in [Clients -> Thread] /\ answer \in [Clients -> Answers]
    BY DEF Active, IInv, ServiceTypes
<1>2. Moves(c, t) /\ t.pc = "done"
    <2>1. Goto(c, "done") /\ "done" \in Pc \ {"idle"} /\ thr[c] \in Thread
        BY <1>1 DEF write_response, Pc
    <2>2. t.pc = "done"
        BY <2>1 DEF Thread
    <2> QED BY <1>1, <2>1, <2>2, GotoMoves
<1>3. answer' = [answer EXCEPT ![c] = a] /\ answer' \in [Clients -> Answers]
    BY <1>1 DEF write_response
<1>4. ServiceTypes' /\ Serial' /\ Active' \subseteq {c} /\ handled' <= Cardinality(Ended')
    <2> HIDE DEF t
    <2> QED BY <1>1, <1>2, <1>3, MoveKeepsSerial
<1>5. thr'[c].pc = "done" /\ Active' = {}
    BY <1>1, <1>2, <1>4 DEF Active, Moves
<1>6. Written \in SUBSET Written' /\ Written' \in SUBSET Clients
    BY <1>1, <1>2, <1>5 DEF Written, Moves
<1>7. Cardinality(Written) <= Cardinality(Written') /\ Cardinality(Written) \in Nat
      /\ Cardinality(Written') \in Nat
    BY <1>6, CountGrows
<1>8. Counts'
    BY <1>4, <1>7 DEF Counts, IInv
<1>9. journal = NoFile
    BY DEF IInv, Files, Progress
<1>10. Files'
    BY <1>1, <1>3, <1>5, <1>9 DEF Files, IInv, CommittedStateReadable, AcknowledgedInMempool
<1> QED
    BY Zenon, <1>4, <1>8, <1>10 DEF IInv

\* Outside the commit a failure leaves the files alone and ends the call.
LEMMA FailKeeps ==
    ASSUME IInv, NEW c \in Active, Fail(c), UNCHANGED server, thr[c].pc \notin Journalled
    PROVE  IInv'
<1>1. UNCHANGED directory /\ write_response(c, "error")
    BY DEF Fail
<1>2. DirectoryTypes' /\ snaps'[meta.gen] = meta.sha
    BY <1>1 DEF directory, IInv, DirectoryTypes, Files, CommittedStateReadable
<1> QED
    BY <1>1, <1>2, Respond DEF Answers, directory

-----------------------------------------------------------------------------
(* One lemma for each kind of step of a worker: reading and loading.        *)

\* A worker that is at some place of the code is active, and what the invariant
\* says of it holds.
LEMMA AtPlace ==
    ASSUME IInv, NEW c \in Clients, thr[c].pc \notin {"idle", "done"}
    PROVE  /\ c \in Active /\ Progress(c) /\ thr \in [Clients -> Thread] /\ thr[c] \in Thread
           /\ meta \in MetaFile /\ snaps[meta.gen] = meta.sha /\ DirectoryTypes
BY DEF IInv, Active, Files, ServiceTypes, DirectoryTypes, CommittedStateReadable

\* A step that leaves the directory alone keeps its types and what meta names.
LEMMA DirectoryStays ==
    ASSUME IInv, UNCHANGED directory
    PROVE  /\ DirectoryTypes' /\ snaps'[meta.gen] = meta.sha
           /\ UNCHANGED <<meta, journal, snaps, journal_tmp, meta_tmp, snap_tmp>>
BY DEF IInv, DirectoryTypes, Files, CommittedStateReadable, directory

\* handle_line and the read timeout keep the invariant.
LEMMA ReadKeeps ==
    ASSUME IInv, NEW c \in Clients, ReadTimeout(c) \/ handle_line(c), UNCHANGED server
    PROVE  IInv'
<1>1. thr[c].pc = "read_line"
    BY DEF ReadTimeout, handle_line, At
<1>2. c \in Active /\ Progress(c) /\ thr \in [Clients -> Thread]
    BY <1>1, AtPlace
<1>3. CASE Fail(c)
    BY Zenon, <1>1, <1>2, <1>3, FailKeeps DEF Journalled
<1>4. CASE ~Fail(c)
    <2> DEFINE t == [Idle EXCEPT !.pc = "recover"]
    <2>1. thr' = [thr EXCEPT ![c] = t] /\ UNCHANGED <<answer, directory>>
        BY <1>4 DEF ReadTimeout, handle_line
    <2>2. t \in Thread /\ t.pc = "recover" /\ t.task = "load"
        BY Zenon DEF Idle, Thread, Pc
    <2>3. Moves(c, t)
        BY <2>1, <2>2 DEF Moves
    <2>4. thr'[c] = t
        BY <1>2, <2>1
    <2>5. journal = NoFile
        BY <1>1, <1>2 DEF Progress, Journalled
    <2>6. Progress(c)'
        BY Zenon, <2>1, <2>2, <2>4, <2>5 DEF Progress, BeforeMeta, AfterMeta, Journalled, directory
    <2>7. DirectoryTypes' /\ snaps'[meta.gen] = meta.sha /\ UNCHANGED <<answer, meta>>
        BY <2>1, DirectoryStays
    <2> HIDE DEF t
    <2> QED
        BY <1>1, <1>2, <2>2, <2>3, <2>6, <2>7, Advance DEF AfterMeta
<1> QED
    BY <1>3, <1>4

\* recover: a worker of a serial history finds no journal and passes on.
LEMMA RecoverKeeps ==
    ASSUME IInv, NEW c \in Clients, recover(c), UNCHANGED server
    PROVE  IInv'
<1>1. thr[c].pc = "recover" /\ UNCHANGED <<answer, directory>>
    BY DEF recover, At
<1>2. c \in Active /\ Progress(c) /\ thr \in [Clients -> Thread] /\ thr[c] \in Thread
    BY <1>1, AtPlace
<1>3. journal = NoFile
    BY <1>1, <1>2 DEF Progress, Journalled
<1> DEFINE t == [thr[c] EXCEPT !.j = NoFile, !.pc = AfterRecovery(thr[c])]
<1>4. thr' = [thr EXCEPT ![c] = t]
    BY <1>3 DEF recover
<1>5. /\ t \in Thread /\ t.task = thr[c].task /\ t.after = thr[c].after /\ t.pool = thr[c].pool
      /\ t.pc \in {"load_meta", "commit_meta"} /\ (t.pc = "load_meta" <=> t.task = "load")
    BY Zenon, <1>2 DEF Thread, AfterRecovery, Pc, BeforeMeta
<1>6. Moves(c, t) /\ thr'[c] = t
    BY <1>2, <1>4, <1>5 DEF Moves
<1>7. DirectoryTypes' /\ snaps'[meta.gen] = meta.sha /\ UNCHANGED <<answer, meta, journal>>
    BY <1>1, DirectoryStays
<1> HIDE DEF t
<1>8. Progress(c)'
    BY <1>1, <1>2, <1>3, <1>5, <1>6, <1>7
       DEF Progress, Saves, BeforeMeta, AfterMeta, Journalled
<1> QED
    BY <1>1, <1>2, <1>5, <1>6, <1>7, <1>8, Advance DEF AfterMeta

\* load_meta and commit_meta: the worker holds the meta file as it is.
LEMMA ReadMetaKeeps ==
    ASSUME IInv, NEW c \in Clients, load_meta(c) \/ commit_meta(c), UNCHANGED server
    PROVE  IInv'
<1> DEFINE pc == IF load_meta(c) THEN "load_snapshot" ELSE "write_journal"
           t == [thr[c] EXCEPT !.m = meta, !.pc = pc]
<1>1. /\ thr[c].pc = (IF load_meta(c) THEN "load_meta" ELSE "commit_meta")
      /\ thr' = [thr EXCEPT ![c] = t] /\ UNCHANGED <<answer, directory>>
    BY Zenon DEF load_meta, commit_meta, At
<1>2. c \in Active /\ Progress(c) /\ thr \in [Clients -> Thread] /\ thr[c] \in Thread
      /\ meta \in MetaFile
    BY <1>1, AtPlace
<1>3. /\ t \in Thread /\ t.task = thr[c].task /\ t.after = thr[c].after /\ t.pool = thr[c].pool
      /\ t.m = meta /\ t.pc = pc
    BY Zenon, <1>2 DEF Thread, Pc, BeforeMeta
<1>4. Moves(c, t) /\ thr'[c] = t
    BY <1>1, <1>2, <1>3 DEF Moves
<1>5. DirectoryTypes' /\ snaps'[meta.gen] = meta.sha /\ UNCHANGED <<answer, meta, journal>>
    BY Zenon, <1>1, DirectoryStays
<1> HIDE DEF t
<1>6. Progress(c)'
    BY Zenon, <1>1, <1>2, <1>3, <1>4, <1>5
       DEF Progress, Saves, BeforeMeta, AfterMeta, Journalled
<1> QED
    BY <1>1, <1>2, <1>3, <1>4, <1>5, <1>6, Advance DEF AfterMeta

\* load_snapshot: the snapshot that meta names is there, so the load succeeds.
LEMMA LoadSnapshotKeeps ==
    ASSUME IInv, NEW c \in Clients, load_snapshot(c), UNCHANGED server
    PROVE  IInv'
<1>1. thr[c].pc = "load_snapshot"
    BY DEF load_snapshot, At
<1>2. c \in Active /\ Progress(c) /\ thr \in [Clients -> Thread] /\ thr[c] \in Thread
      /\ meta \in MetaFile /\ snaps[meta.gen] = meta.sha
    BY <1>1, AtPlace
<1>3. thr[c].m = meta /\ thr[c].task = "load" /\ journal = NoFile /\ ~thr[c].recovered
    BY Zenon, <1>1, <1>2 DEF Progress, Journalled, Thread
<1> DEFINE t == [thr[c] EXCEPT !.pool = meta.sha.pool, !.pc = "loaded"]
<1>4. thr' = [thr EXCEPT ![c] = t] /\ UNCHANGED <<answer, directory>>
    BY Zenon, <1>2, <1>3 DEF load_snapshot
<1>5. t \in Thread /\ t.task = "load" /\ t.pool = meta.sha.pool /\ t.pc = "loaded"
    BY Zenon, <1>2, <1>3 DEF Thread, Pc, MetaFile, SnapshotFile
<1>6. Moves(c, t) /\ thr'[c] = t
    BY <1>2, <1>4, <1>5 DEF Moves
<1>7. DirectoryTypes' /\ snaps'[meta.gen] = meta.sha /\ UNCHANGED <<answer, meta, journal>>
    BY <1>4, DirectoryStays
<1> HIDE DEF t
<1>8. Progress(c)'
    BY <1>3, <1>5, <1>6, <1>7 DEF Progress, Saves, BeforeMeta, AfterMeta, Journalled
<1> QED
    BY Zenon, <1>1, <1>2, <1>5, <1>6, <1>7, <1>8, Advance DEF AfterMeta

\* execute: an answer from the loaded state, or the save of the extended mempool.
LEMMA ExecuteKeeps ==
    ASSUME IInv, NEW c \in Clients, execute(c), UNCHANGED server
    PROVE  IInv'
<1>1. thr[c].pc = "loaded" /\ UNCHANGED directory
    BY DEF execute, At
<1>2. c \in Active /\ Progress(c) /\ thr \in [Clients -> Thread] /\ thr[c] \in Thread
    BY Zenon, <1>1, AtPlace
<1>3. thr[c].pool = meta.sha.pool /\ journal = NoFile
    BY <1>1, <1>2 DEF Progress, Journalled
<1>4. DirectoryTypes' /\ snaps'[meta.gen] = meta.sha /\ UNCHANGED <<meta, journal>>
    BY Zenon, <1>1, DirectoryStays
<1>5. CASE \E a \in {"status", "error"} : write_response(c, a)
    <2>1. PICK a \in {"status", "error"} : write_response(c, a)
        BY <1>5
    <2>2. a \in Answers \ {"none"} /\ a # "MEMPOOL"
        BY DEF Answers
    <2>3. thr[c].pc \notin Journalled
        BY <1>1 DEF Journalled
    <2> QED
        BY Zenon, <1>2, <1>4, <2>1, <2>2, <2>3, Respond
<1>6. CASE ~\E a \in {"status", "error"} : write_response(c, a)
    <2> DEFINE t == Saving(thr[c], thr[c].pool \cup {c}, "saved")
    <2>1. thr' = [thr EXCEPT ![c] = t] /\ UNCHANGED answer
        BY <1>6 DEF execute
    <2>2. /\ t \in Thread /\ t.task = "commit" /\ t.after = "saved" /\ t.pc = "recover"
          /\ t.pool = meta.sha.pool \cup {c}
        BY Zenon, <1>2, <1>3 DEF Thread, Pc, Saving
    <2>3. Moves(c, t) /\ thr'[c] = t
        BY <1>2, <2>1, <2>2 DEF Moves
    <2> HIDE DEF t
    <2>4. Progress(c)'
        BY <1>3, <1>4, <2>2, <2>3 DEF Progress, Saves, BeforeMeta, AfterMeta, Journalled
    <2> QED
        BY Zenon, <1>1, <1>2, <1>4, <2>1, <2>2, <2>3, <2>4, Advance DEF AfterMeta
<1> QED
    BY <1>5, <1>6

-----------------------------------------------------------------------------
(* commit_snapshot.                                                         *)

\* A worker in the commit holds the current meta file: it is about to write the
\* generation after the one that meta names.
LEMMA InCommit ==
    ASSUME IInv, NEW c \in Clients, thr[c].pc \in BeforeMeta \ {"commit_meta"}
    PROVE  /\ c \in Active /\ Progress(c) /\ DirectoryTypes /\ snaps[meta.gen] = meta.sha
           /\ thr \in [Clients -> Thread] /\ thr[c] \in Thread /\ meta \in MetaFile
           /\ Saves(c) /\ thr[c].m = meta /\ thr[c].pc \notin AfterMeta
           /\ meta.gen \in Gen /\ Generation(c) \in Gen /\ Generation(c) = meta.gen + 1
           /\ Snapshot(c) \in SnapshotFile /\ Snapshot(c).gen = Generation(c)
<1>1. thr[c].pc \notin {"idle", "done"} /\ thr[c].pc \notin AfterMeta
    BY DEF BeforeMeta, AfterMeta
<1>2. /\ c \in Active /\ Progress(c) /\ DirectoryTypes /\ snaps[meta.gen] = meta.sha
      /\ thr \in [Clients -> Thread] /\ thr[c] \in Thread /\ meta \in MetaFile
    BY <1>1, AtPlace
<1>3. Saves(c) /\ thr[c].m = meta
    BY <1>2 DEF Progress
<1>4. meta.gen \in Gen /\ meta.gen + 1 \in Gen
    BY <1>1, RoomForGeneration
<1>5. Generation(c) = meta.gen + 1 /\ meta.gen + 1 \in Nat
    BY <1>2, <1>3 DEF Generation, MetaFile
<1>6. Snapshot(c) \in SnapshotFile /\ Snapshot(c).gen = Generation(c)
    BY Zenon, <1>2, <1>5 DEF Snapshot, SnapshotFile, Thread
<1> QED
    BY Zenon, <1>1, <1>2, <1>3, <1>4, <1>5, <1>6

\* What a worker carries with it as it advances in the code.
LEMMA GotoCarries ==
    ASSUME NEW c \in Clients, thr \in [Clients -> Thread], NEW pc, Goto(c, pc)
    PROVE  /\ thr'[c].pc = pc /\ thr'[c].m = thr[c].m /\ thr'[c].pool = thr[c].pool
           /\ thr'[c].task = thr[c].task /\ thr'[c].after = thr[c].after
           /\ Generation(c)' = Generation(c) /\ Snapshot(c)' = Snapshot(c)
<1>1. thr[c] \in Thread /\ thr'[c] = [thr[c] EXCEPT !.pc = pc]
    BY DEF Goto
<1>2. /\ thr'[c].pc = pc /\ thr'[c].m = thr[c].m /\ thr'[c].pool = thr[c].pool
      /\ thr'[c].task = thr[c].task /\ thr'[c].after = thr[c].after
    BY Zenon, <1>1 DEF Thread
<1> QED
    BY <1>2 DEF Generation, Snapshot

\* A step of the commit that leaves meta alone and moves on in the code.
LEMMA CommitStep ==
    ASSUME IInv, NEW c \in Clients, thr[c].pc \in (BeforeMeta \ {"commit_meta"}) \cup {"finalize"},
           NEW pc \in Pc \ {"idle", "done"}, thr[c].pc = "finalize" => pc \in AfterMeta,
           Goto(c, pc), UNCHANGED server, UNCHANGED <<answer, meta>>,
           DirectoryTypes', snaps'[meta.gen] = meta.sha, Progress(c)'
    PROVE  IInv'
<1> DEFINE t == [thr[c] EXCEPT !.pc = pc]
<1>1. thr[c].pc \notin {"idle", "done"} /\ (thr[c].pc \in AfterMeta => pc \in AfterMeta)
    BY DEF BeforeMeta, AfterMeta
<1>2. c \in Active /\ thr \in [Clients -> Thread] /\ thr[c] \in Thread
    BY <1>1, AtPlace
<1>3. Moves(c, t)
    BY <1>2, GotoMoves
<1>4. t.pc = pc
    BY <1>2 DEF Thread
<1> HIDE DEF t
<1> QED
    BY Zenon, <1>1, <1>2, <1>3, <1>4, Advance

\* write_journal and rename_journal publish a journal while meta stays.
LEMMA JournalKeeps ==
    ASSUME IInv, NEW c \in Clients, write_journal(c) \/ rename_journal(c), UNCHANGED server
    PROVE  IInv'
<1>1. thr[c].pc \in BeforeMeta \ {"commit_meta"}
    BY DEF write_journal, rename_journal, At, BeforeMeta
<1>2. /\ c \in Active /\ Progress(c) /\ DirectoryTypes /\ snaps[meta.gen] = meta.sha
      /\ thr \in [Clients -> Thread] /\ meta \in MetaFile /\ Saves(c) /\ thr[c].m = meta
      /\ Generation(c) \in Gen /\ Generation(c) = meta.gen + 1 /\ Snapshot(c) \in SnapshotFile
    BY Zenon, <1>1, InCommit
<1>3. CASE write_journal(c)
    <2>1. Goto(c, "rename_journal") /\ thr[c].pc = "write_journal"
        BY <1>3 DEF write_journal, At
    <2>2. journal_tmp' \in JournalFile /\ journal_tmp' # NoFile
        BY <1>2, <1>3, ServerAssumption DEF write_journal, JournalFile, MetaFile
    <2>3. DirectoryTypes' /\ snaps'[meta.gen] = meta.sha
        BY Zenon, <1>2, <1>3, <2>2 DEF DirectoryTypes, write_journal
    <2>4. Progress(c)'
        <3>1. /\ thr'[c].pc = "rename_journal" /\ thr'[c].m = thr[c].m
              /\ thr'[c].pool = thr[c].pool /\ thr'[c].task = thr[c].task
              /\ thr'[c].after = thr[c].after
            BY Zenon, <1>2, <2>1, GotoCarries
        <3> QED
            BY Zenon, <1>2, <1>3, <2>1, <2>2, <3>1
               DEF Progress, Saves, BeforeMeta, AfterMeta, Journalled, write_journal
    <2> QED
        BY Zenon, <1>1, <1>3, <2>1, <2>3, <2>4, CommitStep DEF write_journal, Pc, BeforeMeta
<1>4. CASE rename_journal(c)
    <2>1. thr[c].pc = "rename_journal" /\ journal_tmp # NoFile
        BY Zenon, <1>2, <1>4 DEF rename_journal, At, Progress
    <2>2. /\ Goto(c, "write_snapshot") /\ journal' = journal_tmp /\ journal_tmp' = NoFile
          /\ UNCHANGED <<answer, meta, snaps, meta_tmp, snap_tmp>>
        BY Zenon, <1>4, <2>1 DEF rename_journal
    <2>3. DirectoryTypes' /\ snaps'[meta.gen] = meta.sha
        BY Zenon, <1>2, <2>2 DEF DirectoryTypes
    <2>4. Progress(c)'
        <3>1. /\ thr'[c].pc = "write_snapshot" /\ thr'[c].m = thr[c].m
              /\ thr'[c].pool = thr[c].pool /\ thr'[c].task = thr[c].task
              /\ thr'[c].after = thr[c].after
            BY Zenon, <1>2, <2>2, GotoCarries
        <3> QED
            BY Zenon, <1>2, <2>2, <3>1 DEF Progress, Saves, BeforeMeta, AfterMeta, Journalled
    <2> QED
        BY Zenon, <1>1, <2>1, <2>2, <2>3, <2>4, CommitStep DEF Pc, BeforeMeta
<1> QED
    BY Zenon, <1>3, <1>4

\* write_snapshot and rename_snapshot publish the next generation beside the
\* one that meta names.
LEMMA SnapshotKeeps ==
    ASSUME IInv, NEW c \in Clients, write_snapshot(c) \/ rename_snapshot(c), UNCHANGED server
    PROVE  IInv'
<1> DEFINE g == Generation(c)
<1>1. thr[c].pc \in BeforeMeta \ {"commit_meta"}
    BY Zenon DEF write_snapshot, rename_snapshot, At, BeforeMeta
<1>2. /\ c \in Active /\ Progress(c) /\ DirectoryTypes /\ snaps[meta.gen] = meta.sha
      /\ thr \in [Clients -> Thread] /\ meta \in MetaFile /\ Saves(c) /\ thr[c].m = meta
      /\ meta.gen \in Gen /\ g \in Gen /\ g = meta.gen + 1
      /\ Snapshot(c) \in SnapshotFile /\ Snapshot(c).gen = g
    BY Zenon, <1>1, InCommit
<1>3. CASE write_snapshot(c)
    <2>1. /\ thr[c].pc = "write_snapshot" /\ Goto(c, "rename_snapshot")
          /\ snap_tmp' = [snap_tmp EXCEPT ![g] = Snapshot(c)]
          /\ UNCHANGED <<answer, meta, journal, snaps, journal_tmp, meta_tmp>>
        BY Zenon, <1>3 DEF write_snapshot, At
    <2>2. DirectoryTypes' /\ snaps'[meta.gen] = meta.sha /\ snap_tmp'[g] = Snapshot(c)
        BY Zenon, <1>2, <2>1 DEF DirectoryTypes
    <2>3. /\ thr'[c].pc = "rename_snapshot" /\ thr'[c].m = thr[c].m
          /\ thr'[c].pool = thr[c].pool /\ thr'[c].task = thr[c].task
          /\ thr'[c].after = thr[c].after
          /\ Generation(c)' = g /\ Snapshot(c)' = Snapshot(c)
        BY Zenon, <1>2, <2>1, GotoCarries
    <2> HIDE DEF g
    <2>4. Progress(c)'
        BY Zenon, <1>2, <2>1, <2>2, <2>3 DEF Progress, Saves, BeforeMeta, AfterMeta, Journalled
    <2> QED
        BY Zenon, <1>1, <2>1, <2>2, <2>4, CommitStep DEF Pc, BeforeMeta
<1>4. CASE rename_snapshot(c)
    <2>1. thr[c].pc = "rename_snapshot" /\ snap_tmp[g] = Snapshot(c)
        BY Zenon, <1>2, <1>4 DEF rename_snapshot, At, Progress
    <2>2. snap_tmp[g] # NoFile
        BY Zenon, <1>2, <2>1, ServerAssumption
    <2>3. /\ Goto(c, "write_meta") /\ snaps' = [snaps EXCEPT ![g] = Snapshot(c)]
          /\ snap_tmp' = [snap_tmp EXCEPT ![g] = NoFile]
          /\ UNCHANGED <<answer, meta, journal, journal_tmp, meta_tmp>>
        BY Zenon, <1>4, <2>1, <2>2 DEF rename_snapshot
    <2>4. /\ snaps' \in [Gen -> SnapshotFile \cup {NoFile}] /\ snaps'[g] = Snapshot(c)
          /\ \A h \in Gen \ {g} : snaps'[h] = snaps[h]
        BY Zenon, <1>2, <2>3 DEF DirectoryTypes
    <2>5. meta.gen # g
        BY <1>2 DEF MetaFile
    <2>6. DirectoryTypes' /\ snaps'[meta.gen] = meta.sha
        BY Zenon, <1>2, <2>3, <2>4, <2>5 DEF DirectoryTypes
    <2>7. /\ thr'[c].pc = "write_meta" /\ thr'[c].m = thr[c].m
          /\ thr'[c].pool = thr[c].pool /\ thr'[c].task = thr[c].task
          /\ thr'[c].after = thr[c].after
          /\ Generation(c)' = g /\ Snapshot(c)' = Snapshot(c)
        BY Zenon, <1>2, <2>3, GotoCarries
    <2> HIDE DEF g
    <2>8. Progress(c)'
        BY Zenon, <1>2, <2>3, <2>4, <2>7 DEF Progress, Saves, BeforeMeta, AfterMeta, Journalled
    <2> QED
        BY Zenon, <1>1, <2>1, <2>3, <2>6, <2>8, CommitStep DEF Pc, BeforeMeta
<1> QED
    BY <1>3, <1>4

\* write_meta prepares the meta file of the snapshot just published.
LEMMA WriteMetaKeeps ==
    ASSUME IInv, NEW c \in Clients, write_meta(c), UNCHANGED server
    PROVE  IInv'
<1>1. thr[c].pc \in BeforeMeta \ {"commit_meta"} /\ thr[c].pc = "write_meta"
    BY Zenon DEF write_meta, At, BeforeMeta
<1>2. /\ Progress(c) /\ DirectoryTypes /\ snaps[meta.gen] = meta.sha
      /\ thr \in [Clients -> Thread] /\ meta \in MetaFile /\ Saves(c) /\ thr[c].m = meta
      /\ Generation(c) = meta.gen + 1 /\ Snapshot(c) \in SnapshotFile
    BY <1>1, InCommit
<1>3. /\ Goto(c, "rename_meta") /\ meta_tmp' = [gen |-> Generation(c), sha |-> Snapshot(c)]
      /\ UNCHANGED <<answer, meta, journal, snaps, journal_tmp, snap_tmp>>
    BY DEF write_meta
<1>4. meta_tmp' \in MetaFile
    BY <1>2, <1>3 DEF MetaFile
<1>5. DirectoryTypes' /\ snaps'[meta.gen] = meta.sha
    BY Zenon, <1>2, <1>3, <1>4 DEF DirectoryTypes
<1>6. /\ thr'[c].pc = "rename_meta" /\ thr'[c].m = thr[c].m
      /\ thr'[c].pool = thr[c].pool /\ thr'[c].task = thr[c].task
      /\ thr'[c].after = thr[c].after
      /\ Generation(c)' = Generation(c) /\ Snapshot(c)' = Snapshot(c)
    BY Zenon, <1>2, <1>3, GotoCarries
<1>7. Progress(c)'
    BY Zenon, <1>1, <1>2, <1>3, <1>6 DEF Progress, Saves, BeforeMeta, AfterMeta, Journalled
<1> QED
    BY Zenon, <1>1, <1>3, <1>5, <1>7, CommitStep DEF Pc, BeforeMeta

\* rename_meta is the commit point: the new meta file names the snapshot that
\* was published before it, and that snapshot has every transaction that any
\* client was promised.
LEMMA RenameMetaKeeps ==
    ASSUME IInv, NEW c \in Clients, rename_meta(c), UNCHANGED server
    PROVE  IInv'
<1> DEFINE t == [thr[c] EXCEPT !.pc = "finalize"]
<1>1. thr[c].pc \in BeforeMeta \ {"commit_meta"} /\ thr[c].pc = "rename_meta"
    BY Zenon DEF rename_meta, At, BeforeMeta
<1>2. /\ c \in Active /\ Progress(c) /\ DirectoryTypes /\ thr[c] \in Thread
      /\ thr \in [Clients -> Thread] /\ meta \in MetaFile /\ Saves(c) /\ thr[c].m = meta
      /\ Generation(c) \in Gen /\ Generation(c) = meta.gen + 1
      /\ Snapshot(c) \in SnapshotFile /\ thr[c].pc \notin AfterMeta
    BY Zenon, <1>1, InCommit
<1>3. /\ meta_tmp = [gen |-> Generation(c), sha |-> Snapshot(c)]
      /\ snaps[Generation(c)] = Snapshot(c)
    BY <1>1, <1>2 DEF Progress
<1>4. meta_tmp \in MetaFile /\ meta_tmp # NoFile
    BY <1>2, <1>3, ServerAssumption DEF MetaFile
<1>5. /\ Goto(c, "finalize") /\ meta' = meta_tmp /\ meta_tmp' = NoFile
      /\ UNCHANGED <<answer, journal, snaps, journal_tmp, snap_tmp>>
    BY Zenon, <1>4 DEF rename_meta
<1>6. DirectoryTypes'
    BY Zenon, <1>2, <1>4, <1>5 DEF DirectoryTypes
<1>7. /\ thr'[c].pc = "finalize" /\ thr'[c].m = thr[c].m
      /\ thr'[c].pool = thr[c].pool /\ thr'[c].after = thr[c].after
      /\ Generation(c)' = Generation(c) /\ Snapshot(c)' = Snapshot(c)
    BY Zenon, <1>2, <1>5, GotoCarries
<1>8. Moves(c, t) /\ t.pc = "finalize"
    BY Zenon, <1>2, <1>5, GotoMoves DEF Pc, AfterMeta, Thread
<1>9. ServiceTypes' /\ Serial' /\ Active' = {c} /\ handled' <= Cardinality(Ended')
    <2>1. answer' \in [Clients -> Answers] /\ \A d \in Clients \ {c} : answer'[d] = answer[d]
        BY <1>5 DEF IInv, ServiceTypes
    <2> HIDE DEF t
    <2> QED BY <1>2, <1>8, <2>1, MoveKeepsSerial
<1>10. Counts'
    <2>1. Written \in SUBSET Clients /\ c \in Clients \ Written
        BY Zenon, <1>1, <1>2 DEF Written
    <2>2. \A d \in Clients \ {c} : thr'[d] = thr[d]
        BY Zenon, <1>2, <1>5 DEF Goto
    <2>3. Written' = Written \cup {c}
        BY Zenon, <1>7, <2>1, <2>2 DEF Written, AfterMeta
    <2>4. Cardinality(Written) \in Nat /\ Cardinality(Written') = Cardinality(Written) + 1
        BY Zenon, <2>1, <2>3, CountAdds
    <2>5. meta.gen \in 1 .. Cardinality(Written) + 1 /\ meta'.gen = meta.gen + 1
        BY Zenon, <1>2, <1>3, <1>5 DEF IInv, Counts
    <2> QED
        BY <1>9, <2>4, <2>5 DEF Counts
<1>11. meta'.sha = Snapshot(c) /\ meta'.gen = Generation(c) /\ meta'.sha.pool = meta.sha.pool \cup {c}
    BY Zenon, <1>2, <1>3, <1>5 DEF Snapshot, Saves
<1>12. CommittedStateReadable' /\ AcknowledgedInMempool'
    BY Zenon, <1>3, <1>5, <1>11 DEF IInv, Files, CommittedStateReadable, AcknowledgedInMempool
<1>13. c \in thr[c].pool /\ thr[c].after = "saved"
    BY Zenon, <1>2 DEF Saves
<1>14. Progress(c)'
    BY Zenon, <1>2, <1>3, <1>5, <1>7, <1>13 DEF Progress, BeforeMeta, AfterMeta, Journalled
<1>15. Files'
    BY Zenon, <1>9, <1>12, <1>14 DEF Files
<1> QED
    BY Zenon, <1>6, <1>9, <1>10, <1>15 DEF IInv

\* finalize removes the journal of the commit that is now in meta.
LEMMA FinalizeKeeps ==
    ASSUME IInv, NEW c \in Clients, finalize(c), UNCHANGED server
    PROVE  IInv'
<1>1. /\ thr[c].pc = "finalize" /\ Goto(c, "prune") /\ journal' = NoFile
      /\ UNCHANGED <<answer, meta, snaps, journal_tmp, meta_tmp, snap_tmp>>
    BY DEF finalize, At
<1>2. /\ Progress(c) /\ DirectoryTypes /\ snaps[meta.gen] = meta.sha
      /\ thr \in [Clients -> Thread]
    BY Zenon, <1>1, AtPlace
<1>3. DirectoryTypes' /\ snaps'[meta.gen] = meta.sha
    BY Zenon, <1>1, <1>2 DEF DirectoryTypes
<1>4. /\ thr'[c].pc = "prune" /\ thr'[c].m = thr[c].m
      /\ thr'[c].pool = thr[c].pool /\ thr'[c].after = thr[c].after
      /\ Generation(c)' = Generation(c) /\ Snapshot(c)' = Snapshot(c)
    BY Zenon, <1>1, <1>2, GotoCarries
<1>5. Progress(c)'
    BY Zenon, <1>1, <1>2, <1>4 DEF Progress, BeforeMeta, AfterMeta, Journalled
<1> QED
    BY Zenon, <1>1, <1>3, <1>5, CommitStep DEF Pc, AfterMeta

\* prune keeps the generation that meta names, and the client is answered.
LEMMA PruneKeeps ==
    ASSUME IInv, NEW c \in Clients, prune(c), UNCHANGED server
    PROVE  IInv'
<1>1. /\ thr[c].pc = "prune" /\ UNCHANGED <<meta, journal, journal_tmp, meta_tmp, snap_tmp>>
    BY Zenon DEF prune, At
<1>2. /\ c \in Active /\ Progress(c) /\ DirectoryTypes /\ snaps[meta.gen] = meta.sha
    BY Zenon, <1>1, AtPlace
<1>3. /\ thr[c].after = "saved" /\ meta = [gen |-> Generation(c), sha |-> Snapshot(c)]
      /\ c \in thr[c].pool
    BY Zenon, <1>1, <1>2 DEF Progress, AfterMeta
<1>4. write_response(c, "MEMPOOL")
    BY Zenon, <1>3 DEF prune
<1>5. c \in meta.sha.pool /\ meta.gen = Generation(c)
    BY Zenon, <1>3 DEF Snapshot
<1> DEFINE kept == Retained({h \in Gen : snaps[h] # NoFile}, Generation(c))
<1>6. snaps' = [g \in Gen |-> IF g \in kept THEN snaps[g] ELSE NoFile]
    BY DEF prune
<1>7. meta.gen \in Gen /\ meta.gen \in kept
    BY Zenon, <1>5, RoomForGeneration DEF Retained
<1> HIDE DEF kept
<1>8. DirectoryTypes' /\ snaps'[meta.gen] = meta.sha
    BY <1>1, <1>2, <1>6, <1>7 DEF DirectoryTypes
<1>9. thr[c].pc \notin Journalled /\ "MEMPOOL" \in Answers \ {"none"}
    BY <1>1 DEF Journalled, Answers
<1> QED
    BY Zenon, <1>1, <1>2, <1>4, <1>5, <1>8, <1>9, Respond

\* No worker of a serial history is ever in the middle of a recovery.
LEMMA NoRecovery ==
    ASSUME IInv, NEW c \in Clients
    PROVE  ~(recover_meta(c) \/ unlink_staged(c) \/ unlink_journal(c))
<1>1. thr[c].pc \in Pc
    BY Zenon DEF IInv, ServiceTypes, Thread
<1> QED
    BY <1>1 DEF recover_meta, unlink_staged, unlink_journal, At, Pc, BeforeMeta, AfterMeta

\* Every step of a worker keeps the invariant.
LEMMA WorkerKeeps ==
    ASSUME IInv, NEW c \in Clients, Worker(c)
    PROVE  IInv'
BY NoRecovery, ReadKeeps, RecoverKeeps, ReadMetaKeeps, LoadSnapshotKeeps, ExecuteKeeps,
   JournalKeeps, SnapshotKeeps, WriteMetaKeeps, RenameMetaKeeps, FinalizeKeeps, PruneKeeps
   DEF Worker

-----------------------------------------------------------------------------
(* Clients and the acceptor.                                                *)

\* A step that touches neither the threads nor the files keeps what the invariant
\* says about them.
LEMMA Unmoved ==
    ASSUME IInv, UNCHANGED <<workers, handled, answer, thr, directory>>
    PROVE  ServiceTypes' /\ DirectoryTypes' /\ Counts' /\ Files' /\ Active' = Active
<1>1. UNCHANGED <<workers, handled, answer, thr>>
    OBVIOUS
<1>2. UNCHANGED <<meta, journal, snaps, journal_tmp, meta_tmp, snap_tmp>>
    BY DEF directory
<1>3. ServiceTypes'
    BY Zenon, <1>1 DEF IInv, ServiceTypes
<1>4. DirectoryTypes'
    BY Zenon, <1>2 DEF IInv, DirectoryTypes
<1>5. Active' = Active /\ Written' = Written /\ Ended' = Ended
    BY Zenon, <1>1 DEF Active, Written, Ended
<1>6. Counts'
    BY Zenon, <1>1, <1>2, <1>5 DEF IInv, Counts
<1>7. ASSUME NEW c \in Clients, Progress(c) PROVE Progress(c)'
    <2>1. Generation(c)' = Generation(c) /\ Snapshot(c)' = Snapshot(c) /\ Saves(c)' = Saves(c)
        BY Zenon, <1>1, <1>2 DEF Generation, Snapshot, Saves
    <2> QED
        BY Zenon, <1>1, <1>2, <1>7, <2>1 DEF Progress
<1>8. CommittedStateReadable' /\ AcknowledgedInMempool'
    BY Zenon, <1>1, <1>2 DEF IInv, Files, CommittedStateReadable, AcknowledgedInMempool
<1>9. Files'
    BY Zenon, <1>2, <1>5, <1>7, <1>8 DEF IInv, Files, Active
<1> QED
    BY <1>3, <1>4, <1>5, <1>6, <1>9

\* rpc-call: when calls do not overlap, a client finds the server at rest.
LEMMA ConnectKeeps ==
    ASSUME ConcurrentClients = 1, IInv, NEW c \in Clients, Connect(c)
    PROVE  IInv'
<1>1. Calling \in SUBSET Clients
    BY DEF Calling
<1>2. IsFiniteSet(Calling) /\ Cardinality(Calling) \in Nat
    BY <1>1, ServerAssumption, FS_Subset, FS_CardinalityType
<1>3. Calling = {}
    BY <1>2, FS_EmptySet DEF Connect
<1>4. Active = {}
    BY <1>3 DEF Calling, Active
<1>5. backlog = <<>>
    <2>1. ASSUME NEW d \in Clients, backlog = <<d>> PROVE d \in Calling
        BY <2>1 DEF Calling, Range
    <2> QED
        BY <1>3, <2>1 DEF IInv, Serial
<1>6. backlog' = <<c>> /\ thr[c].pc = "idle" /\ answer[c] = "none"
    BY <1>5 DEF Connect
<1>7. UNCHANGED <<workers, handled, answer, thr, meta, journal, snaps, journal_tmp, meta_tmp, snap_tmp>>
    BY Zenon DEF Connect, directory
<1>8. ServiceTypes' /\ DirectoryTypes' /\ Counts' /\ Files' /\ Active' = Active
    BY Unmoved DEF Connect
<1>9. Serial'
    BY Zenon, <1>4, <1>6, <1>7, <1>8 DEF Serial
<1> QED
    BY Zenon, <1>8, <1>9 DEF IInv

\* The client in the backlog, with the server at rest.
LEMMA Waiting ==
    ASSUME IInv, backlog # <<>>
    PROVE  \E c \in Clients : /\ backlog = <<c>> /\ thr[c].pc = "idle" /\ answer[c] = "none"
                              /\ Active = {} /\ journal = NoFile
                              /\ Head(backlog) = c /\ Tail(backlog) = <<>> /\ Range(backlog) = {c}
<1>1. PICK c \in Clients : backlog = <<c>> /\ thr[c].pc = "idle" /\ answer[c] = "none" /\ Active = {}
    BY DEF IInv, Serial
<1>2. journal = NoFile
    BY <1>1 DEF IInv, Files
<1>3. Head(<<c>>) = c /\ Tail(<<c>>) = <<>>
    OBVIOUS
<1>4. Range(<<c>>) = {c}
    BY DEF Range
<1> QED
    BY Zenon, <1>1, <1>2, <1>3, <1>4

\* A client that is turned away leaves the files and the other clients alone.
LEMMA TurnedAway ==
    ASSUME IInv, NEW c \in Clients, thr[c].pc = "idle", answer[c] = "none", Active = {},
           backlog' = <<>>, answer' = [answer EXCEPT ![c] = "dropped"],
           workers' \in SUBSET Clients, handled' \in {handled, handled + 1},
           UNCHANGED <<thr, directory>>
    PROVE  IInv'
<1>1. /\ ServiceTypes /\ DirectoryTypes /\ handled \in Nat /\ answer \in [Clients -> Answers]
      /\ UNCHANGED <<meta, journal, snaps, journal_tmp, meta_tmp, snap_tmp>>
    BY DEF IInv, ServiceTypes, directory
<1>2. ServiceTypes' /\ DirectoryTypes'
    BY <1>1 DEF ServiceTypes, DirectoryTypes, Answers
<1>3. Active' = {} /\ Written' = Written
    BY DEF Active, Written
<1>4. Serial'
    BY <1>3 DEF Serial
<1>5. Ended \in SUBSET Clients /\ c \in Clients \ Ended /\ Ended' = Ended \cup {c}
    BY <1>1 DEF Ended
<1>6. Cardinality(Ended) \in Nat /\ Cardinality(Ended') = Cardinality(Ended) + 1
    BY Zenon, <1>5, CountAdds
<1>7. Counts'
    BY <1>1, <1>3, <1>6 DEF IInv, Counts
<1>8. Files'
    BY Zenon, <1>1, <1>3 DEF IInv, Files, CommittedStateReadable, AcknowledgedInMempool
<1> QED
    BY Zenon, <1>2, <1>4, <1>7, <1>8 DEF IInv

\* serve_listener starts the one worker, or drops the stream at the limit.
LEMMA AcceptKeeps ==
    ASSUME IInv, Accept
    PROVE  IInv'
<1>1. PICK c \in Clients : /\ backlog = <<c>> /\ thr[c].pc = "idle" /\ answer[c] = "none"
                           /\ Active = {} /\ journal = NoFile
                           /\ Head(backlog) = c /\ Tail(backlog) = <<>> /\ Range(backlog) = {c}
    BY Waiting DEF Accept
<1>2. /\ backlog' = <<>> /\ handled' = handled + 1 /\ UNCHANGED directory
      /\ workers' \in SUBSET Clients
    BY <1>1 DEF Accept, reap_rpc_workers, IInv, ServiceTypes
<1>3. CASE answer' = [answer EXCEPT ![c] = "dropped"] /\ thr' = thr
    BY Zenon, <1>1, <1>2, <1>3, TurnedAway
<1>4. CASE answer' = answer /\ thr' = [thr EXCEPT ![c].pc = "read_line"]
    <2>1. /\ ServiceTypes /\ DirectoryTypes /\ handled \in Nat /\ thr \in [Clients -> Thread]
          /\ UNCHANGED <<meta, journal, snaps, journal_tmp, meta_tmp, snap_tmp>>
        BY <1>2 DEF IInv, ServiceTypes, directory
    <2> DEFINE t == [thr[c] EXCEPT !.pc = "read_line"]
    <2>2. thr[c] \in Thread /\ thr' = [thr EXCEPT ![c] = t]
        BY <1>4, <2>1
    <2>3. t \in Thread /\ t.pc = "read_line"
        BY Zenon, <2>2 DEF Thread, Pc
    <2>4. thr'[c] = t /\ thr' \in [Clients -> Thread] /\ \A d \in Clients \ {c} : thr'[d] = thr[d]
        BY <2>1, <2>2, <2>3
    <2> HIDE DEF t
    <2>5. ServiceTypes' /\ DirectoryTypes'
        BY <1>2, <1>4, <2>1, <2>4 DEF ServiceTypes, DirectoryTypes
    <2>6. Active' = {c} /\ Written' = Written
        BY <1>1, <2>3, <2>4 DEF Active, Written, AfterMeta
    <2>7. Serial'
        BY <1>2, <2>6 DEF Serial
    <2>8. Ended \in SUBSET Clients /\ c \in Clients \ Ended /\ Ended' = Ended \cup {c}
        BY <1>1, <1>4, <2>3, <2>4 DEF Ended
    <2>9. Cardinality(Ended) \in Nat /\ Cardinality(Ended') = Cardinality(Ended) + 1
        BY <2>8, CountAdds
    <2>10. Counts'
        BY <1>2, <2>1, <2>6, <2>9 DEF IInv, Counts
    <2>11. Progress(c)'
        BY Zenon, <1>1, <2>1, <2>3, <2>4 DEF Progress, BeforeMeta, AfterMeta, Journalled
    <2>12. Files'
        BY <1>4, <2>1, <2>6, <2>11 DEF IInv, Files, CommittedStateReadable, AcknowledgedInMempool
    <2> QED
        BY <2>5, <2>7, <2>10, <2>12 DEF IInv
<1> QED
    BY <1>1, <1>3, <1>4 DEF Accept

\* The exit after the last request refuses whoever still waits.
LEMMA ExitKeeps ==
    ASSUME IInv, Exit
    PROVE  IInv'
<1>1. PICK c \in Clients : /\ backlog = <<c>> /\ thr[c].pc = "idle" /\ answer[c] = "none"
                           /\ Active = {} /\ Range(backlog) = {c}
    BY Waiting DEF Exit
<1>2. answer' = [answer EXCEPT ![c] = "dropped"]
    BY Zenon, <1>1 DEF Exit, IInv, ServiceTypes
<1>3. workers' \in SUBSET Clients /\ UNCHANGED <<thr, directory, handled>> /\ backlog' = <<>>
    BY DEF Exit, IInv, ServiceTypes
<1> QED
    BY Zenon, <1>1, <1>2, <1>3, TurnedAway

-----------------------------------------------------------------------------
(* The theorem.                                                             *)

\* The invariant holds of a fresh data directory and a server at rest.
LEMMA ServerInitInv == ServerInit => IInv
<1> SUFFICES ASSUME ServerInit PROVE IInv
    OBVIOUS
<1>1. Idle \in Thread /\ Idle.pc = "idle"
    BY DEF Idle, Thread, Pc
<1>2. ServiceTypes /\ Active = {} /\ Serial
    BY Zenon, <1>1 DEF ServerInit, ServiceTypes, Answers, Active, Serial
<1>3. meta \in MetaFile /\ meta.sha \in SnapshotFile /\ meta.gen = 1 /\ meta.sha.gen = 1
    BY DEF ServerInit, MetaFile, SnapshotFile
<1>4. Cardinality(Clients) \in Nat
    BY ServerAssumption, FS_CardinalityType
<1>5. 1 \in Gen
    BY <1>4 DEF Gen
<1>6. snaps = [g \in Gen |-> IF g = 1 THEN meta.sha ELSE NoFile]
    BY Zenon DEF ServerInit
<1>7. DirectoryTypes /\ snaps[meta.gen] = meta.sha
    BY Zenon, <1>3, <1>5, <1>6 DEF ServerInit, DirectoryTypes
<1>8. Written \in SUBSET Clients /\ Ended \in SUBSET Clients
    BY DEF Written, Ended
<1>9. Cardinality(Written) \in Nat /\ Cardinality(Ended) \in Nat
    BY Zenon, <1>8, CountGrows
<1>10. Counts
    BY <1>3, <1>9 DEF Counts, ServerInit
<1>11. Files
    BY Zenon, <1>2, <1>7 DEF Files, CommittedStateReadable, AcknowledgedInMempool, ServerInit
<1> QED
    BY <1>2, <1>7, <1>10, <1>11 DEF IInv

\* Steps that change nothing of the server keep the invariant.
LEMMA ServerStutters == IInv /\ UNCHANGED serverVars => IInv'
<1> SUFFICES ASSUME IInv, UNCHANGED serverVars PROVE IInv'
    OBVIOUS
<1>1. UNCHANGED backlog /\ UNCHANGED <<workers, handled, answer, thr, directory>>
    BY DEF serverVars
<1>2. ServiceTypes' /\ DirectoryTypes' /\ Counts' /\ Files' /\ Active' = Active
    BY <1>1, Unmoved
<1>3. Serial'
    BY Zenon, <1>1, <1>2 DEF IInv, Serial
<1> QED
    BY <1>2, <1>3 DEF IInv

\* The invariant gives what clients rely on.
LEMMA InvGivesStored == IInv => AcknowledgedIsStored
<1> SUFFICES ASSUME IInv PROVE AcknowledgedIsStored
    OBVIOUS
<1>1. CommittedStateReadable /\ AcknowledgedInMempool
    BY DEF IInv, Files
<1>2. Range(backlog) \subseteq Clients
    <2>1. CASE backlog = <<>>
        BY <2>1 DEF Range
    <2>2. CASE backlog # <<>>
        BY Zenon, <2>2, Waiting
    <2> QED BY <2>1, <2>2
<1>3. handled \in 0 .. Cardinality(Clients)
    <2>1. Ended \in SUBSET Clients
        BY DEF Ended
    <2>2. /\ Cardinality(Ended) \in Nat /\ Cardinality(Clients) \in Nat
          /\ Cardinality(Ended) <= Cardinality(Clients)
        BY Zenon, <2>1, CountGrows
    <2> QED
        BY <2>2 DEF IInv, Counts, ServiceTypes
<1>4. meta.gen \in Gen
    BY RoomForGeneration
<1>5. \A c \in Clients : thr[c].pool \subseteq Clients /\ thr[c].task \in {"load", "commit"}
    BY Zenon DEF IInv, ServiceTypes, Thread
<1>6. \A g \in Gen : snaps[g] # NoFile => snaps[g].gen = g /\ snaps[g].pool \subseteq Clients
    BY DEF IInv, DirectoryTypes, SnapshotFile
<1>7. /\ workers \subseteq Clients
      /\ \A c \in Clients : answer[c] \in {"none", "status", "MEMPOOL", "error", "dropped"}
    BY DEF IInv, ServiceTypes, Answers
<1> QED
    BY Zenon, <1>1, <1>2, <1>3, <1>4, <1>5, <1>6, <1>7 DEF AcknowledgedIsStored, ServerTypeOK

\* For any number of clients that call one at a time, whatever they ask for and
\* in whatever order: a client that was told MEMPOOL finds its transaction in the
\* committed state ever after, and the meta file always names a snapshot that is
\* there and matches, while other calls read, fail, time out or commit.
THEOREM SerialCallsAreStored ==
    ASSUME ConcurrentClients = 1
    PROVE  ServerSpec => []AcknowledgedIsStored
<1>1. IInv /\ [ServerNext]_serverVars => IInv'
    <2> SUFFICES ASSUME IInv, [ServerNext]_serverVars PROVE IInv'
        OBVIOUS
    <2>1. ASSUME NEW c \in Clients, Connect(c) PROVE IInv'
        BY <2>1, ConnectKeeps
    <2>2. ASSUME NEW c \in Clients, Worker(c) PROVE IInv'
        BY <2>2, WorkerKeeps
    <2>3. CASE Accept
        BY <2>3, AcceptKeeps
    <2>4. CASE Exit
        BY <2>4, ExitKeeps
    <2>5. CASE UNCHANGED serverVars
        BY <2>5, ServerStutters
    <2> QED
        BY <2>1, <2>2, <2>3, <2>4, <2>5 DEF ServerNext
<1> QED
    BY <1>1, ServerInitInv, InvGivesStored, PTL DEF ServerSpec
=============================================================================
