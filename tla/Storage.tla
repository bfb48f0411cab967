------------------------------ MODULE Storage ------------------------------
(***************************************************************************)
(* The journalled snapshot store of mutinyd (mutiny-node/src/storage.rs)    *)
(* and the load / save / init code of main.rs that drives it.               *)
(*                                                                          *)
(* One process at a time works on a data directory.  Every file system      *)
(* call that another run of the program could observe is a step of its      *)
(* own, so that a crash, or an I/O error that makes the caller return Err,  *)
(* may fall between any two of them.  A write is synced and a rename or a   *)
(* removal is followed by a directory sync, so what a crash leaves behind   *)
(* is the state before or after the step it interrupts.                     *)
(***************************************************************************)
EXTENDS Integers, FiniteSets

CONSTANTS Canon,    \* what a snapshot can hold of the canonical chain
          Genesis,  \* the member of Canon that `mutinyd init` writes
          MaxGen,   \* the largest generation number (u64::MAX in the code)
          NoFile    \* the contents of a file that does not exist

ASSUME GenesisAssumption == Genesis \in Canon
ASSUME MaxGenAssumption == MaxGen \in Nat

RETAIN_GENERATIONS == 2

Network == {"devnet", "mainnet"}

\* Whether the mempool or the queue of protocol operations holds anything.
Pending == {"empty", "queued"}

\* DevnetState: its canonical part and its pending work.
State == [net : Network, canon : Canon, pending : Pending]

Gen == 1 .. MaxGen

\* A framed snapshot.  SHA-256 is taken to be injective, so that the hash of
\* a framed snapshot is modelled by the framed snapshot itself.
Framed == [generation : Gen, payload : State]

Meta == [net : Network, canon : Canon, generation : Gen, sha : Framed]

Journal == [generation : Gen, previous : 0 .. MaxGen, sha : Framed]

ASSUME NoFileAssumption ==
  NoFile \notin Framed \cup Meta \cup Journal \cup State

RecoveryAction == {"None", "RolledBackPrepared", "FinalizedCommitted"}

VARIABLES
  \* the data directory
  meta,      \* meta.bin
  journal,   \* canonical.commit
  snapshots, \* state/generation-N.mst, a function of N
  root,      \* does the Build 5.9 state.json exist in the root directory?
  archived,  \* does migrations/legacy-state-v59.json exist?
  \* the process
  pc,        \* the step it is at
  task,      \* what the running load or commit was called for
  runtime,   \* the network selected on the command line, "none" if not given
  recovery,  \* what `recover` did during the running load
  arg,       \* the state being committed
  mem,       \* the state the process works with
  \* history
  dirty,     \* a forced init began to remove the storage directory
  unclean    \* a process died and left a journal; no save since

disk == <<meta, journal, snapshots, root, archived>>
process == <<pc, task, runtime, recovery, arg, mem>>
vars == <<disk, process, dirty, unclean>>

CommitPc == {"begin", "snapshot", "meta", "finalize", "prune"}
LoadPc == {"bind", "recover", "read"}
Task == {"load", "save", "purge", "migrate", "init1", "init2"}

-----------------------------------------------------------------------------
(* What the code reads from the directory.                                  *)

exists == meta # NoFile \/ journal # NoFile \/ archived

encode_snapshot(g, s) == [generation |-> g, payload |-> s]

\* verify_snapshot_for_meta: the file meta names is there, has the hash meta
\* records, and is framed for its generation.
Verified(m) ==
  LET file == snapshots[m.generation]
  IN  /\ file # NoFile
      /\ file = m.sha
      /\ file.generation = m.generation

\* validate_storage_meta: the decoded snapshot has the identity meta records.
IdentityMatches(m) ==
  LET state == snapshots[m.generation].payload
  IN  state.net = m.net /\ state.canon = m.canon

previous_generation == IF meta = NoFile THEN 0 ELSE meta.generation

generation == previous_generation + 1

\* load_snapshot_for_network refuses before recovery can touch anything.
Refused ==
  /\ runtime # "none"
  /\ IF meta # NoFile
       THEN \/ meta.net # runtime
            \/ /\ journal # NoFile
               /\ \/ ~Verified(meta)
                  \/ runtime = "mainnet" /\ ~IdentityMatches(meta)
       ELSE runtime = "mainnet" /\ (journal # NoFile \/ archived \/ root)

-----------------------------------------------------------------------------
(* How a function that failed returns to its caller.                        *)

\* Mutant: the Mainnet runtime, too, goes on after a failed save.
ReturnErr_NoExit ==
  \/ /\ pc' = "down"
     /\ mem' = NoFile
     /\ unclean' = IF journal # NoFile THEN TRUE ELSE unclean
  \/ /\ task = "save"
     /\ pc' = "ready"
     /\ UNCHANGED <<mem, unclean>>

\* Every command ends on an error of load or of init.  An error of a save ends
\* the Mainnet runtime and every command; the Devnet runtime goes on, from the
\* state it had or, where it assigns before it saves, from the new one.
ReturnErr ==
  \/ /\ pc' = "down"
     /\ mem' = NoFile
     /\ unclean' = IF journal # NoFile THEN TRUE ELSE unclean
  \/ /\ task = "save"
     /\ arg.net = "devnet"
     /\ pc' = "ready"
     /\ mem' \in {mem, arg}
     /\ UNCHANGED unclean

\* Any file system call may fail.  The effect of the failed call is either
\* absent, or complete with only the directory sync missing; the second case
\* is a failure at the next step.
IoError ==
  /\ pc \in CommitPc \cup {"recover", "read", "reset"}
  /\ ReturnErr
  /\ UNCHANGED <<disk, task, runtime, recovery, arg, dirty>>

\* The process is killed, or runs into one of the maybe_crash failpoints.
Crash ==
  /\ pc # "down"
  /\ pc' = "down"
  /\ mem' = NoFile
  /\ unclean' = IF journal # NoFile THEN TRUE ELSE unclean
  /\ UNCHANGED <<disk, task, runtime, recovery, arg, dirty>>

-----------------------------------------------------------------------------
(* recover(dir): called first by load_snapshot and by commit_snapshot.       *)

\* The control state after recover returned Ok(action).
Recovered(action) ==
  /\ recovery' = IF task = "load" THEN action ELSE recovery
  /\ pc' = IF task = "load" THEN "read" ELSE "begin"
  /\ UNCHANGED <<task, runtime, arg, mem, dirty, unclean>>

RecoverNone ==
  /\ pc = "recover"
  /\ journal = NoFile
  /\ Recovered("None")
  /\ UNCHANGED disk

Committed ==
  /\ meta # NoFile
  /\ meta.generation = journal.generation

\* Mutant: a journal whose metadata is already published is rolled back.
Prepared_Late ==
  IF meta # NoFile THEN meta.generation >= journal.previous
                   ELSE journal.previous = 0

Prepared ==
  IF meta # NoFile
    THEN /\ meta.generation # journal.generation
         /\ meta.generation = journal.previous
    ELSE journal.previous = 0

\* Metadata of the journal's generation was published: the journal goes.
RecoverFinalize ==
  /\ pc = "recover"
  /\ journal # NoFile
  /\ Committed
  /\ meta.sha = journal.sha
  /\ Verified(meta)
  /\ journal' = NoFile
  /\ Recovered("FinalizedCommitted")
  /\ UNCHANGED <<meta, snapshots, root, archived>>

\* Metadata still names the previous generation: the staged snapshot goes ...
RecoverRemoveStaged ==
  /\ pc = "recover"
  /\ journal # NoFile
  /\ Prepared
  /\ snapshots[journal.generation] # NoFile
  /\ snapshots[journal.generation] = journal.sha
  /\ snapshots' = [snapshots EXCEPT ![journal.generation] = NoFile]
  /\ UNCHANGED <<meta, journal, root, archived, process, dirty, unclean>>

\* Mutant: a rolled back commit takes the previous generation with it.
RecoverRollBack_DropMeta ==
  /\ pc = "recover"
  /\ journal # NoFile
  /\ Prepared
  /\ snapshots[journal.generation] = NoFile
  /\ journal' = NoFile
  /\ meta' = NoFile
  /\ Recovered("RolledBackPrepared")
  /\ UNCHANGED <<snapshots, root, archived>>

\* Mutant: the journal is removed although the staged snapshot is still there.
RecoverRollBack_KeepStaged ==
  /\ pc = "recover"
  /\ journal # NoFile
  /\ Prepared
  /\ journal' = NoFile
  /\ Recovered("RolledBackPrepared")
  /\ UNCHANGED <<meta, snapshots, root, archived>>

\* ... and then the journal.
RecoverRollBack ==
  /\ pc = "recover"
  /\ journal # NoFile
  /\ Prepared
  /\ snapshots[journal.generation] = NoFile
  /\ journal' = NoFile
  /\ Recovered("RolledBackPrepared")
  /\ UNCHANGED <<meta, snapshots, root, archived>>

\* Journal, metadata and snapshots contradict each other.
RecoveryConflict ==
  /\ journal # NoFile
  /\ \/ ~Committed /\ ~Prepared
     \/ Committed /\ (meta.sha # journal.sha \/ ~Verified(meta))
     \/ /\ Prepared
        /\ snapshots[journal.generation] \notin {NoFile, journal.sha}

RecoverFail ==
  /\ pc = "recover"
  /\ RecoveryConflict
  /\ ReturnErr
  /\ UNCHANGED <<disk, task, runtime, recovery, arg, dirty>>

-----------------------------------------------------------------------------
(* commit_snapshot(dir, payload, identity), after recover.                   *)

framed == encode_snapshot(generation, arg)

\* "storage generation overflow"
CommitOverflow ==
  /\ pc = "begin"
  /\ generation > MaxGen
  /\ ReturnErr
  /\ UNCHANGED <<disk, task, runtime, recovery, arg, dirty>>

CommitJournal ==
  /\ pc = "begin"
  /\ generation <= MaxGen
  /\ journal' = [generation |-> generation, previous |-> previous_generation,
                 sha |-> framed]
  /\ pc' = "snapshot"
  /\ UNCHANGED <<meta, snapshots, root, archived, task, runtime, recovery,
                 arg, mem, dirty, unclean>>

CommitSnapshot ==
  /\ pc = "snapshot"
  /\ snapshots' = [snapshots EXCEPT ![generation] = framed]
  /\ pc' = "meta"
  /\ UNCHANGED <<meta, journal, root, archived, task, runtime, recovery,
                 arg, mem, dirty, unclean>>

CommitMeta ==
  /\ pc = "meta"
  /\ meta' = [net |-> arg.net, canon |-> arg.canon,
              generation |-> generation, sha |-> framed]
  /\ pc' = "finalize"
  /\ UNCHANGED <<journal, snapshots, root, archived, task, runtime, recovery,
                 arg, mem, dirty, unclean>>

CommitFinalize ==
  /\ pc = "finalize"
  /\ journal' = NoFile
  /\ pc' = "prune"
  /\ UNCHANGED <<meta, snapshots, root, archived, task, runtime, recovery,
                 arg, mem, dirty, unclean>>

Present == {g \in Gen : snapshots[g] # NoFile}

\* What prune_old_snapshots removes: all but the RETAIN_GENERATIONS highest
\* generations, and never the current one.
Excess ==
  {g \in Present : /\ Cardinality({h \in Present : h > g}) >= RETAIN_GENERATIONS
                   /\ g # meta.generation}

CommitPrune ==
  /\ pc = "prune"
  /\ \E g \in Excess :
       /\ \A h \in Excess : g <= h
       /\ snapshots' = [snapshots EXCEPT ![g] = NoFile]
  /\ UNCHANGED <<meta, journal, root, archived, process, dirty, unclean>>

\* commit_snapshot returned Ok to save_state.  init goes on to write the
\* genesis of the selected network over the Devnet genesis it began with.
CommitOk ==
  /\ pc = "prune"
  /\ Excess = {}
  /\ IF task = "init1"
       THEN /\ task' = "init2"
            /\ arg' = [net |-> runtime, canon |-> Genesis, pending |-> "empty"]
            /\ pc' = "recover"
            /\ UNCHANGED mem
       ELSE /\ mem' = arg
            /\ pc' = "ready"
            /\ UNCHANGED <<task, arg>>
  /\ UNCHANGED <<disk, runtime, recovery, dirty, unclean>>

-----------------------------------------------------------------------------
(* load_state_with_ingress: a command or the node starts.                    *)

StartLoad(network) ==
  /\ pc = "down"
  /\ pc' = "bind"
  /\ task' = "load"
  /\ runtime' = network
  /\ recovery' = "None"
  /\ UNCHANGED <<disk, arg, mem, dirty, unclean>>

BindNetwork ==
  /\ pc = "bind"
  /\ pc' = IF Refused THEN "down" ELSE "recover"
  /\ UNCHANGED <<disk, task, runtime, recovery, arg, mem, dirty, unclean>>

\* save_state: hand a state to commit_snapshot.
BeginSave(why, state) ==
  /\ task' = why
  /\ arg' = state
  /\ pc' = "recover"

Readable ==
  /\ Verified(meta)
  /\ IdentityMatches(meta)
  /\ runtime \in {"none", snapshots[meta.generation].payload.net}

\* The committed snapshot is decoded and checked.  When this load had to
\* recover, pending work is cleared and the cleared state is committed.
LoadCommitted ==
  /\ pc = "read"
  /\ meta # NoFile
  /\ Readable
  /\ LET state == snapshots[meta.generation].payload
         purged == [state EXCEPT !.pending = "empty"]
     IN  IF recovery # "None" /\ state.pending = "queued"
           THEN /\ BeginSave("purge", purged)
                /\ UNCHANGED mem
           ELSE /\ mem' = state
                /\ pc' = "ready"
                /\ UNCHANGED <<task, arg>>
  /\ UNCHANGED <<disk, runtime, recovery, dirty, unclean>>

\* The Build 5.9 state: a Devnet chain, archived before it is migrated.
LegacyState == [net |-> "devnet", canon |-> Genesis, pending |-> "queued"]

LoadLegacy ==
  /\ pc = "read"
  /\ meta = NoFile
  /\ root # archived
  /\ runtime \in {"none", LegacyState.net}
  /\ root' = FALSE
  /\ archived' = TRUE
  /\ BeginSave("migrate", LegacyState)
  /\ UNCHANGED <<meta, journal, snapshots, runtime, recovery, mem, dirty,
                 unclean>>

\* Nothing to load, an ambiguous migration, or a snapshot that does not check.
LoadFail ==
  /\ pc = "read"
  /\ IF meta # NoFile THEN ~Readable
                      ELSE root = archived
  /\ ReturnErr
  /\ UNCHANGED <<disk, task, runtime, recovery, arg, dirty>>

\* bootstrap-mainnet reads the committed snapshot without any recovery.
LoadReadOnly ==
  /\ pc = "down"
  /\ journal = NoFile
  /\ meta # NoFile
  /\ Verified(meta)
  /\ IdentityMatches(meta)
  /\ meta.net = "mainnet"
  /\ mem' = snapshots[meta.generation].payload
  /\ mem'.pending = "empty"
  /\ pc' = "ready"
  /\ runtime' = "mainnet"
  /\ UNCHANGED <<disk, task, recovery, arg, dirty, unclean>>

-----------------------------------------------------------------------------
(* The running process, and the init commands.                               *)

Save(state) ==
  /\ pc = "ready"
  /\ state.net = mem.net
  /\ BeginSave("save", state)
  /\ unclean' = FALSE
  /\ UNCHANGED <<disk, runtime, recovery, mem, dirty>>

Exit ==
  /\ pc = "ready"
  /\ pc' = "down"
  /\ mem' = NoFile
  /\ UNCHANGED <<disk, task, runtime, recovery, arg, dirty, unclean>>

\* `init` writes the Devnet genesis; the genesis commands load what it wrote
\* and commit the genesis of their network over it.
InitTask(network, why) ==
  /\ why \in {"init1", "init2"}
  /\ why = "init2" => network = "devnet"

InitFresh(network, why) ==
  /\ pc = "down"
  /\ InitTask(network, why)
  /\ ~root /\ ~exists
  /\ BeginSave(why, [net |-> "devnet", canon |-> Genesis, pending |-> "empty"])
  /\ runtime' = network
  /\ UNCHANGED <<disk, recovery, mem, dirty, unclean>>

InitForced(network, why) ==
  /\ pc = "down"
  /\ InitTask(network, why)
  /\ root' = FALSE
  /\ pc' = "reset"
  /\ task' = why
  /\ arg' = [net |-> "devnet", canon |-> Genesis, pending |-> "empty"]
  /\ runtime' = network
  /\ dirty' = TRUE
  /\ UNCHANGED <<meta, journal, snapshots, archived, recovery, mem, unclean>>

\* remove_dir_all takes the files of the storage directory in any order.
ResetRemove ==
  /\ pc = "reset"
  /\ \/ /\ meta # NoFile /\ meta' = NoFile
        /\ UNCHANGED <<journal, snapshots, archived>>
     \/ /\ journal # NoFile /\ journal' = NoFile
        /\ UNCHANGED <<meta, snapshots, archived>>
     \/ /\ archived /\ archived' = FALSE
        /\ UNCHANGED <<meta, journal, snapshots>>
     \/ /\ \E g \in Present : snapshots' = [snapshots EXCEPT ![g] = NoFile]
        /\ UNCHANGED <<meta, journal, archived>>
  /\ UNCHANGED <<root, process, dirty, unclean>>

ResetDone ==
  /\ pc = "reset"
  /\ ~exists /\ Present = {}
  /\ pc' = "recover"
  /\ dirty' = FALSE
  /\ unclean' = FALSE
  /\ UNCHANGED <<disk, task, runtime, recovery, arg, mem>>

-----------------------------------------------------------------------------
\* A new data directory, or one a Build 5.9 node left behind.
Init ==
  /\ meta = NoFile /\ journal = NoFile
  /\ snapshots = [g \in Gen |-> NoFile]
  /\ root \in BOOLEAN /\ archived = FALSE
  /\ pc = "down" /\ task = "load" /\ runtime = "none" /\ recovery = "None"
  /\ arg = NoFile /\ mem = NoFile
  /\ dirty = FALSE /\ unclean = FALSE

Recover ==
  RecoverNone \/ RecoverFinalize \/ RecoverRemoveStaged \/ RecoverRollBack
    \/ RecoverFail

Commit ==
  CommitOverflow \/ CommitJournal \/ CommitSnapshot \/ CommitMeta
    \/ CommitFinalize \/ CommitPrune \/ CommitOk

Load ==
  \/ \E network \in Network \cup {"none"} : StartLoad(network)
  \/ BindNetwork \/ LoadCommitted \/ LoadLegacy \/ LoadFail \/ LoadReadOnly

Command ==
  \/ \E state \in State : Save(state)
  \/ Exit
  \/ \E network \in Network, why \in Task :
       InitFresh(network, why) \/ InitForced(network, why)
  \/ ResetRemove \/ ResetDone

Next == Recover \/ Commit \/ Load \/ Command \/ IoError \/ Crash

Spec == Init /\ [][Next]_vars

-----------------------------------------------------------------------------
(* Properties.  What is said of the directory is said of directories that   *)
(* no forced init was interrupted in: remove_dir_all has no journal, and    *)
(* what it leaves behind may be any part of the old directory.              *)

\* Type invariant: every file holds what its decoder accepts, generation
\* numbers stay within u64, and the process is at a step of the program.
TypeOK ==
  /\ meta \in Meta \cup {NoFile}
  /\ journal \in Journal \cup {NoFile}
  /\ snapshots \in [Gen -> Framed \cup {NoFile}]
  /\ root \in BOOLEAN /\ archived \in BOOLEAN
  /\ pc \in {"down", "ready", "reset"} \cup LoadPc \cup CommitPc
  /\ task \in Task
  /\ runtime \in Network \cup {"none"}
  /\ recovery \in RecoveryAction
  /\ arg \in State \cup {NoFile}
  /\ mem \in State \cup {NoFile}
  /\ dirty \in BOOLEAN /\ unclean \in BOOLEAN

\* The snapshot that meta.bin names exists, has the recorded hash and the
\* recorded identity at every moment, in particular wherever commit_snapshot,
\* recover or prune_old_snapshots may be interrupted.
CommittedReadable ==
  ~dirty /\ meta # NoFile => Verified(meta) /\ IdentityMatches(meta)

\* No sequence of crashes, failed commits and retried recoveries brings the
\* journal, meta.bin and the snapshots into one of the combinations on which
\* recover returns Err, which would lock the node out of its directory.
RecoveryPossible == dirty \/ ~RecoveryConflict

\* save_live_runtime_state: a Mainnet process never goes on from a state that
\* is not the committed one, even when a commit failed after its commit point.
MainnetMemoryIsDurable ==
  ~dirty /\ pc = "ready" /\ mem.net = "mainnet" =>
    /\ meta # NoFile
    /\ journal = NoFile
    /\ snapshots[meta.generation].payload = mem

\* load_snapshot_for_network: a load for one network leaves a directory of the
\* other network, and a Mainnet load leaves a directory without metadata,
\* exactly as they were, also when there is a journal to recover.
ForeignStorageUntouched ==
  [][ /\ pc \in LoadPc /\ task = "load"
      /\ runtime # "none"
      /\ IF meta # NoFile THEN meta.net # runtime ELSE runtime = "mainnet"
      => UNCHANGED disk ]_vars

\* The state the directory stores: what the next load will return.
durable ==
  IF dirty \/ meta = NoFile THEN NoFile
                            ELSE snapshots[meta.generation].payload

\* The state that a running save has yet to install.
writing ==
  IF \/ pc \in {"begin", "snapshot", "meta"}
     \/ pc = "recover" /\ task # "load"
    THEN arg ELSE NoFile

Atomic == INSTANCE AtomicStore WITH None <- NoFile, wiping <- dirty

\* The journalled commit implements the atomic store: the stored state only
\* ever changes at the rename of meta.bin, to the state the save was given.
CommitIsAtomic == Atomic!Spec

\* "Volatile pending work is never authoritative": a process that starts after
\* another one died in a commit serves no pending work from before.
RecoveredWithoutPending ==
  ~dirty /\ pc = "ready" /\ task = "load" /\ unclean =>
    mem.pending = "empty"

=============================================================================
