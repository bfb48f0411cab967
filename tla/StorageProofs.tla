--------------------------- MODULE StorageProofs ---------------------------
(***************************************************************************)
(* Proofs about Storage, for every set of canonical states and every limit  *)
(* on the generation numbers.                                               *)
(***************************************************************************)
EXTENDS Storage, TLAPS

\* What the program knows of the directory and of its own variables at each
\* of its steps, whatever an interrupted init has left in the directory.
ControlInv ==
  /\ pc \in {"bind", "read"} => task = "load"
  /\ pc \in CommitPc => task # "load"
  /\ pc = "reset" => dirty /\ task \in {"init1", "init2"}
  /\ pc \in CommitPc \cup {"reset", "recover"} /\ task = "init1" =>
       runtime \in Network
  /\ pc \in CommitPc \cup {"reset"} => arg \in State
  /\ pc = "recover" /\ task # "load" => arg \in State
  /\ pc = "ready" => mem \in State
  /\ pc \in CommitPc \cup {"recover"} /\ task = "save" =>
       mem \in State /\ mem.net = arg.net
  /\ pc \in {"begin", "read", "prune"} => journal = NoFile
  /\ pc \in {"snapshot", "meta"} =>
       /\ generation <= MaxGen
       /\ journal = [generation |-> generation,
                     previous |-> previous_generation, sha |-> framed]
  /\ pc = "meta" => snapshots[generation] = framed
  /\ pc \in {"finalize", "prune"} =>
       /\ meta # NoFile
       /\ meta.sha = encode_snapshot(meta.generation, arg)
  /\ pc = "finalize" =>
       /\ journal # NoFile
       /\ journal.generation = meta.generation
       /\ journal.sha = meta.sha

\* What the directory looks like at every moment, so that recovery finds its
\* way: metadata names a good snapshot; a journal is for the generation after
\* the committed one, or for the committed one; and a snapshot that is newer
\* than the metadata is the one that the journal announces.
DiskInv ==
  ~dirty =>
    /\ meta # NoFile => Verified(meta) /\ IdentityMatches(meta)
    /\ journal # NoFile =>
         /\ journal.previous = journal.generation - 1
         /\ previous_generation \in {journal.previous, journal.generation}
         /\ previous_generation = journal.generation =>
              meta.sha = journal.sha
         /\ previous_generation = journal.previous =>
              snapshots[journal.generation] \in {NoFile, journal.sha}
    /\ \A g \in Gen :
         g > previous_generation /\ snapshots[g] # NoFile =>
           journal # NoFile /\ g = journal.generation

\* The inductive invariant.
IInv == TypeOK /\ ControlInv /\ DiskInv /\ MainnetMemoryIsDurable

\* The two halves of the type invariant: flags, and everything else.
FlagsOK ==
  /\ root \in BOOLEAN /\ archived \in BOOLEAN
  /\ dirty \in BOOLEAN /\ unclean \in BOOLEAN

DataOK ==
  /\ meta \in Meta \cup {NoFile}
  /\ journal \in Journal \cup {NoFile}
  /\ snapshots \in [Gen -> Framed \cup {NoFile}]
  /\ pc \in {"down", "ready", "reset"} \cup LoadPc \cup CommitPc
  /\ task \in Task
  /\ runtime \in Network \cup {"none"}
  /\ recovery \in RecoveryAction
  /\ arg \in State \cup {NoFile}
  /\ mem \in State \cup {NoFile}

\* A snapshot that verifies against the metadata decodes to a state.
LEMMA LoadedState ==
  ASSUME TypeOK, meta # NoFile, Verified(meta)
  PROVE  snapshots[meta.generation].payload \in State
  BY DEF TypeOK, Verified, Meta, Framed

\* A function that fails leaves the process dead, or with the state it had.
LEMMA FailedState ==
  ASSUME TypeOK, ReturnErr
  PROVE  mem' \in State \cup {NoFile} /\ pc' \in {"down", "ready"}
  BY DEF TypeOK, ReturnErr

\* No step gives a flag a value that is not a Boolean.
LEMMA FlagsStep == IInv /\ [Next]_vars => FlagsOK'
  <1> SUFFICES ASSUME IInv, [Next]_vars PROVE FlagsOK'
    OBVIOUS
  <1> USE DEF IInv, TypeOK, FlagsOK
  <1>1. CASE RecoverNone
    BY <1>1, Zenon DEF RecoverNone, Recovered, disk
  <1>2. CASE RecoverFinalize
    BY <1>2, Zenon DEF RecoverFinalize, Recovered, Committed
  <1>3. CASE RecoverRemoveStaged
    BY <1>3, Zenon DEF RecoverRemoveStaged, Prepared, process
  <1>4. CASE RecoverRollBack
    BY <1>4, Zenon DEF RecoverRollBack, Recovered, Prepared
  <1>5. CASE RecoverFail
    BY <1>5, Zenon DEF RecoverFail, ReturnErr, disk
  <1>6. CASE CommitOverflow
    BY <1>6, Zenon DEF CommitOverflow, ReturnErr, disk
  <1>7. CASE CommitJournal
    BY <1>7, Zenon DEF CommitJournal
  <1>8. CASE CommitSnapshot
    BY <1>8, Zenon DEF CommitSnapshot
  <1>9. CASE CommitMeta
    BY <1>9, Zenon DEF CommitMeta
  <1>10. CASE CommitFinalize
    BY <1>10, Zenon DEF CommitFinalize
  <1>11. CASE CommitPrune
    BY <1>11, Zenon DEF CommitPrune, Excess, Present, process
  <1>12. CASE CommitOk
    BY <1>12, Zenon DEF CommitOk, disk
  <1>13. ASSUME NEW network \in Network \cup {"none"},
               StartLoad(network)
        PROVE  FlagsOK'
    BY <1>13, Zenon DEF StartLoad, disk
  <1>14. CASE BindNetwork
    BY <1>14, Zenon DEF BindNetwork, disk
  <1>15. CASE LoadCommitted
    BY <1>15, Zenon DEF LoadCommitted, BeginSave, Readable, disk
  <1>16. CASE LoadLegacy
    BY <1>16, Zenon DEF LoadLegacy, BeginSave, LegacyState
  <1>17. CASE LoadFail
    BY <1>17, Zenon DEF LoadFail, ReturnErr, disk
  <1>18. CASE LoadReadOnly
    BY <1>18, Zenon DEF LoadReadOnly, disk
  <1>19. ASSUME NEW state \in State,
               Save(state)
        PROVE  FlagsOK'
    BY <1>19, Zenon DEF Save, BeginSave, disk
  <1>20. CASE Exit
    BY <1>20, Zenon DEF Exit, disk
  <1>21. ASSUME NEW network \in Network, NEW why \in Task,
               InitFresh(network, why)
        PROVE  FlagsOK'
    BY <1>21, Zenon DEF InitFresh, BeginSave, InitTask, disk
  <1>22. ASSUME NEW network \in Network, NEW why \in Task,
               InitForced(network, why)
        PROVE  FlagsOK'
    BY <1>22, Zenon DEF InitForced, InitTask
  <1>23. CASE ResetRemove
    BY <1>23, Zenon DEF ResetRemove, Present, process
  <1>24. CASE ResetDone
    BY <1>24, Zenon DEF ResetDone, Present, exists, disk
  <1>25. CASE IoError
    BY <1>25, Zenon DEF IoError, ReturnErr, disk
  <1>26. CASE Crash
    BY <1>26, Zenon DEF Crash, disk
  <1>27. CASE UNCHANGED vars
    BY <1>27, Zenon DEF vars, process, disk
  <1> HIDE DEF IInv, FlagsOK
  <1> QED
    BY <1>1, <1>2, <1>3, <1>4, <1>5, <1>6, <1>7, <1>8, <1>9, <1>10, <1>11,
       <1>12, <1>13, <1>14, <1>15, <1>16, <1>17, <1>18, <1>19, <1>20, <1>21,
       <1>22, <1>23, <1>24, <1>25, <1>26, <1>27 DEF Next, Recover, Commit,
       Load, Command

\* Every file a step writes is one its decoder accepts, and the control state
\* stays within the program.
LEMMA DataStep == IInv /\ [Next]_vars => DataOK'
  <1> SUFFICES ASSUME IInv, [Next]_vars PROVE DataOK'
    OBVIOUS
  <1> USE GenesisAssumption, MaxGenAssumption, NoFileAssumption DEF IInv,
     TypeOK, DataOK, ControlInv, framed, encode_snapshot, generation,
     previous_generation, State, Pending, Network, Gen, Framed, Meta,
     Journal, RecoveryAction, CommitPc, LoadPc, Task
  <1>1. CASE RecoverNone
    BY <1>1 DEF RecoverNone, Recovered, disk
  <1>2. CASE RecoverFinalize
    BY <1>2 DEF RecoverFinalize, Recovered, Committed
  <1>3. CASE RecoverRemoveStaged
    BY <1>3 DEF RecoverRemoveStaged, Prepared, process
  <1>4. CASE RecoverRollBack
    BY <1>4 DEF RecoverRollBack, Recovered, Prepared
  <1>5. CASE RecoverFail
    BY <1>5, FailedState DEF RecoverFail, disk
  <1>6. CASE CommitOverflow
    BY <1>6, FailedState DEF CommitOverflow, disk
  <1>7. CASE CommitJournal
    BY <1>7 DEF CommitJournal
  <1>8. CASE CommitSnapshot
    BY <1>8 DEF CommitSnapshot
  <1>9. CASE CommitMeta
    BY <1>9 DEF CommitMeta
  <1>10. CASE CommitFinalize
    BY <1>10 DEF CommitFinalize
  <1>11. CASE CommitPrune
    BY <1>11 DEF CommitPrune, Excess, Present, process
  <1>12. CASE CommitOk
    BY <1>12 DEF CommitOk, disk
  <1>13. ASSUME NEW network \in Network \cup {"none"},
               StartLoad(network)
        PROVE  DataOK'
    BY <1>13 DEF StartLoad, disk
  <1>14. CASE BindNetwork
    BY <1>14 DEF BindNetwork, disk
  <1>15. CASE LoadCommitted
    <2>1. snapshots[meta.generation].payload \in State
      BY <1>15, LoadedState DEF LoadCommitted, Readable
    <2>2. [snapshots[meta.generation].payload EXCEPT !.pending = "empty"]
            \in State
      BY <2>1
    <2> QED
      BY <1>15, <2>1, <2>2 DEF LoadCommitted, BeginSave, disk
  <1>16. CASE LoadLegacy
    BY <1>16 DEF LoadLegacy, BeginSave, LegacyState
  <1>17. CASE LoadFail
    BY <1>17, FailedState DEF LoadFail, disk
  <1>18. CASE LoadReadOnly
    <2>1. snapshots[meta.generation].payload \in State
      BY <1>18, LoadedState DEF LoadReadOnly
    <2> QED
      BY <1>18, <2>1 DEF LoadReadOnly, disk
  <1>19. ASSUME NEW state \in State,
               Save(state)
        PROVE  DataOK'
    BY <1>19 DEF Save, BeginSave, disk
  <1>20. CASE Exit
    BY <1>20 DEF Exit, disk
  <1>21. ASSUME NEW network \in Network, NEW why \in Task,
               InitFresh(network, why)
        PROVE  DataOK'
    BY <1>21 DEF InitFresh, BeginSave, InitTask, disk
  <1>22. ASSUME NEW network \in Network, NEW why \in Task,
               InitForced(network, why)
        PROVE  DataOK'
    BY <1>22 DEF InitForced, InitTask
  <1>23. CASE ResetRemove
    <2>1. meta' \in {meta, NoFile} /\ journal' \in {journal, NoFile}
      BY <1>23 DEF ResetRemove
    <2>2. snapshots' \in [Gen -> Framed \cup {NoFile}]
      BY <1>23 DEF ResetRemove, Present
    <2> QED
      BY <1>23, <2>1, <2>2 DEF ResetRemove, process
  <1>24. CASE ResetDone
    BY <1>24 DEF ResetDone, Present, exists, disk
  <1>25. CASE IoError
    BY <1>25, FailedState DEF IoError, disk
  <1>26. CASE Crash
    BY <1>26 DEF Crash, disk
  <1>27. CASE UNCHANGED vars
    BY <1>27 DEF vars, process, disk
  <1> HIDE DEF IInv, DataOK
  <1> QED
    BY <1>1, <1>2, <1>3, <1>4, <1>5, <1>6, <1>7, <1>8, <1>9, <1>10, <1>11,
       <1>12, <1>13, <1>14, <1>15, <1>16, <1>17, <1>18, <1>19, <1>20, <1>21,
       <1>22, <1>23, <1>24, <1>25, <1>26, <1>27 DEF Next, Recover, Commit,
       Load, Command

\* Every step finds the directory as the step before it left it.
LEMMA ControlStep == IInv /\ [Next]_vars => ControlInv'
  <1> SUFFICES ASSUME IInv, [Next]_vars PROVE ControlInv'
    OBVIOUS
  <1> USE GenesisAssumption, MaxGenAssumption, NoFileAssumption DEF IInv,
     TypeOK, ControlInv, framed, encode_snapshot, generation,
     previous_generation, State, Pending, Network, Gen, Framed, Meta,
     Journal, RecoveryAction, CommitPc, LoadPc, Task
  <1>1. CASE RecoverNone
    BY <1>1 DEF RecoverNone, Recovered, disk
  <1>2. CASE RecoverFinalize
    BY <1>2 DEF RecoverFinalize, Recovered, Committed
  <1>3. CASE RecoverRemoveStaged
    BY <1>3 DEF RecoverRemoveStaged, Prepared, process
  <1>4. CASE RecoverRollBack
    BY <1>4 DEF RecoverRollBack, Recovered, Prepared
  <1>5. CASE RecoverFail
    BY <1>5 DEF RecoverFail, ReturnErr, disk
  <1>6. CASE CommitOverflow
    BY <1>6 DEF CommitOverflow, ReturnErr, disk
  <1>7. CASE CommitJournal
    BY <1>7 DEF CommitJournal
  <1>8. CASE CommitSnapshot
    BY <1>8 DEF CommitSnapshot
  <1>9. CASE CommitMeta
    BY <1>9 DEF CommitMeta
  <1>10. CASE CommitFinalize
    BY <1>10 DEF CommitFinalize
  <1>11. CASE CommitPrune
    BY <1>11 DEF CommitPrune, Excess, Present, process
  <1>12. CASE CommitOk
    BY <1>12 DEF CommitOk, disk
  <1>13. ASSUME NEW network \in Network \cup {"none"},
               StartLoad(network)
        PROVE  ControlInv'
    BY <1>13 DEF StartLoad, disk
  <1>14. CASE BindNetwork
    BY <1>14 DEF BindNetwork, disk
  <1>15. CASE LoadCommitted
    <2>1. snapshots[meta.generation].payload \in State
      BY <1>15, LoadedState DEF LoadCommitted, Readable
    <2> QED
      BY <1>15, <2>1 DEF LoadCommitted, BeginSave, disk
  <1>16. CASE LoadLegacy
    BY <1>16 DEF LoadLegacy, BeginSave, LegacyState
  <1>17. CASE LoadFail
    BY <1>17 DEF LoadFail, ReturnErr, disk
  <1>18. CASE LoadReadOnly
    <2>1. snapshots[meta.generation].payload \in State
      BY <1>18, LoadedState DEF LoadReadOnly
    <2> QED
      BY <1>18, <2>1 DEF LoadReadOnly, disk
  <1>19. ASSUME NEW state \in State,
               Save(state)
        PROVE  ControlInv'
    BY <1>19 DEF Save, BeginSave, disk
  <1>20. CASE Exit
    BY <1>20 DEF Exit, disk
  <1>21. ASSUME NEW network \in Network, NEW why \in Task,
               InitFresh(network, why)
        PROVE  ControlInv'
    BY <1>21 DEF InitFresh, BeginSave, InitTask, disk
  <1>22. ASSUME NEW network \in Network, NEW why \in Task,
               InitForced(network, why)
        PROVE  ControlInv'
    BY <1>22 DEF InitForced, InitTask
  <1>23. CASE ResetRemove
    BY <1>23 DEF ResetRemove, Present, process
  <1>24. CASE ResetDone
    BY <1>24 DEF ResetDone, Present, exists, disk
  <1>25. CASE IoError
    BY <1>25 DEF IoError, ReturnErr, disk
  <1>26. CASE Crash
    BY <1>26 DEF Crash, disk
  <1>27. CASE UNCHANGED vars
    BY <1>27 DEF vars, process, disk
  <1> HIDE DEF IInv, ControlInv
  <1> QED
    BY <1>1, <1>2, <1>3, <1>4, <1>5, <1>6, <1>7, <1>8, <1>9, <1>10, <1>11,
       <1>12, <1>13, <1>14, <1>15, <1>16, <1>17, <1>18, <1>19, <1>20, <1>21,
       <1>22, <1>23, <1>24, <1>25, <1>26, <1>27 DEF Next, Recover, Commit,
       Load, Command

\* Every step leaves a directory that recovery can finish or roll back.
LEMMA DiskStep == IInv /\ [Next]_vars => DiskInv'
  <1> SUFFICES ASSUME IInv, [Next]_vars PROVE DiskInv'
    OBVIOUS
  <1> USE MaxGenAssumption, NoFileAssumption DEF IInv, TypeOK, DiskInv,
     Verified, IdentityMatches, ControlInv, framed, encode_snapshot,
     generation, previous_generation, State, Pending, Network, Gen, Framed,
     Meta, Journal, RecoveryAction, CommitPc, LoadPc, Task
  <1>1. CASE RecoverNone
    BY <1>1 DEF RecoverNone, Recovered, disk
  <1>2. CASE RecoverFinalize
    BY <1>2 DEF RecoverFinalize, Recovered, Committed
  <1>3. CASE RecoverRemoveStaged
    BY <1>3 DEF RecoverRemoveStaged, Prepared, process
  <1>4. CASE RecoverRollBack
    BY <1>4 DEF RecoverRollBack, Recovered, Prepared
  <1>5. CASE RecoverFail
    BY <1>5 DEF RecoverFail, ReturnErr, disk
  <1>6. CASE CommitOverflow
    BY <1>6 DEF CommitOverflow, ReturnErr, disk
  <1>7. CASE CommitJournal
    BY <1>7 DEF CommitJournal
  <1>8. CASE CommitSnapshot
    BY <1>8 DEF CommitSnapshot
  <1>9. CASE CommitMeta
    BY <1>9 DEF CommitMeta
  <1>10. CASE CommitFinalize
    BY <1>10 DEF CommitFinalize
  <1>11. CASE CommitPrune
    BY <1>11 DEF CommitPrune, Excess, Present, process
  <1>12. CASE CommitOk
    BY <1>12 DEF CommitOk, disk
  <1>13. ASSUME NEW network \in Network \cup {"none"},
               StartLoad(network)
        PROVE  DiskInv'
    BY <1>13 DEF StartLoad, disk
  <1>14. CASE BindNetwork
    BY <1>14 DEF BindNetwork, disk
  <1>15. CASE LoadCommitted
    BY <1>15 DEF LoadCommitted, BeginSave, Readable, disk
  <1>16. CASE LoadLegacy
    BY <1>16 DEF LoadLegacy, BeginSave, LegacyState
  <1>17. CASE LoadFail
    BY <1>17 DEF LoadFail, ReturnErr, disk
  <1>18. CASE LoadReadOnly
    BY <1>18 DEF LoadReadOnly, disk
  <1>19. ASSUME NEW state \in State,
               Save(state)
        PROVE  DiskInv'
    BY <1>19 DEF Save, BeginSave, disk
  <1>20. CASE Exit
    BY <1>20 DEF Exit, disk
  <1>21. ASSUME NEW network \in Network, NEW why \in Task,
               InitFresh(network, why)
        PROVE  DiskInv'
    BY <1>21 DEF InitFresh, BeginSave, InitTask, disk
  <1>22. ASSUME NEW network \in Network, NEW why \in Task,
               InitForced(network, why)
        PROVE  DiskInv'
    BY <1>22 DEF InitForced, InitTask
  <1>23. CASE ResetRemove
    BY <1>23 DEF ResetRemove, Present, process
  <1>24. CASE ResetDone
    BY <1>24 DEF ResetDone, Present, exists, disk
  <1>25. CASE IoError
    BY <1>25 DEF IoError, ReturnErr, disk
  <1>26. CASE Crash
    BY <1>26 DEF Crash, disk
  <1>27. CASE UNCHANGED vars
    BY <1>27 DEF vars, process, disk
  <1> HIDE DEF IInv, DiskInv
  <1> QED
    BY <1>1, <1>2, <1>3, <1>4, <1>5, <1>6, <1>7, <1>8, <1>9, <1>10, <1>11,
       <1>12, <1>13, <1>14, <1>15, <1>16, <1>17, <1>18, <1>19, <1>20, <1>21,
       <1>22, <1>23, <1>24, <1>25, <1>26, <1>27 DEF Next, Recover, Commit,
       Load, Command

\* A Mainnet process that keeps running holds the committed state.
LEMMA MemoryStep == IInv /\ [Next]_vars => MainnetMemoryIsDurable'
  <1> SUFFICES ASSUME IInv, [Next]_vars PROVE MainnetMemoryIsDurable'
    OBVIOUS
  <1> USE MaxGenAssumption, NoFileAssumption DEF IInv, TypeOK, DiskInv,
     MainnetMemoryIsDurable, Verified, IdentityMatches, ControlInv, framed,
     encode_snapshot, generation, previous_generation, State, Pending,
     Network, Gen, Framed, Meta, Journal, RecoveryAction, CommitPc, LoadPc,
     Task
  <1>1. CASE RecoverNone
    BY <1>1 DEF RecoverNone, Recovered, disk
  <1>2. CASE RecoverFinalize
    BY <1>2 DEF RecoverFinalize, Recovered, Committed
  <1>3. CASE RecoverRemoveStaged
    BY <1>3 DEF RecoverRemoveStaged, Prepared, process
  <1>4. CASE RecoverRollBack
    BY <1>4 DEF RecoverRollBack, Recovered, Prepared
  <1>5. CASE RecoverFail
    BY <1>5 DEF RecoverFail, ReturnErr, disk
  <1>6. CASE CommitOverflow
    BY <1>6 DEF CommitOverflow, ReturnErr, disk
  <1>7. CASE CommitJournal
    BY <1>7 DEF CommitJournal
  <1>8. CASE CommitSnapshot
    BY <1>8 DEF CommitSnapshot
  <1>9. CASE CommitMeta
    BY <1>9 DEF CommitMeta
  <1>10. CASE CommitFinalize
    BY <1>10 DEF CommitFinalize
  <1>11. CASE CommitPrune
    BY <1>11 DEF CommitPrune, Excess, Present, process
  <1>12. CASE CommitOk
    BY <1>12 DEF CommitOk, disk
  <1>13. ASSUME NEW network \in Network \cup {"none"},
               StartLoad(network)
        PROVE  MainnetMemoryIsDurable'
    BY <1>13 DEF StartLoad, disk
  <1>14. CASE BindNetwork
    BY <1>14 DEF BindNetwork, disk
  <1>15. CASE LoadCommitted
    BY <1>15 DEF LoadCommitted, BeginSave, Readable, disk
  <1>16. CASE LoadLegacy
    BY <1>16 DEF LoadLegacy, BeginSave, LegacyState
  <1>17. CASE LoadFail
    BY <1>17 DEF LoadFail, ReturnErr, disk
  <1>18. CASE LoadReadOnly
    BY <1>18 DEF LoadReadOnly, disk
  <1>19. ASSUME NEW state \in State,
               Save(state)
        PROVE  MainnetMemoryIsDurable'
    BY <1>19 DEF Save, BeginSave, disk
  <1>20. CASE Exit
    BY <1>20 DEF Exit, disk
  <1>21. ASSUME NEW network \in Network, NEW why \in Task,
               InitFresh(network, why)
        PROVE  MainnetMemoryIsDurable'
    BY <1>21 DEF InitFresh, BeginSave, InitTask, disk
  <1>22. ASSUME NEW network \in Network, NEW why \in Task,
               InitForced(network, why)
        PROVE  MainnetMemoryIsDurable'
    BY <1>22 DEF InitForced, InitTask
  <1>23. CASE ResetRemove
    BY <1>23 DEF ResetRemove, Present, process
  <1>24. CASE ResetDone
    BY <1>24 DEF ResetDone, Present, exists, disk
  <1>25. CASE IoError
    BY <1>25 DEF IoError, ReturnErr, disk
  <1>26. CASE Crash
    BY <1>26 DEF Crash, disk
  <1>27. CASE UNCHANGED vars
    BY <1>27 DEF vars, process, disk
  <1> HIDE DEF IInv, MainnetMemoryIsDurable
  <1> QED
    BY <1>1, <1>2, <1>3, <1>4, <1>5, <1>6, <1>7, <1>8, <1>9, <1>10, <1>11,
       <1>12, <1>13, <1>14, <1>15, <1>16, <1>17, <1>18, <1>19, <1>20, <1>21,
       <1>22, <1>23, <1>24, <1>25, <1>26, <1>27 DEF Next, Recover, Commit,
       Load, Command

-----------------------------------------------------------------------------
\* IInv holds in every reachable state.
LEMMA Invariance == Spec => []IInv
  <1>1. Init => IInv
    BY GenesisAssumption, MaxGenAssumption, NoFileAssumption
    DEF Init, IInv, TypeOK, ControlInv, DiskInv, MainnetMemoryIsDurable, Task,
        Network, RecoveryAction, CommitPc, Gen, previous_generation
  <1>2. IInv /\ [Next]_vars => IInv'
    <2> SUFFICES ASSUME IInv, [Next]_vars PROVE IInv'
      OBVIOUS
    <2>1. TypeOK'
      BY FlagsStep, DataStep DEF TypeOK, FlagsOK, DataOK
    <2> QED
      BY <2>1, ControlStep, DiskStep, MemoryStep DEF IInv
  <1> QED
    BY <1>1, <1>2, PTL DEF Spec

\* Every file of the directory decodes, and generation numbers never overflow.
THEOREM TypeCorrect == Spec => []TypeOK
  BY Invariance, PTL DEF IInv

\* The committed snapshot can be read back whenever the program is interrupted.
THEOREM CommittedIsReadable == Spec => []CommittedReadable
  <1>1. IInv => CommittedReadable
    BY DEF IInv, DiskInv, CommittedReadable
  <1> QED
    BY <1>1, Invariance, PTL

\* recover never meets a directory it refuses.
THEOREM RecoveryIsPossible == Spec => []RecoveryPossible
  <1>1. IInv => RecoveryPossible
    BY NoFileAssumption, MaxGenAssumption
    DEF IInv, TypeOK, DiskInv, RecoveryPossible, RecoveryConflict, Committed,
        Prepared, previous_generation, Meta, Journal, Gen
  <1> QED
    BY <1>1, Invariance, PTL

\* A running Mainnet process works on the committed state.
THEOREM MainnetRunsOnCommitted == Spec => []MainnetMemoryIsDurable
  BY Invariance, PTL DEF IInv

-----------------------------------------------------------------------------
\* Once a load has passed BindNetwork, the directory is of its network, or it
\* is empty.
BoundInv ==
  pc \in {"recover", "read"} /\ task = "load" /\ runtime # "none" =>
    IF meta # NoFile
      THEN meta.net = runtime
      ELSE runtime = "mainnet" => journal = NoFile /\ ~root /\ ~archived

\* No step of a load moves it to a directory of the other network.
LEMMA BoundStep == IInv /\ BoundInv /\ [Next]_vars => BoundInv'
  <1> SUFFICES ASSUME IInv /\ BoundInv, [Next]_vars PROVE BoundInv'
    OBVIOUS
  <1> USE DEF IInv, TypeOK, ControlInv, BoundInv, Refused, CommitPc,
     Network, Task
  <1>1. CASE RecoverNone
    BY <1>1 DEF RecoverNone, Recovered, disk
  <1>2. CASE RecoverFinalize
    BY <1>2 DEF RecoverFinalize, Recovered, Committed
  <1>3. CASE RecoverRemoveStaged
    BY <1>3 DEF RecoverRemoveStaged, Prepared, process
  <1>4. CASE RecoverRollBack
    BY <1>4 DEF RecoverRollBack, Recovered, Prepared
  <1>5. CASE RecoverFail
    BY <1>5 DEF RecoverFail, ReturnErr, disk
  <1>6. CASE CommitOverflow
    BY <1>6 DEF CommitOverflow, ReturnErr, disk
  <1>7. CASE CommitJournal
    BY <1>7 DEF CommitJournal
  <1>8. CASE CommitSnapshot
    BY <1>8 DEF CommitSnapshot
  <1>9. CASE CommitMeta
    BY <1>9 DEF CommitMeta
  <1>10. CASE CommitFinalize
    BY <1>10 DEF CommitFinalize
  <1>11. CASE CommitPrune
    BY <1>11 DEF CommitPrune, Excess, Present, process
  <1>12. CASE CommitOk
    BY <1>12 DEF CommitOk, disk
  <1>13. ASSUME NEW network \in Network \cup {"none"},
               StartLoad(network)
        PROVE  BoundInv'
    BY <1>13 DEF StartLoad, disk
  <1>14. CASE BindNetwork
    BY <1>14 DEF BindNetwork, disk
  <1>15. CASE LoadCommitted
    BY <1>15 DEF LoadCommitted, BeginSave, Readable, disk
  <1>16. CASE LoadLegacy
    BY <1>16 DEF LoadLegacy, BeginSave, LegacyState
  <1>17. CASE LoadFail
    BY <1>17 DEF LoadFail, ReturnErr, disk
  <1>18. CASE LoadReadOnly
    BY <1>18 DEF LoadReadOnly, disk
  <1>19. ASSUME NEW state \in State,
               Save(state)
        PROVE  BoundInv'
    BY <1>19 DEF Save, BeginSave, disk
  <1>20. CASE Exit
    BY <1>20 DEF Exit, disk
  <1>21. ASSUME NEW network \in Network, NEW why \in Task,
               InitFresh(network, why)
        PROVE  BoundInv'
    BY <1>21 DEF InitFresh, BeginSave, InitTask, disk
  <1>22. ASSUME NEW network \in Network, NEW why \in Task,
               InitForced(network, why)
        PROVE  BoundInv'
    BY <1>22 DEF InitForced, InitTask
  <1>23. CASE ResetRemove
    BY <1>23 DEF ResetRemove, Present, process
  <1>24. CASE ResetDone
    BY <1>24 DEF ResetDone, Present, exists, disk
  <1>25. CASE IoError
    BY <1>25 DEF IoError, ReturnErr, disk
  <1>26. CASE Crash
    BY <1>26 DEF Crash, disk
  <1>27. CASE UNCHANGED vars
    BY <1>27 DEF vars, process, disk
  <1> HIDE DEF IInv, BoundInv
  <1> QED
    BY <1>1, <1>2, <1>3, <1>4, <1>5, <1>6, <1>7, <1>8, <1>9, <1>10, <1>11,
       <1>12, <1>13, <1>14, <1>15, <1>16, <1>17, <1>18, <1>19, <1>20, <1>21,
       <1>22, <1>23, <1>24, <1>25, <1>26, <1>27 DEF Next, Recover, Commit,
       Load, Command

\* A load for one network never writes to a directory of the other one.
THEOREM ForeignIsUntouched == Spec => ForeignStorageUntouched
  <1> DEFINE Foreign ==
        /\ pc \in LoadPc /\ task = "load"
        /\ runtime # "none"
        /\ IF meta # NoFile THEN meta.net # runtime ELSE runtime = "mainnet"
  <1>1. Init => BoundInv
    BY DEF Init, BoundInv
  <1>2. IInv /\ BoundInv /\ [Next]_vars => (Foreign => UNCHANGED disk)
    <2> SUFFICES ASSUME IInv, BoundInv, [Next]_vars, Foreign
                 PROVE  UNCHANGED disk
      OBVIOUS
    <2>1. CASE pc = "bind"
      BY <2>1
        DEF Next, Recover, Commit, Load, Command, IoError, Crash, CommitPc,
            RecoverNone, RecoverFinalize, RecoverRemoveStaged, RecoverRollBack,
            RecoverFail, CommitOverflow, CommitJournal, CommitSnapshot,
            CommitMeta, CommitFinalize, CommitPrune, CommitOk, StartLoad,
            BindNetwork, LoadCommitted, LoadLegacy, LegacyState, LoadFail,
            LoadReadOnly, Save, Exit, InitFresh, InitForced, ResetRemove,
            ResetDone, vars, disk
    <2>2. CASE pc # "bind"
      <3>1. meta = NoFile /\ journal = NoFile /\ runtime = "mainnet"
        BY <2>2 DEF BoundInv, LoadPc
      <3>2. pc \in {"recover", "read"}
        BY <2>2 DEF LoadPc
      <3> QED
        BY <3>1, <3>2
        DEF Next, Recover, Commit, Load, Command, IoError, Crash, CommitPc,
            RecoverNone, RecoverFinalize, RecoverRemoveStaged, RecoverRollBack,
            RecoverFail, CommitOverflow, CommitJournal, CommitSnapshot,
            CommitMeta, CommitFinalize, CommitPrune, CommitOk, StartLoad,
            BindNetwork, LoadCommitted, LoadLegacy, LegacyState, LoadFail,
            LoadReadOnly, Save, Exit, InitFresh, InitForced, ResetRemove,
            ResetDone, vars, disk
    <2> QED
      BY <2>1, <2>2
  <1> QED
    BY <1>1, <1>2, Invariance, BoundStep, PTL DEF Spec, ForeignStorageUntouched

\* Every step of the program is a step of the atomic store, or invisible to it.
LEMMA AtomicStep ==
  IInv /\ [Next]_vars => [Atomic!Next]_<<durable, writing, dirty>>
  <1> SUFFICES ASSUME IInv, [Next]_vars
               PROVE  [Atomic!Next]_<<durable, writing, dirty>>
    OBVIOUS
  <1> USE GenesisAssumption, NoFileAssumption DEF IInv, ControlInv, durable,
     writing, CommitPc, Atomic!Next, Atomic!Begin, Atomic!Install,
     Atomic!Abandon, Atomic!Wipe, Atomic!Wiped
  <1>1. CASE RecoverNone
    BY <1>1 DEF RecoverNone, Recovered, disk
  <1>2. CASE RecoverFinalize
    BY <1>2 DEF RecoverFinalize, Recovered, Committed
  <1>3. CASE RecoverRemoveStaged
    BY <1>3 DEF RecoverRemoveStaged, Prepared, process
  <1>4. CASE RecoverRollBack
    BY <1>4 DEF RecoverRollBack, Recovered, Prepared
  <1>5. CASE RecoverFail
    BY <1>5 DEF RecoverFail, ReturnErr, disk, State, Network, Pending
  <1>6. CASE CommitOverflow
    BY <1>6 DEF CommitOverflow, ReturnErr, disk
  <1>7. CASE CommitJournal
    BY <1>7 DEF CommitJournal
  <1>8. CASE CommitSnapshot
    BY <1>8, MaxGenAssumption
    DEF CommitSnapshot, TypeOK, Gen, Meta, generation, previous_generation
  <1>9. CASE CommitMeta
    <2>1. writing = arg /\ arg # NoFile /\ writing' = NoFile
      BY <1>9 DEF CommitMeta
    <2>2. meta' # NoFile /\ meta'.generation = generation
      BY <1>9, MaxGenAssumption
      DEF CommitMeta, TypeOK, Meta, Gen, State, Framed, framed, generation,
          previous_generation, encode_snapshot, Network
    <2>3. snapshots'[generation].payload = arg
      BY <1>9 DEF CommitMeta, framed, encode_snapshot
    <2>4. dirty' = dirty
      BY <1>9 DEF CommitMeta
    <2>5. CASE dirty
      <3>1. durable = NoFile /\ durable' = NoFile
        BY <2>4, <2>5, Zenon DEF durable
      <3> HIDE DEF IInv, durable, writing
      <3> QED
        BY <2>1, <2>4, <3>1 DEF Atomic!Next, Atomic!Abandon
    <2>6. CASE ~dirty
      <3>1. durable' = arg
        BY <2>2, <2>3, <2>4, <2>6, Zenon DEF durable
      <3> HIDE DEF IInv, durable, writing
      <3> QED
        BY <2>1, <2>4, <3>1 DEF Atomic!Next, Atomic!Install
    <2> QED
      BY <2>5, <2>6, Zenon
  <1>10. CASE CommitFinalize
    BY <1>10 DEF CommitFinalize
  <1>11. CASE CommitPrune
    BY <1>11 DEF CommitPrune, Excess, Present, process
  <1>12. CASE CommitOk
    <2>1. UNCHANGED <<meta, snapshots, dirty>>
      BY <1>12 DEF CommitOk, disk
    <2>2. UNCHANGED durable
      BY <2>1 DEF durable
    <2>3. writing = NoFile
      BY <1>12 DEF CommitOk
    <2>4. CASE task = "init1"
      <3>1. writing' \in State
        BY <1>12, <2>4 DEF CommitOk, State, Pending
      <3> HIDE DEF IInv, durable, writing
      <3> QED
        BY <2>1, <2>2, <2>3, <3>1 DEF Atomic!Next, Atomic!Begin
    <2>5. CASE task # "init1"
      <3>1. writing' = NoFile
        BY <1>12, <2>5 DEF CommitOk
      <3> HIDE DEF IInv, durable, writing
      <3> QED
        BY <2>1, <2>2, <2>3, <3>1
    <2> QED
      BY <2>4, <2>5, Zenon
  <1>13. ASSUME NEW network \in Network \cup {"none"},
               StartLoad(network)
        PROVE  [Atomic!Next]_<<durable, writing, dirty>>
    BY <1>13 DEF StartLoad, disk
  <1>14. CASE BindNetwork
    BY <1>14 DEF BindNetwork, disk
  <1>15. CASE LoadCommitted
    BY <1>15, LoadedState
    DEF LoadCommitted, BeginSave, Readable, disk, State, Pending
  <1>16. CASE LoadLegacy
    BY <1>16 DEF LoadLegacy, BeginSave, LegacyState, State, Pending, Network
  <1>17. CASE LoadFail
    BY <1>17 DEF LoadFail, ReturnErr, disk
  <1>18. CASE LoadReadOnly
    BY <1>18 DEF LoadReadOnly, disk
  <1>19. ASSUME NEW state \in State,
               Save(state)
        PROVE  [Atomic!Next]_<<durable, writing, dirty>>
    BY <1>19 DEF Save, BeginSave, disk
  <1>20. CASE Exit
    BY <1>20 DEF Exit, disk
  <1>21. ASSUME NEW network \in Network, NEW why \in Task,
               InitFresh(network, why)
        PROVE  [Atomic!Next]_<<durable, writing, dirty>>
    BY <1>21 DEF InitFresh, BeginSave, InitTask, disk, State, Pending, Network
  <1>22. ASSUME NEW network \in Network, NEW why \in Task,
               InitForced(network, why)
        PROVE  [Atomic!Next]_<<durable, writing, dirty>>
    BY <1>22 DEF InitForced, InitTask
  <1>23. CASE ResetRemove
    BY <1>23 DEF ResetRemove, Present, process
  <1>24. CASE ResetDone
    BY <1>24 DEF ResetDone, Present, exists, disk, State, Pending, Network
  <1>25. CASE IoError
    BY <1>25 DEF IoError, ReturnErr, disk, State, Pending, Network
  <1>26. CASE Crash
    BY <1>26 DEF Crash, disk
  <1>27. CASE UNCHANGED vars
    BY <1>27 DEF vars, process, disk
  <1> HIDE DEF IInv, ControlInv, durable, writing, CommitPc, Atomic!Next,
     Atomic!Begin, Atomic!Install, Atomic!Abandon, Atomic!Wipe, Atomic!Wiped
  <1> QED
    BY <1>1, <1>2, <1>3, <1>4, <1>5, <1>6, <1>7, <1>8, <1>9, <1>10, <1>11,
       <1>12, <1>13, <1>14, <1>15, <1>16, <1>17, <1>18, <1>19, <1>20, <1>21,
       <1>22, <1>23, <1>24, <1>25, <1>26, <1>27 DEF Next, Recover, Commit,
       Load, Command

\* The journalled commit protocol implements the atomic store.
THEOREM StorageIsAtomic == Spec => CommitIsAtomic
  <1>1. Init => Atomic!Init
    BY DEF Init, Atomic!Init, durable, writing
  <1> QED
    BY <1>1, AtomicStep, Invariance, PTL
    DEF Spec, CommitIsAtomic, Atomic!Spec
=============================================================================
