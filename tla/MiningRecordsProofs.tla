------------------------ MODULE MiningRecordsProofs -------------------------
(***************************************************************************)
(* Proofs about the two records that keep a miner from doing a thing twice: *)
(* the ledger of worker tickets, for every budget W, every set of           *)
(* authorities and sessions, and every number of restarts; and the mining   *)
(* signer, for any number of processes, licenses and cores.                 *)
(***************************************************************************)
EXTENDS WorkerLedger, MiningSigner, TLAPS

-----------------------------------------------------------------------------
(* The ledger of tickets.                                                   *)

Untouched == sent = {} /\ blocks = {}

\* A ledger that knows everything that was transmitted and accepted, and in
\* which no ticket has two assignments.
Good(l) ==
  /\ \A s \in sent : Knows(l, s)
  /\ \A q, r \in l : q.ticket = r.ticket => q.assignment = r.assignment
  /\ \A a \in blocks :
       \E r \in l : r.assignment = a /\ r.status = "CANDIDATE_WIN"

HasAssignment(l) == \E r \in l : r.assignment = assignment

Dispatching ==
  \/ pc \in {"reserved", "sent", "result"}
  \/ pc \in CommitPc /\ ret # "idle"

\* What is on disk compared with what the command holds in memory.
FilesInv ==
  /\ pc = "down" =>
       IF load_recover # NoFile THEN Good(load_recover.records) ELSE Untouched
  /\ pc \in {"idle", "reserved", "sent", "result"} =>
       load_recover # NoFile /\ load_recover.records = ledger
  /\ pc \in {"reserved", "sent", "result"} => cur # NoFile
  /\ pc = "drop_prev" =>
       IF load_recover # NoFile THEN load_recover.records = ledger
                                ELSE Untouched
  /\ pc = "rename_cur" =>
       /\ prev = NoFile
       /\ cur # NoFile => cur.records = ledger
       /\ cur = NoFile => windows >= 1 \/ Untouched
  /\ pc = "rename_next" =>
       /\ cur = NoFile
       /\ prev # NoFile => prev.records = ledger
       /\ prev = NoFile => windows >= 1 \/ Untouched
  /\ cur = NoFile /\ pc # "rename_next" => windows >= 1 \/ Untouched

\* What the command holds in memory.
MemoryInv ==
  /\ pc # "down" => Good(ledger)
  /\ pc \in CommitPc => Good(candidate)
  /\ Dispatching => assignment \notin blocks
  /\ pc \in {"reserved", "sent", "result"} => HasAssignment(ledger)
  /\ pc \in CommitPc /\ ret # "idle" => HasAssignment(candidate)
  /\ pc = "reserved" => Knows(ledger, <<assignment, ticket>>)
  /\ pc \in CommitPc /\ ret = "reserved" =>
       Knows(candidate, <<assignment, ticket>>)

IInv == TypeOK /\ (windows <= 1 => FilesInv /\ MemoryInv)

-----------------------------------------------------------------------------
\* update_status_and_persist changes nothing but the status of one record.
LEMMA WithStatusRecords ==
  ASSUME NEW l \in Ledger, NEW a \in Assignment, NEW s \in Status
  PROVE  /\ WithStatus(l, a, s) \in Ledger
         /\ \A r \in l : \E q \in WithStatus(l, a, s) :
              /\ q.assignment = r.assignment
              /\ q.ticket = r.ticket
              /\ r.assignment # a => q.status = r.status
         /\ \A q \in WithStatus(l, a, s) : \E r \in l :
              q.assignment = r.assignment /\ q.ticket = r.ticket
  <1> DEFINE Upd(r) == IF r.assignment = a THEN [r EXCEPT !.status = s] ELSE r
  <1>1. \A r \in l : /\ Upd(r) \in Record
                     /\ Upd(r).assignment = r.assignment
                     /\ Upd(r).ticket = r.ticket
                     /\ r.assignment # a => Upd(r).status = r.status
    BY DEF Ledger, Record
  <1>2. WithStatus(l, a, s) = {Upd(r) : r \in l}
    BY DEF WithStatus
  <1> HIDE DEF Upd
  <1> QED
    BY <1>1, <1>2 DEF Ledger

\* A good ledger stays good when the status of an assignment that did not
\* become a block is updated.
LEMMA WithStatusGood ==
  ASSUME NEW l \in Ledger, NEW a \in Assignment, NEW s \in Status,
         Good(l), a \notin blocks
  PROVE  Good(WithStatus(l, a, s))
  <1> DEFINE m == WithStatus(l, a, s)
  <1>1. /\ \A r \in l : \E q \in m :
             /\ q.assignment = r.assignment
             /\ q.ticket = r.ticket
             /\ r.assignment # a => q.status = r.status
        /\ \A q \in m : \E r \in l :
             q.assignment = r.assignment /\ q.ticket = r.ticket
    BY WithStatusRecords
  <1> HIDE DEF m
  <1>2. \A t \in sent : Knows(m, t)
    BY <1>1 DEF Good, Knows
  <1>3. \A q, r \in m : q.ticket = r.ticket => q.assignment = r.assignment
    BY <1>1 DEF Good
  <1>4. \A b \in blocks :
          \E r \in m : r.assignment = b /\ r.status = "CANDIDATE_WIN"
    BY <1>1 DEF Good
  <1> QED
    BY <1>2, <1>3, <1>4 DEF Good, m

\* A good ledger stays good when a ticket it does not know is reserved.
LEMMA ReserveGood ==
  ASSUME NEW l \in Ledger, NEW r \in Record, Good(l),
         ~ticket_seen(l, r.ticket)
  PROVE  Good(l \cup {r})
  BY DEF Good, Knows, ticket_seen

\* A status update forgets no assignment and no ticket.
LEMMA WithStatusKeeps ==
  ASSUME NEW l \in Ledger, NEW s \in Status, assignment \in Assignment
  PROVE  /\ HasAssignment(l) => HasAssignment(WithStatus(l, assignment, s))
         /\ \A p : Knows(l, p) => Knows(WithStatus(l, assignment, s), p)
  <1> DEFINE m == WithStatus(l, assignment, s)
  <1>1. \A r \in l : \E q \in m :
          q.assignment = r.assignment /\ q.ticket = r.ticket
    BY WithStatusRecords
  <1> HIDE DEF m
  <1>2. HasAssignment(l) => HasAssignment(m)
    BY <1>1 DEF HasAssignment
  <1>3. \A p : Knows(l, p) => Knows(m, p)
    BY <1>1 DEF Knows
  <1> QED
    BY <1>2, <1>3 DEF m

-----------------------------------------------------------------------------
\* Every step keeps the types; no ticket index reaches W.
LEMMA TypeStep ==
  ASSUME TypeOK, [Next]_vars PROVE TypeOK'
  <1> USE NoFileAssumption, WAssumption, CrashBudgetAssumption DEF TypeOK,
     File, CommitPc, ReturnPc
  <1>1. CASE Open
    BY <1>1 DEF Open, BeginCommit, load_recover, Ledger, files
  <1>2. CASE CommitDropPrev
    BY <1>2 DEF CommitDropPrev, files, local
  <1>3. CASE CommitRenameCur
    BY <1>3 DEF CommitRenameCur, files, local
  <1>4. CASE CommitRenameNext
    BY <1>4 DEF CommitRenameNext, files, local
  <1>5. CASE CommitUndo
    BY <1>5 DEF CommitUndo, EndCommand, files, local
  <1>6. ASSUME NEW a \in Assignment, Reserve(a)
        PROVE  TypeOK'
    <2>1. ticket' \in TicketKey
      BY <1>6 DEF Reserve, Unissued, TicketKey
    <2>2. [assignment |-> a, ticket |-> ticket', status |-> "RESERVED"]
            \in Record
      BY <2>1 DEF Record, Status
    <2> QED
      BY <1>6, <2>1, <2>2 DEF Reserve, BeginCommit, Ledger, files
  <1>7. CASE AllIssued
    BY <1>7 DEF AllIssued, files, local
  <1>8. CASE Transmit
    <2>1. WithStatus(ledger, assignment, "SENT") \in Ledger
      BY WithStatusRecords DEF Status
    <2> QED
      BY <1>8, <2>1 DEF Transmit, BeginCommit, files
  <1>9. ASSUME NEW status \in {"COMPLETED_NO_WIN", "CANDIDATE_WIN"},
               Result(status)
        PROVE  TypeOK'
    <2>1. WithStatus(ledger, assignment, status) \in Ledger
      BY WithStatusRecords DEF Status
    <2> QED
      BY <1>9, <2>1 DEF Result, BeginCommit, files
  <1>10. CASE FinalizeNoWin
    BY <1>10 DEF FinalizeNoWin, files, local
  <1>11. CASE FinalizeWin
    BY <1>11 DEF FinalizeWin, files, local
  <1>12. CASE FinalizeFalseWin
    <2>1. WithStatus(ledger, assignment, "INVALID_WIN") \in Ledger
      BY WithStatusRecords DEF Status
    <2> QED
      BY <1>12, <2>1 DEF FinalizeFalseWin, BeginCommit, files
  <1>13. CASE SwitchBranch
    BY <1>13 DEF SwitchBranch, files, local
  <1>14. CASE Crash
    BY <1>14 DEF Crash, EndCommand, files, local
  <1>15. CASE UNCHANGED vars
    BY <1>15 DEF vars, files, local
  <1> QED
    BY <1>1, <1>2, <1>3, <1>4, <1>5, <1>6, <1>7, <1>8, <1>9, <1>10, <1>11,
       <1>12, <1>13, <1>14, <1>15 DEF Next, Commit, Dispatch

\* Every step leaves a good ledger where the next command looks for it.
LEMMA FilesStep ==
  ASSUME TypeOK, TypeOK', FilesInv, MemoryInv, windows' <= 1, [Next]_vars
  PROVE  FilesInv'
  <1> USE NoFileAssumption DEF TypeOK, FilesInv, MemoryInv, load_recover,
     Good, Knows, Untouched, File, CommitPc, ReturnPc
  <1>1. CASE Open
    BY <1>1 DEF Open, BeginCommit, files, local
  <1>2. CASE CommitDropPrev
    BY <1>2 DEF CommitDropPrev, files, local
  <1>3. CASE CommitRenameCur
    BY <1>3 DEF CommitRenameCur, files, local
  <1>4. CASE CommitRenameNext
    BY <1>4 DEF CommitRenameNext, files, local
  <1>5. CASE CommitUndo
    BY <1>5 DEF CommitUndo, EndCommand, files, local
  <1>6. ASSUME NEW a \in Assignment, Reserve(a)
        PROVE  FilesInv'
    BY <1>6 DEF Reserve, BeginCommit, files, local
  <1>7. CASE AllIssued
    BY <1>7 DEF AllIssued, files, local
  <1>8. CASE Transmit
    BY <1>8 DEF Transmit, BeginCommit, files, local
  <1>9. ASSUME NEW status \in {"COMPLETED_NO_WIN", "CANDIDATE_WIN"},
               Result(status)
        PROVE  FilesInv'
    BY <1>9 DEF Result, BeginCommit, files, local
  <1>10. CASE FinalizeNoWin
    BY <1>10 DEF FinalizeNoWin, files, local
  <1>11. CASE FinalizeWin
    <2>1. \E r \in ledger :
             r.assignment = assignment /\ r.status = "CANDIDATE_WIN"
      BY <1>11 DEF FinalizeWin, HasAssignment, ledger_status
    <2> QED
      BY <1>11, <2>1 DEF FinalizeWin, files, local
  <1>12. CASE FinalizeFalseWin
    BY <1>12 DEF FinalizeFalseWin, BeginCommit, files, local
  <1>13. CASE SwitchBranch
    BY <1>13 DEF SwitchBranch, files, local
  <1>14. CASE Crash
    BY <1>14 DEF Crash, EndCommand, files, local
  <1>15. CASE UNCHANGED vars
    BY <1>15 DEF vars, files, local
  <1> QED
    BY <1>1, <1>2, <1>3, <1>4, <1>5, <1>6, <1>7, <1>8, <1>9, <1>10, <1>11,
       <1>12, <1>13, <1>14, <1>15 DEF Next, Commit, Dispatch

\* Once two commands in a row ended between the renames, that is remembered.
LEMMA WindowsStep ==
  ASSUME TypeOK, [Next]_vars PROVE windows' <= 1 => windows <= 1
  <1> USE DEF TypeOK
  <1>1. CASE Open
    BY <1>1 DEF Open, BeginCommit, files, local
  <1>2. CASE CommitDropPrev
    BY <1>2 DEF CommitDropPrev, files, local
  <1>3. CASE CommitRenameCur
    BY <1>3 DEF CommitRenameCur, files, local
  <1>4. CASE CommitRenameNext
    BY <1>4 DEF CommitRenameNext, files, local
  <1>5. CASE CommitUndo
    BY <1>5 DEF CommitUndo, EndCommand, files, local
  <1>6. ASSUME NEW a \in Assignment, Reserve(a)
        PROVE  windows' <= 1 => windows <= 1
    BY <1>6 DEF Reserve, BeginCommit, files, local
  <1>7. CASE AllIssued
    BY <1>7 DEF AllIssued, files, local
  <1>8. CASE Transmit
    BY <1>8 DEF Transmit, BeginCommit, files, local
  <1>9. ASSUME NEW status \in {"COMPLETED_NO_WIN", "CANDIDATE_WIN"},
               Result(status)
        PROVE  windows' <= 1 => windows <= 1
    BY <1>9 DEF Result, BeginCommit, files, local
  <1>10. CASE FinalizeNoWin
    BY <1>10 DEF FinalizeNoWin, files, local
  <1>11. CASE FinalizeWin
    BY <1>11 DEF FinalizeWin, files, local
  <1>12. CASE FinalizeFalseWin
    BY <1>12 DEF FinalizeFalseWin, BeginCommit, files, local
  <1>13. CASE SwitchBranch
    BY <1>13 DEF SwitchBranch, files, local
  <1>14. CASE Crash
    BY <1>14 DEF Crash, EndCommand, files, local
  <1>15. CASE UNCHANGED vars
    BY <1>15 DEF vars, files, local
  <1> QED
    BY <1>1, <1>2, <1>3, <1>4, <1>5, <1>6, <1>7, <1>8, <1>9, <1>10, <1>11,
       <1>12, <1>13, <1>14, <1>15 DEF Next, Commit, Dispatch

\* Every step keeps the ledgers in memory good.
LEMMA MemoryStep ==
  ASSUME TypeOK, TypeOK', FilesInv, MemoryInv, windows' <= 1, [Next]_vars
  PROVE  MemoryInv'
  <1> USE NoFileAssumption DEF TypeOK, MemoryInv, Dispatching, CommitPc,
     ReturnPc
  <1>1. CASE Open
    BY <1>1 DEF Open, BeginCommit, FilesInv, Untouched, Good, Knows,
       HasAssignment, load_recover
  <1>2. CASE CommitDropPrev
    BY <1>2 DEF CommitDropPrev, local, Good, Knows, HasAssignment
  <1>3. CASE CommitRenameCur
    BY <1>3 DEF CommitRenameCur, local, Good, Knows, HasAssignment
  <1>4. CASE CommitRenameNext
    BY <1>4 DEF CommitRenameNext, local, Good, Knows, HasAssignment
  <1>5. CASE CommitUndo
    BY <1>5 DEF CommitUndo, EndCommand, files, local
  <1>6. ASSUME NEW a \in Assignment, Reserve(a)
        PROVE  MemoryInv'
    <2> DEFINE r == [assignment |-> a, ticket |-> ticket',
                     status |-> "RESERVED"]
    <2>1. r \in Record /\ r.ticket = ticket' /\ r.assignment = a
      BY <1>6 DEF Record, Status
    <2>2. ~ticket_seen(ledger, ticket')
      BY <1>6 DEF Reserve, Unissued
    <2>3. Good(ledger \cup {r})
      BY <1>6, <2>1, <2>2, ReserveGood DEF Reserve
    <2>4. a \notin blocks
      BY <1>6 DEF Reserve, Fresh, Good
    <2>5. pc' = "drop_prev" /\ ret' = "reserved" /\ assignment' = a
            /\ ledger' = ledger /\ sent' = sent /\ blocks' = blocks
            /\ candidate' = ledger \cup {r}
      BY <1>6 DEF Reserve, BeginCommit
    <2>6. Good(ledger)
      BY <1>6 DEF Reserve
    <2> HIDE DEF r
    <2> QED
      BY <2>1, <2>3, <2>4, <2>5, <2>6 DEF Good, HasAssignment, Knows
  <1>7. CASE AllIssued
    BY <1>7 DEF AllIssued, local, Good, Knows, HasAssignment
  <1>8. CASE Transmit
    <2>1. Good(WithStatus(ledger, assignment, "SENT"))
      BY <1>8, WithStatusGood DEF Transmit, Status, Dispatching
    <2>2. HasAssignment(WithStatus(ledger, assignment, "SENT"))
      BY <1>8, WithStatusKeeps DEF Transmit, Status, FilesInv
    <2>3. Knows(WithStatus(ledger, assignment, "SENT"), <<assignment, ticket>>)
      BY <1>8, WithStatusKeeps DEF Transmit, Status
    <2> QED
      BY <1>8, <2>1, <2>2, <2>3 DEF Transmit, BeginCommit, Good, HasAssignment,
         Knows
  <1>9. ASSUME NEW status \in {"COMPLETED_NO_WIN", "CANDIDATE_WIN"},
               Result(status)
        PROVE  MemoryInv'
    <2>1. Good(WithStatus(ledger, assignment, status))
      BY <1>9, WithStatusGood DEF Result, Status, Dispatching
    <2>2. HasAssignment(WithStatus(ledger, assignment, status))
      BY <1>9, WithStatusKeeps DEF Result, Status, FilesInv
    <2> QED
      BY <1>9, <2>1, <2>2 DEF Result, BeginCommit, Good, HasAssignment, Knows
  <1>10. CASE FinalizeNoWin
    BY <1>10 DEF FinalizeNoWin, files, local
  <1>11. CASE FinalizeWin
    BY <1>11 DEF FinalizeWin, files, local
  <1>12. CASE FinalizeFalseWin
    <2>1. Good(WithStatus(ledger, assignment, "INVALID_WIN"))
      BY <1>12, WithStatusGood DEF FinalizeFalseWin, Status, Dispatching
    <2>2. HasAssignment(WithStatus(ledger, assignment, "INVALID_WIN"))
      BY <1>12, WithStatusKeeps DEF FinalizeFalseWin, Status, FilesInv
    <2> QED
      BY <1>12, <2>1, <2>2 DEF FinalizeFalseWin, BeginCommit, Good,
         HasAssignment, Knows
  <1>13. CASE SwitchBranch
    BY <1>13 DEF SwitchBranch, files, local
  <1>14. CASE Crash
    BY <1>14 DEF Crash, EndCommand, files, local
  <1>15. CASE UNCHANGED vars
    BY <1>15 DEF vars, files, local, Good, Knows, HasAssignment
  <1> QED
    BY <1>1, <1>2, <1>3, <1>4, <1>5, <1>6, <1>7, <1>8, <1>9, <1>10, <1>11,
       <1>12, <1>13, <1>14, <1>15 DEF Next, Commit, Dispatch

-----------------------------------------------------------------------------
\* IInv holds in every reachable state.
LEMMA Invariance == Spec => []IInv
  <1>1. Init => IInv
    BY NoFileAssumption DEF Init, IInv, TypeOK, FilesInv, MemoryInv, Untouched,
       Dispatching, load_recover, Ledger, CommitPc, ReturnPc
  <1>2. IInv /\ [Next]_vars => IInv'
    <2> SUFFICES ASSUME IInv, [Next]_vars PROVE IInv'
      OBVIOUS
    <2>1. TypeOK'
      BY TypeStep DEF IInv
    <2>2. windows' <= 1 => windows <= 1
      BY WindowsStep DEF IInv
    <2> QED
      BY <2>1, <2>2, FilesStep, MemoryStep DEF IInv
  <1> QED
    BY <1>1, <1>2, PTL DEF Spec

\* No ticket outside the frozen work budget is ever reserved or transmitted.
THEOREM TypeCorrect == Spec => []TypeOK
  BY Invariance, PTL DEF IInv

\* Whatever was transmitted is in the ledger the next command opens.
THEOREM NeverForgets == Spec => []LedgerNeverForgets
  <1>1. IInv => LedgerNeverForgets
    BY DEF IInv, FilesInv, LedgerNeverForgets, Good, Untouched
  <1> QED
    BY <1>1, Invariance, PTL

\* No ticket is transmitted in two assignments.
THEOREM BudgetIsKept == Spec => []NoTicketSentTwice
  <1>1. ASSUME IInv PROVE NoTicketSentTwice
    <2> SUFFICES ASSUME windows <= 1, NEW s \in sent, NEW t \in sent,
                        s[2] = t[2]
                 PROVE  s = t
      BY DEF NoTicketSentTwice
    <2>1. PICK l : Good(l)
      BY <1>1 DEF IInv, FilesInv, MemoryInv, Untouched
    <2>2. s[1] = t[1]
      BY <2>1 DEF Good, Knows
    <2> QED
      BY <1>1, <2>2 DEF IInv, TypeOK
  <1> QED
    BY <1>1, Invariance, PTL

\* Every accepted block has its CANDIDATE_WIN record on disk.
THEOREM BlocksHaveCandidates == Spec => []BlockHasCandidate
  <1>1. IInv => BlockHasCandidate
    BY DEF IInv, FilesInv, BlockHasCandidate, Good, Untouched
  <1> QED
    BY <1>1, Invariance, PTL

-----------------------------------------------------------------------------
(* The mining signer.                                                       *)

\* What is on disk never differs from what is shown except where it lacks a
\* file that is still accompanied by its `.pending` file.
DirectoryInv ==
  /\ \A n \in Name : finalDisk[n] \in {NoContent, final[n]}
  /\ \A n \in Name \ pending : finalDisk[n] = final[n]
  /\ \A s \in Scope : final[s] # NoContent =>
       /\ final[s] \in Core
       /\ final[s].scope = s
       /\ finalDisk["authority"] = final[s].license

\* Only the owner of the lock is up, and how far its commit has come.
ProcessInv ==
  \A p \in Proc :
    /\ up[p] # "down" => lock = p
    /\ up[p] = "down" => step[p] = "none" /\ ready[p] = {}
    /\ up[p] = "open" => finalDisk["authority"] = bound[p]
    /\ p \in failed => step[p] = "none"
    /\ up[p] = "opening" =>
         /\ p \notin failed
         /\ step[p] \notin {"none", "lookup"}
         /\ job[p].name = "authority" /\ job[p].content = bound[p]
         /\ \A s \in Scope : final[s] = NoContent
         /\ ready[p] = {}
    /\ up[p] = "open" /\ step[p] # "none" =>
         /\ job[p].content \in Core
         /\ job[p].name = job[p].content.scope
         /\ job[p].content.license = bound[p]
    /\ up[p] # "down" /\ p \notin failed =>
         pending = IF step[p] \in {"link", "sync_link", "unlink"}
                     THEN {job[p].name} ELSE {}
    /\ step[p] \in {"sync_link", "unlink", "sync_unlink"} =>
         final[job[p].name] = job[p].content
    /\ step[p] \in {"unlink", "sync_unlink"} =>
         finalDisk[job[p].name] = job[p].content

\* The record of every core that is signed or about to be is on disk.
RecordInv ==
  /\ \A p \in Proc : \A c \in ready[p] : finalDisk[c.scope] = c
  /\ \A c \in signed : finalDisk[c.scope] = c

SignerInv == SignerTypeOK /\ DirectoryInv /\ ProcessInv /\ RecordInv

-----------------------------------------------------------------------------
\* Every step keeps the types.
LEMMA SignerTypeStep ==
  ASSUME SignerInv, [SignerNext]_signerVars
  PROVE  SignerTypeOK'
  <1> USE NameAssumption, UnlockedAssumption, ContentAssumption DEF SignerInv,
     SignerTypeOK, Job, Name, Step, directory, disk
  <1>1. ASSUME NEW p \in Proc, CommitCreate(p)
        PROVE  SignerTypeOK'
    BY <1>1 DEF CommitCreate, Goto
  <1>2. ASSUME NEW p \in Proc, CommitLink(p)
        PROVE  SignerTypeOK'
    BY <1>2 DEF CommitLink, Goto
  <1>3. ASSUME NEW p \in Proc, CommitSyncLink(p)
        PROVE  SignerTypeOK'
    BY <1>3 DEF CommitSyncLink, Goto
  <1>4. ASSUME NEW p \in Proc, CommitUnlink(p)
        PROVE  SignerTypeOK'
    BY <1>4 DEF CommitUnlink, Goto
  <1>5. ASSUME NEW p \in Proc, NEW l \in License, OpenExisting(p, l)
        PROVE  SignerTypeOK'
    BY <1>5 DEF OpenExisting, Acceptable, validate_record
  <1>6. ASSUME NEW p \in Proc, NEW l \in License, OpenInitialize(p, l)
        PROVE  SignerTypeOK'
    BY <1>6 DEF OpenInitialize, Goto
  <1>7. ASSUME NEW p \in Proc, OpenInitialized(p)
        PROVE  SignerTypeOK'
    BY <1>7 DEF OpenInitialized, Acceptable, validate_record, Goto
  <1>8. ASSUME NEW p \in Proc, NEW c \in Core, Authorize(p, c)
        PROVE  SignerTypeOK'
    BY <1>8 DEF Authorize, Goto, Core
  <1>9. ASSUME NEW p \in Proc, LookupNotFound(p)
        PROVE  SignerTypeOK'
    BY <1>9 DEF LookupNotFound, Goto
  <1>10. ASSUME NEW p \in Proc, LookupRetry(p)
        PROVE  SignerTypeOK'
    BY <1>10 DEF LookupRetry, Authorized, Goto, ProcessInv
  <1>11. ASSUME NEW p \in Proc, LookupConflict(p)
        PROVE  SignerTypeOK'
    BY <1>11 DEF LookupConflict, Goto
  <1>12. ASSUME NEW p \in Proc, CommitDone(p)
        PROVE  SignerTypeOK'
    BY <1>12 DEF CommitDone, Authorized, Goto, ProcessInv
  <1>13. ASSUME NEW p \in Proc, NEW c \in Core, Sign(p, c)
        PROVE  SignerTypeOK'
    BY <1>13 DEF Sign
  <1>14. ASSUME NEW p \in Proc, IoError(p)
        PROVE  SignerTypeOK'
    BY <1>14 DEF IoError, Latched, Goto
  <1>15. ASSUME NEW p \in Proc, FlushError(p)
        PROVE  SignerTypeOK'
    BY <1>15 DEF FlushError, Goto
  <1>16. ASSUME NEW p \in Proc, Kill(p)
        PROVE  SignerTypeOK'
    BY <1>16 DEF Kill, Goto
  <1>17. ASSUME NEW kept \in SUBSET Name, PowerLoss(kept)
        PROVE  SignerTypeOK'
    BY <1>17 DEF PowerLoss
  <1>18. CASE UNCHANGED signerVars
    BY <1>18 DEF signerVars
  <1> QED
    BY <1>1, <1>2, <1>3, <1>4, <1>5, <1>6, <1>7, <1>8, <1>9, <1>10, <1>11,
       <1>12, <1>13, <1>14, <1>15, <1>16, <1>17, <1>18 DEF SignerNext, Publishing,
       Opening, sign_candidate

\* Every step keeps the disk behind the directory by pending files only.
LEMMA DirectoryStep ==
  ASSUME SignerInv, SignerTypeOK', [SignerNext]_signerVars
  PROVE  DirectoryInv'
  <1> USE NameAssumption, UnlockedAssumption, ContentAssumption DEF SignerInv,
     SignerTypeOK, DirectoryInv, ProcessInv, Name, Job, directory, disk
  <1>1. ASSUME NEW p \in Proc, CommitCreate(p)
        PROVE  DirectoryInv'
    BY <1>1 DEF CommitCreate, Goto
  <1>2. ASSUME NEW p \in Proc, CommitLink(p)
        PROVE  DirectoryInv'
    BY <1>2 DEF CommitLink, Goto
  <1>3. ASSUME NEW p \in Proc, CommitSyncLink(p)
        PROVE  DirectoryInv'
    BY <1>3 DEF CommitSyncLink, Goto
  <1>4. ASSUME NEW p \in Proc, CommitUnlink(p)
        PROVE  DirectoryInv'
    BY <1>4 DEF CommitUnlink, Goto
  <1>5. ASSUME NEW p \in Proc, NEW l \in License, OpenExisting(p, l)
        PROVE  DirectoryInv'
    BY <1>5 DEF OpenExisting, Acceptable, validate_record
  <1>6. ASSUME NEW p \in Proc, NEW l \in License, OpenInitialize(p, l)
        PROVE  DirectoryInv'
    BY <1>6 DEF OpenInitialize, Goto
  <1>7. ASSUME NEW p \in Proc, OpenInitialized(p)
        PROVE  DirectoryInv'
    BY <1>7 DEF OpenInitialized, Acceptable, validate_record, Goto
  <1>8. ASSUME NEW p \in Proc, NEW c \in Core, Authorize(p, c)
        PROVE  DirectoryInv'
    BY <1>8 DEF Authorize, Goto
  <1>9. ASSUME NEW p \in Proc, LookupNotFound(p)
        PROVE  DirectoryInv'
    BY <1>9 DEF LookupNotFound, Goto
  <1>10. ASSUME NEW p \in Proc, LookupRetry(p)
        PROVE  DirectoryInv'
    BY <1>10 DEF LookupRetry, Authorized, Goto
  <1>11. ASSUME NEW p \in Proc, LookupConflict(p)
        PROVE  DirectoryInv'
    BY <1>11 DEF LookupConflict, Goto
  <1>12. ASSUME NEW p \in Proc, CommitDone(p)
        PROVE  DirectoryInv'
    BY <1>12 DEF CommitDone, Authorized, Goto
  <1>13. ASSUME NEW p \in Proc, NEW c \in Core, Sign(p, c)
        PROVE  DirectoryInv'
    BY <1>13 DEF Sign
  <1>14. ASSUME NEW p \in Proc, IoError(p)
        PROVE  DirectoryInv'
    BY <1>14 DEF IoError, Latched, Goto
  <1>15. ASSUME NEW p \in Proc, FlushError(p)
        PROVE  DirectoryInv'
    BY <1>15 DEF FlushError, Goto
  <1>16. ASSUME NEW p \in Proc, Kill(p)
        PROVE  DirectoryInv'
    BY <1>16 DEF Kill, Goto
  <1>17. ASSUME NEW kept \in SUBSET Name, PowerLoss(kept)
        PROVE  DirectoryInv'
    <2>1. /\ finalDisk' = final'
          /\ \A n \in Name : final'[n] \in {final[n], finalDisk[n]}
      BY <1>17 DEF PowerLoss
    <2>2. finalDisk["authority"] \in {NoContent, finalDisk'["authority"]}
      BY <2>1
    <2>3. \A s \in Scope : final'[s] # NoContent => final'[s] = final[s]
      BY <2>1
    <2>4. \A s \in Scope : final'[s] # NoContent =>
            /\ final'[s] \in Core
            /\ final'[s].scope = s
            /\ finalDisk'["authority"] = final'[s].license
      BY <2>2, <2>3 DEF Core
    <2> QED
      BY <2>1, <2>4
  <1>18. CASE UNCHANGED signerVars
    BY <1>18 DEF signerVars
  <1> QED
    BY <1>1, <1>2, <1>3, <1>4, <1>5, <1>6, <1>7, <1>8, <1>9, <1>10, <1>11,
       <1>12, <1>13, <1>14, <1>15, <1>16, <1>17, <1>18 DEF SignerNext, Publishing,
       Opening, sign_candidate

\* Every step keeps the lock and the commit protocol.
LEMMA ProcessStep ==
  ASSUME SignerInv, SignerTypeOK', DirectoryInv', [SignerNext]_signerVars
  PROVE  ProcessInv'
  <1> USE NameAssumption, UnlockedAssumption, ContentAssumption DEF SignerInv,
     SignerTypeOK, DirectoryInv, ProcessInv, Name, Job, Core, directory, disk
  <1>1. ASSUME NEW p \in Proc, CommitCreate(p)
        PROVE  ProcessInv'
    BY <1>1 DEF CommitCreate, Goto
  <1>2. ASSUME NEW p \in Proc, CommitLink(p)
        PROVE  ProcessInv'
    BY <1>2 DEF CommitLink, Goto
  <1>3. ASSUME NEW p \in Proc, CommitSyncLink(p)
        PROVE  ProcessInv'
    BY <1>3 DEF CommitSyncLink, Goto
  <1>4. ASSUME NEW p \in Proc, CommitUnlink(p)
        PROVE  ProcessInv'
    BY <1>4 DEF CommitUnlink, Goto
  <1>5. ASSUME NEW p \in Proc, NEW l \in License, OpenExisting(p, l)
        PROVE  ProcessInv'
    BY <1>5 DEF OpenExisting, Acceptable, validate_record
  <1>6. ASSUME NEW p \in Proc, NEW l \in License, OpenInitialize(p, l)
        PROVE  ProcessInv'
    BY <1>6 DEF OpenInitialize, Goto
  <1>7. ASSUME NEW p \in Proc, OpenInitialized(p)
        PROVE  ProcessInv'
    BY <1>7 DEF OpenInitialized, Acceptable, validate_record, Goto
  <1>8. ASSUME NEW p \in Proc, NEW c \in Core, Authorize(p, c)
        PROVE  ProcessInv'
    BY <1>8 DEF Authorize, Goto
  <1>9. ASSUME NEW p \in Proc, LookupNotFound(p)
        PROVE  ProcessInv'
    BY <1>9 DEF LookupNotFound, Goto
  <1>10. ASSUME NEW p \in Proc, LookupRetry(p)
        PROVE  ProcessInv'
    BY <1>10 DEF LookupRetry, Authorized, Goto
  <1>11. ASSUME NEW p \in Proc, LookupConflict(p)
        PROVE  ProcessInv'
    BY <1>11 DEF LookupConflict, Goto
  <1>12. ASSUME NEW p \in Proc, CommitDone(p)
        PROVE  ProcessInv'
    BY <1>12 DEF CommitDone, Authorized, Goto
  <1>13. ASSUME NEW p \in Proc, NEW c \in Core, Sign(p, c)
        PROVE  ProcessInv'
    BY <1>13 DEF Sign
  <1>14. ASSUME NEW p \in Proc, IoError(p)
        PROVE  ProcessInv'
    BY <1>14 DEF IoError, Latched, Goto
  <1>15. ASSUME NEW p \in Proc, FlushError(p)
        PROVE  ProcessInv'
    BY <1>15 DEF FlushError, Goto
  <1>16. ASSUME NEW p \in Proc, Kill(p)
        PROVE  ProcessInv'
    BY <1>16 DEF Kill, Goto
  <1>17. ASSUME NEW kept \in SUBSET Name, PowerLoss(kept)
        PROVE  ProcessInv'
    BY <1>17 DEF PowerLoss
  <1>18. CASE UNCHANGED signerVars
    BY <1>18 DEF signerVars
  <1> QED
    BY <1>1, <1>2, <1>3, <1>4, <1>5, <1>6, <1>7, <1>8, <1>9, <1>10, <1>11,
       <1>12, <1>13, <1>14, <1>15, <1>16, <1>17, <1>18 DEF SignerNext, Publishing,
       Opening, sign_candidate

\* No step loses a record, and none signs without one.
LEMMA RecordStep ==
  ASSUME SignerInv, SignerTypeOK', DirectoryInv', [SignerNext]_signerVars
  PROVE  RecordInv'
  <1> USE NameAssumption, UnlockedAssumption, ContentAssumption DEF SignerInv,
     SignerTypeOK, DirectoryInv, ProcessInv, RecordInv, Name, Job, Core,
     directory, disk
  <1>1. ASSUME NEW p \in Proc, CommitCreate(p)
        PROVE  RecordInv'
    BY <1>1 DEF CommitCreate, Goto
  <1>2. ASSUME NEW p \in Proc, CommitLink(p)
        PROVE  RecordInv'
    BY <1>2 DEF CommitLink, Goto
  <1>3. ASSUME NEW p \in Proc, CommitSyncLink(p)
        PROVE  RecordInv'
    BY <1>3 DEF CommitSyncLink, Goto
  <1>4. ASSUME NEW p \in Proc, CommitUnlink(p)
        PROVE  RecordInv'
    BY <1>4 DEF CommitUnlink, Goto
  <1>5. ASSUME NEW p \in Proc, NEW l \in License, OpenExisting(p, l)
        PROVE  RecordInv'
    BY <1>5 DEF OpenExisting, Acceptable, validate_record
  <1>6. ASSUME NEW p \in Proc, NEW l \in License, OpenInitialize(p, l)
        PROVE  RecordInv'
    BY <1>6 DEF OpenInitialize, Goto
  <1>7. ASSUME NEW p \in Proc, OpenInitialized(p)
        PROVE  RecordInv'
    BY <1>7 DEF OpenInitialized, Acceptable, validate_record, Goto
  <1>8. ASSUME NEW p \in Proc, NEW c \in Core, Authorize(p, c)
        PROVE  RecordInv'
    BY <1>8 DEF Authorize, Goto
  <1>9. ASSUME NEW p \in Proc, LookupNotFound(p)
        PROVE  RecordInv'
    BY <1>9 DEF LookupNotFound, Goto
  <1>10. ASSUME NEW p \in Proc, LookupRetry(p)
        PROVE  RecordInv'
    BY <1>10 DEF LookupRetry, Authorized, Goto
  <1>11. ASSUME NEW p \in Proc, LookupConflict(p)
        PROVE  RecordInv'
    BY <1>11 DEF LookupConflict, Goto
  <1>12. ASSUME NEW p \in Proc, CommitDone(p)
        PROVE  RecordInv'
    BY <1>12 DEF CommitDone, Authorized, Goto
  <1>13. ASSUME NEW p \in Proc, NEW c \in Core, Sign(p, c)
        PROVE  RecordInv'
    BY <1>13 DEF Sign
  <1>14. ASSUME NEW p \in Proc, IoError(p)
        PROVE  RecordInv'
    BY <1>14 DEF IoError, Latched, Goto
  <1>15. ASSUME NEW p \in Proc, FlushError(p)
        PROVE  RecordInv'
    BY <1>15 DEF FlushError, Goto
  <1>16. ASSUME NEW p \in Proc, Kill(p)
        PROVE  RecordInv'
    BY <1>16 DEF Kill, Goto
  <1>17. ASSUME NEW kept \in SUBSET Name, PowerLoss(kept)
        PROVE  RecordInv'
    BY <1>17 DEF PowerLoss
  <1>18. CASE UNCHANGED signerVars
    BY <1>18 DEF signerVars
  <1> QED
    BY <1>1, <1>2, <1>3, <1>4, <1>5, <1>6, <1>7, <1>8, <1>9, <1>10, <1>11,
       <1>12, <1>13, <1>14, <1>15, <1>16, <1>17, <1>18 DEF SignerNext, Publishing,
       Opening, sign_candidate

\* SignerInv holds in every reachable state.
LEMMA SignerInvariance == SignerSpec => []SignerInv
  <1>1. SignerInit => SignerInv
    BY NameAssumption, UnlockedAssumption, ContentAssumption
       DEF SignerInit, SignerInv, SignerTypeOK, DirectoryInv, ProcessInv, RecordInv, Name, Job,
           Step
  <1>2. SignerInv /\ [SignerNext]_signerVars => SignerInv'
    BY SignerTypeStep, DirectoryStep, ProcessStep, RecordStep DEF SignerInv
  <1> QED
    BY <1>1, <1>2, PTL DEF SignerSpec

\* Every published file is an authority or a complete record.
THEOREM SignerTypes == SignerSpec => []SignerTypeOK
  BY SignerInvariance, PTL DEF SignerInv

\* The record of a released signature survives every crash and power loss.
THEOREM SignaturesAreDurable == SignerSpec => []SignedIsDurable
  <1>1. SignerInv => SignedIsDurable
    BY DEF SignerInv, RecordInv, SignedIsDurable
  <1> QED
    BY <1>1, SignerInvariance, PTL

\* One scope, one signed core: two of them would need two contents of one file.
THEOREM SignerNeverEquivocates == SignerSpec => []NoEquivocation
  <1>1. SignerInv => NoEquivocation
    BY DEF SignerInv, RecordInv, NoEquivocation
  <1> QED
    BY <1>1, SignerInvariance, PTL

\* One process and one license work on a directory.
THEOREM SignerHasOneBinding == SignerSpec => []OneBinding
  <1>1. SignerInv => OneBinding
    BY ContentAssumption DEF SignerInv, SignerTypeOK, DirectoryInv, ProcessInv, RecordInv,
       OneBinding, Name, Core
  <1> QED
    BY <1>1, SignerInvariance, PTL
=============================================================================
