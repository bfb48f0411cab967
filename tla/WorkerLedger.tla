---------------------------- MODULE WorkerLedger ----------------------------
(***************************************************************************)
(* The worker budget ledger (mutiny-worker/src/ledger.rs) and the command   *)
(* that hands one mining ticket to one worker (serve_one_mining_ticket in   *)
(* worker_runtime.rs with dispatch_one_prepared_ticket in worker_service.rs *)
(* and finalize_worker_result in worker_mining.rs).                         *)
(*                                                                          *)
(* The ledger file is replaced by remove and rename calls, each a step of   *)
(* its own.  The command may be killed, or fail and exit, between any two   *)
(* steps; the next command opens what is left.  `.next` is written and      *)
(* synced before it is renamed and never read, so it needs no variable.     *)
(***************************************************************************)
EXTENDS Integers, FiniteSets

CONSTANTS Branch,      \* frozen authorities: parent, target epoch, license
          W,           \* work_units_for_epoch: tickets of one authority
          Assignment,  \* AssignmentIDs, one for each worker session
          CrashBudget, \* the bound on `windows` below
          NoFile       \* the contents of a file that does not exist

ASSUME WAssumption == W \in Nat
ASSUME CrashBudgetAssumption == CrashBudget \in Nat

\* A TicketKey hashes the authority and the ticket index.
TicketKey == Branch \X (0 .. W - 1)

Status == {"RESERVED", "SENT", "COMPLETED_NO_WIN", "CANDIDATE_WIN",
           "INVALID_WIN"}

Record == [assignment : Assignment, ticket : TicketKey, status : Status]

Ledger == SUBSET Record

\* The encoded ledger.  Its generation counts commits and decides nothing.
File == [records : Ledger]

ASSUME NoFileAssumption == NoFile \notin File

VARIABLES
  cur,       \* budget-ledger-v1.bin
  prev,      \* budget-ledger-v1.bin.prev
  branch,    \* the authority the node's canonical state yields
  pc,        \* the step the command is at
  ledger,    \* WorkerServiceState.ledger
  candidate, \* the ledger that commit_atomic is writing
  ret,       \* where the command continues after the commit
  ticket,    \* the ticket being dispatched
  assignment,\* its AssignmentID
  \* history
  sent,      \* the <<assignment, ticket>> pairs that were transmitted
  blocks,    \* the assignments whose proof became a block
  windows    \* how many commands ended within a commit and with the ledger
             \* renamed away since a commit completed; not reset from 2 on

files == <<cur, prev>>
local == <<ledger, candidate, ret, ticket, assignment>>
vars == <<files, branch, pc, local, sent, blocks, windows>>

CommitPc == {"drop_prev", "rename_cur", "rename_next"}
ReturnPc == {"idle", "reserved", "sent", "result", "down"}

-----------------------------------------------------------------------------
\* What open_or_create would load: the ledger, or else its predecessor.
load_recover == IF cur # NoFile THEN cur ELSE prev

ticket_seen(l, t) == \E r \in l : r.ticket = t

\* Mutant: a ticket that was reserved but not marked SENT counts as unissued.
Unissued_Reserved ==
  {i \in 0 .. W - 1 :
     ~\E r \in ledger : r.ticket = <<branch, i>> /\ r.status # "RESERVED"}

Unissued == {i \in 0 .. W - 1 : ~ticket_seen(ledger, <<branch, i>>)}

ledger_status(a) == (CHOOSE r \in ledger : r.assignment = a).status

WithStatus(l, a, s) ==
  {IF r.assignment = a THEN [r EXCEPT !.status = s] ELSE r : r \in l}

-----------------------------------------------------------------------------
(* commit_atomic(path, bytes)                                                *)

\* `.next` is written and synced.
BeginCommit(l, then) ==
  /\ candidate' = l
  /\ ret' = then
  /\ pc' = "drop_prev"

CommitDropPrev ==
  /\ pc = "drop_prev"
  /\ prev' = NoFile
  /\ pc' = "rename_cur"
  /\ UNCHANGED <<cur, branch, local, sent, blocks, windows>>

CommitRenameCur ==
  /\ pc = "rename_cur"
  /\ prev' = IF cur # NoFile THEN cur ELSE prev
  /\ cur' = NoFile
  /\ pc' = "rename_next"
  /\ UNCHANGED <<branch, local, sent, blocks, windows>>

CommitRenameNext ==
  /\ pc = "rename_next"
  /\ cur' = [records |-> candidate]
  /\ ledger' = candidate
  /\ pc' = ret
  /\ windows' = IF windows <= 1 THEN 0 ELSE windows
  /\ UNCHANGED <<prev, branch, candidate, ret, ticket, assignment, sent,
                 blocks>>

\* The command ends.  CrashBudget bounds how often it may end within a commit
\* that leaves no file under the ledger's own name before one completes.
EndCommand ==
  /\ pc' = "down"
  /\ IF pc \in CommitPc /\ cur' = NoFile
       THEN /\ windows < CrashBudget
            /\ windows' = windows + 1
       ELSE UNCHANGED windows

\* The last rename fails: the predecessor is put back and the command fails.
CommitUndo ==
  /\ pc = "rename_next"
  /\ cur' = prev
  /\ prev' = NoFile
  /\ EndCommand
  /\ UNCHANGED <<branch, local, sent, blocks>>

-----------------------------------------------------------------------------
(* serve_one_mining_ticket                                                   *)

Open ==
  /\ pc = "down"
  /\ IF load_recover # NoFile
       THEN /\ ledger' = load_recover.records
            /\ pc' = "idle"
            /\ UNCHANGED <<candidate, ret>>
       ELSE /\ ledger' = {}
            /\ BeginCommit({}, "idle")
  /\ UNCHANGED <<files, branch, ticket, assignment, sent, blocks, windows>>

Fresh(a) == \A r \in ledger : r.assignment # a

\* Mutant: the assignment is transmitted before the reservation is persisted.
Reserve_SendFirst(a) ==
  /\ pc = "idle"
  /\ Unissued # {}
  /\ Fresh(a)
  /\ \A s \in sent : s[1] # a
  /\ \E i \in Unissued :
       /\ \A j \in Unissued : i <= j
       /\ ticket' = <<branch, i>>
  /\ assignment' = a
  /\ sent' = sent \cup {<<a, ticket'>>}
  /\ BeginCommit(ledger \cup {[assignment |-> a, ticket |-> ticket',
                               status |-> "RESERVED"]}, "reserved")
  /\ UNCHANGED <<files, branch, ledger, blocks, windows>>

\* next_unique_plan_for_session, then reserve_and_persist: the lowest index
\* that the ledger does not know is reserved for this session.  A new session
\* has a new SessionID, so its AssignmentID was never transmitted before.
Reserve(a) ==
  /\ pc = "idle"
  /\ Unissued # {}
  /\ Fresh(a)
  /\ \A s \in sent : s[1] # a
  /\ \E i \in Unissued :
       /\ \A j \in Unissued : i <= j
       /\ ticket' = <<branch, i>>
  /\ assignment' = a
  /\ BeginCommit(ledger \cup {[assignment |-> a, ticket |-> ticket',
                               status |-> "RESERVED"]}, "reserved")
  /\ UNCHANGED <<files, branch, ledger, sent, blocks, windows>>

\* "all frozen Pack-A TicketKeys ... are already issued"
AllIssued ==
  /\ pc = "idle"
  /\ Unissued = {}
  /\ pc' = "down"
  /\ UNCHANGED <<files, branch, local, sent, blocks, windows>>

Transmit ==
  /\ pc = "reserved"
  /\ sent' = sent \cup {<<assignment, ticket>>}
  /\ BeginCommit(WithStatus(ledger, assignment, "SENT"), "sent")
  /\ UNCHANGED <<files, branch, ledger, ticket, assignment, blocks, windows>>

\* Mutant: the status of the result is kept in memory only.
Result_NotPersisted(status) ==
  /\ pc = "sent"
  /\ ledger' = WithStatus(ledger, assignment, status)
  /\ pc' = "result"
  /\ UNCHANGED <<files, branch, candidate, ret, ticket, assignment, sent,
                 blocks, windows>>

\* A WORK_RESULT with the right binding and signature arrived.
Result(status) ==
  /\ pc = "sent"
  /\ BeginCommit(WithStatus(ledger, assignment, status), "result")
  /\ UNCHANGED <<files, branch, ledger, ticket, assignment, sent, blocks,
                 windows>>

FinalizeNoWin ==
  /\ pc = "result"
  /\ ledger_status(assignment) = "COMPLETED_NO_WIN"
  /\ pc' = "down"
  /\ UNCHANGED <<files, branch, local, sent, blocks, windows>>

\* The node recomputed the proof and it is good: the block is signed and
\* accepted, so the canonical parent, and with it the authority, changes.
FinalizeWin ==
  /\ pc = "result"
  /\ ledger_status(assignment) = "CANDIDATE_WIN"
  /\ blocks' = blocks \cup {assignment}
  /\ branch' \in Branch \ {branch}
  /\ pc' = "down"
  /\ UNCHANGED <<files, local, sent, windows>>

\* The recomputed proof differs: mark_invalid_win, then the command fails.
FinalizeFalseWin ==
  /\ pc = "result"
  /\ ledger_status(assignment) = "CANDIDATE_WIN"
  /\ BeginCommit(WithStatus(ledger, assignment, "INVALID_WIN"), "down")
  /\ UNCHANGED <<files, branch, ledger, ticket, assignment, sent, blocks,
                 windows>>

\* Between two commands the node follows the chain, to another branch and
\* perhaps back to an earlier one, or to another epoch or license.
SwitchBranch ==
  /\ pc = "down"
  /\ branch' \in Branch \ {branch}
  /\ UNCHANGED <<files, pc, local, sent, blocks, windows>>

\* The command is killed, or fails and exits without touching the files.
Crash ==
  /\ pc # "down"
  /\ UNCHANGED <<files, branch, local, sent, blocks>>
  /\ EndCommand

-----------------------------------------------------------------------------
Init ==
  /\ cur = NoFile /\ prev = NoFile
  /\ branch \in Branch
  /\ pc = "down" /\ ledger = {} /\ candidate = {} /\ ret = "idle"
  /\ ticket \in TicketKey /\ assignment \in Assignment
  /\ sent = {} /\ blocks = {} /\ windows = 0

Commit == CommitDropPrev \/ CommitRenameCur \/ CommitRenameNext \/ CommitUndo

Dispatch ==
  \/ \E a \in Assignment : Reserve(a)
  \/ AllIssued \/ Transmit
  \/ \E status \in {"COMPLETED_NO_WIN", "CANDIDATE_WIN"} : Result(status)
  \/ FinalizeNoWin \/ FinalizeWin \/ FinalizeFalseWin

Next == Open \/ Commit \/ Dispatch \/ SwitchBranch \/ Crash

Spec == Init /\ [][Next]_vars

-----------------------------------------------------------------------------
(* Properties.                                                               *)

\* Type invariant: in particular no ticket outside the frozen work budget W is
\* ever reserved or transmitted.
TypeOK ==
  /\ cur \in File \cup {NoFile} /\ prev \in File \cup {NoFile}
  /\ branch \in Branch
  /\ pc \in CommitPc \cup ReturnPc
  /\ ledger \in Ledger /\ candidate \in Ledger
  /\ ret \in ReturnPc
  /\ ticket \in TicketKey /\ assignment \in Assignment
  /\ sent \in SUBSET (Assignment \X TicketKey)
  /\ blocks \in SUBSET Assignment
  /\ windows \in Nat

Knows(l, s) == \E r \in l : r.assignment = s[1] /\ r.ticket = s[2]

\* "Reserve-before-send": wherever a command was killed, whatever was
\* transmitted to a worker is in the ledger that the next command will open,
\* unless two commands in a row ended between the renames of commit_atomic.
LedgerNeverForgets ==
  pc = "down" /\ windows <= 1 =>
    \A s \in sent : load_recover # NoFile /\ Knows(load_recover.records, s)

\* The work budget is never widened: no ticket is transmitted in two
\* assignments, across restarts and across switches of the branch and back.
NoTicketSentTwice ==
  windows <= 1 => \A s, t \in sent : s[2] = t[2] => s = t

\* finalize_worker_result accepts a block only for an assignment that the
\* ledger on disk records as CANDIDATE_WIN, and that record stays.
BlockHasCandidate ==
  pc = "down" /\ windows <= 1 =>
    \A a \in blocks :
      /\ load_recover # NoFile
      /\ \E r \in load_recover.records :
           r.assignment = a /\ r.status = "CANDIDATE_WIN"

\* commit_atomic is a "crash-recoverable replacement protocol": what was
\* transmitted is in the ledger on disk, however often commands are killed.
LedgerSurvivesCrashes ==
  pc = "down" =>
    \A s \in sent : load_recover # NoFile /\ Knows(load_recover.records, s)

=============================================================================
