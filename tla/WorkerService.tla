--------------------------- MODULE WorkerService ---------------------------
(***************************************************************************)
(* The one-ticket worker commands of worker_runtime.rs on one data          *)
(* directory: serve_one_mining_ticket ("mine"), serve_one_reassigned_ticket *)
(* ("reassign"), serve_one_cancelled_ticket ("cancel") and                  *)
(* serve_one_lifecycle_watched_ticket ("watch"), each with the reference    *)
(* worker it serves, beside a node that extends the chain and an operator   *)
(* who edits the authorization file.  The commands take no lock: each loads *)
(* the chain state and the ledger once and writes its own copies back.      *)
(*                                                                          *)
(* A step reads or writes one file, or the stream.  The renames behind one  *)
(* write of the ledger are in WorkerLedger, those behind one write of the   *)
(* state in Storage; the handshake before a session is in WorkerHandshake.  *)
(***************************************************************************)
EXTENDS Integers, FiniteSets, Sequences

CONSTANTS Cmd,        \* commands; each serves one session, hence one assignment
          Worker,     \* WorkerIDs
          NodeMiner,  \* the node: who mines the blocks that are no command's
          WorkUnits,  \* work_units_for_epoch
          MaxEpoch,   \* bounds the target epochs and the node's blocks
          MaxPolls,   \* the 400 observations of the lifecycle watch
          NodeOps,    \* the operations of the node's blocks
          MaxRunning, \* how many commands run at a time
          MaxEdits,   \* bounds the edits of the authorization file
          Nothing

ASSUME ServiceAssumption ==
  /\ NodeMiner \notin Cmd
  /\ WorkUnits \in Nat /\ MaxEpoch \in Nat /\ MaxPolls \in Nat /\ MaxEdits \in Nat
  /\ NodeOps \subseteq {"none", "rotate", "suspend"}

Kind == {"mine", "reassign", "cancel", "watch"}

\* A block: who signed it, its epoch, and what its operations did to the one
\* mining license of the commands.
Block == [by : Cmd \cup {NodeMiner}, epoch : 1 .. MaxEpoch,
          op : {"none", "rotate", "suspend"}]

AssignmentStatus == {"RESERVED", "SENT", "COMPLETED_NO_WIN", "CANDIDATE_WIN",
           "CANCELLED", "INVALID_WIN"}

\* A proof that does not recompute below the target is a "FALSE_WIN".
Answer == {"NO_WIN", "WIN", "FALSE_WIN"}

VARIABLES
  disk,   \* the stored DevnetState: the blocks and tip_epoch
  file,   \* budget-ledger-v1.bin: a set of records
  authz,  \* authorized-worker-licenses-v1.txt: the workers of the license;
          \* {} also stands for a file that is missing or malformed
  edits,  \* how often that file was edited
  cmd,    \* the commands, each with its stream: `wrk` is the worker at the
          \* other end and `up` the WORK_RESULT on its way from there
  \* history
  reserved,  \* the <<command, ticket>> pairs ever reserved
  cancelled, \* the commands that cancelled their assignment
  overlapped \* whether two commands have ever run at a time

issueHistory == <<reserved, cancelled, overlapped>>
serviceVars == <<disk, file, authz, edits, cmd, issueHistory>>

Idle == [pc |-> "new", kind |-> "mine", epoch |-> 0, signer |-> 0,
         state |-> [chain |-> <<>>, tip_epoch |-> 0], ledger |-> {},
         authz |-> {}, worker |-> Nothing, ticket |-> Nothing, fresh |-> FALSE,
         polls |-> 0, wrk |-> "absent", up |-> Nothing]

-----------------------------------------------------------------------------
(* What a chain says of the license                                          *)

\* The mining key on chain: every rotation brings a new one.
mining_public_key(chain) == Len(SelectSeq(chain, LAMBDA b : b.op = "rotate"))

is_eligible(chain) == \A k \in DOMAIN chain : chain[k].op # "suspend"

\* preflight_mining_authority and load_mining_key_for_license
CustodyMatches(chain, signer) == signer = mining_public_key(chain)

\* The conditions under which prepare_canonical_ticket returns a plan.
Prepares(s, epoch, signer) ==
  /\ epoch > s.tip_epoch
  /\ is_eligible(s.chain)
  /\ CustodyMatches(s.chain, signer)

\* The skipped epochs are committed as empty observations.
Prepared(s, epoch) == [s EXCEPT !.tip_epoch = epoch - 1]

\* A TicketKey hashes the parent, the target epoch and the index.
ticket_key(s, epoch, i) == <<s.chain, epoch, i>>

-----------------------------------------------------------------------------
(* The ledger copy of one command                                            *)

\* Mutant: the ticket of a cancelled assignment may be issued again.
SeenUnlessCancelled(l, t) ==
  \E r \in l : r.ticket = t /\ r.status # "CANCELLED"

ticket_seen_in(l, t) == \E r \in l : r.ticket = t

next_unique_ticket_index(l, s, epoch) ==
  LET free == {i \in 0 .. WorkUnits - 1 : ~ticket_seen_in(l, ticket_key(s, epoch, i))}
  IN  IF free = {} THEN {} ELSE {CHOOSE i \in free : \A j \in free : i <= j}

redundant_plan_for_session(l, s, epoch) ==
  {i \in 0 .. WorkUnits - 1 : ticket_seen_in(l, ticket_key(s, epoch, i))}

ledger_status_in(l, c) == {r.status : r \in {x \in l : x.aid = c}}

RecordsWithStatus(l, c, status) ==
  {IF r.aid = c THEN [r EXCEPT !.status = status] ELSE r : r \in l}

\* The process ends: its copies are gone and the stream is closed.
Ended(k, pc) == [Idle EXCEPT !.pc = pc, !.kind = k.kind, !.signer = k.signer]

End(c) == cmd' = [cmd EXCEPT ![c] = Ended(@, "down")]

\* update_status_and_persist: the whole ledger of this command is written.
UpdateStatus(c, status, pc) ==
  /\ file' = RecordsWithStatus(cmd[c].ledger, c, status)
  /\ cmd' = [cmd EXCEPT ![c].ledger = file', ![c].pc = pc]

Running ==
  {c \in Cmd : cmd[c].pc \notin {"new", "down", "killed", "panicked"}}

-----------------------------------------------------------------------------
(* Opening a command                                                         *)

\* The command line: the mining key is unlocked against the stored state; the
\* target epoch is the next one, or a later one the operator asks for.
Launch(c, kind, epoch) ==
  /\ cmd[c].pc = "new"
  /\ Cardinality(Running) < MaxRunning
  /\ epoch > disk.tip_epoch
  /\ cmd' = [cmd EXCEPT ![c].pc = "launched", ![c].kind = kind,
                        ![c].epoch = epoch,
                        ![c].signer = mining_public_key(disk.chain)]
  /\ overlapped' = (overlapped \/ Running # {})
  /\ UNCHANGED <<disk, file, authz, edits, reserved, cancelled>>

\* load_state and preflight_mining_authority, prepare_runtime_state,
\* load_runtime_worker_license_authorizations.  No file is read again, except
\* by the lifecycle watch.
OpenCommand(c) ==
  /\ cmd[c].pc = "launched"
  /\ IF CustodyMatches(disk.chain, cmd[c].signer) /\ authz # {}
       THEN cmd' = [cmd EXCEPT ![c].pc = "listening", ![c].state = disk,
                               ![c].ledger = file, ![c].authz = authz]
       ELSE End(c)
  /\ UNCHANGED <<disk, file, authz, edits, issueHistory>>

\* The tickets the command may assign, by its own copies.
Plans(c) ==
  LET k == cmd[c]
  IN  IF k.kind = "reassign"
        THEN redundant_plan_for_session(k.ledger, k.state, k.epoch)
        ELSE next_unique_ticket_index(k.ledger, k.state, k.epoch)

\* A worker has authenticated.  The command prepares the ticket and saves the
\* prepared state, over whatever was stored since it loaded its copy.
Accept(c, w) ==
  /\ cmd[c].pc = "listening"
  /\ IF /\ w \in cmd[c].authz
        /\ Prepares(cmd[c].state, cmd[c].epoch, cmd[c].signer)
        /\ Plans(c) # {}
       THEN \E i \in Plans(c) :
              /\ disk' = Prepared(cmd[c].state, cmd[c].epoch)
              /\ cmd' = [cmd EXCEPT
                   ![c].pc = "planned", ![c].worker = w, ![c].state = disk',
                   ![c].ticket = ticket_key(disk', cmd[c].epoch, i),
                   ![c].authz = {}, ![c].wrk = "ready"]
       ELSE /\ End(c)
            /\ UNCHANGED disk
  /\ UNCHANGED <<file, authz, edits, issueHistory>>

-----------------------------------------------------------------------------
(* Issuing the assignment                                                    *)

\* reserve_and_persist.  A session has one assignment, so its AssignmentID is
\* new to every ledger.
ReserveTicket(c) ==
  /\ cmd[c].pc = "planned"
  /\ LET record == [aid |-> c, ticket |-> cmd[c].ticket, status |-> "RESERVED"]
     IN  file' = cmd[c].ledger \cup {record}
  /\ cmd' = [cmd EXCEPT
       ![c].ledger = file', ![c].pc = "reserved",
       ![c].fresh = ~ticket_seen_in(cmd[c].ledger, cmd[c].ticket)]
  /\ reserved' = reserved \cup {<<c, cmd[c].ticket>>}
  /\ UNCHANGED <<disk, authz, edits, cancelled, overlapped>>

TransmitAssignment(c) ==
  /\ cmd[c].pc = "reserved"
  /\ cmd[c].wrk = "ready"
  /\ cmd' = [cmd EXCEPT ![c].pc = "transmitted", ![c].wrk = "assigned"]
  /\ UNCHANGED <<disk, file, authz, edits, issueHistory>>

\* What the command does once its assignment is SENT.
AfterSent(kind) ==
  CASE kind = "cancel" -> "cancel"
    [] kind = "watch"  -> "watching"
    [] OTHER           -> "sent"

MarkSent(c) ==
  /\ cmd[c].pc = "transmitted"
  /\ UpdateStatus(c, "SENT", AfterSent(cmd[c].kind))
  /\ UNCHANGED <<disk, authz, edits, issueHistory>>

-----------------------------------------------------------------------------
(* mine and reassign: the result decides                                     *)

\* A WORK_RESULT of this assignment, signed by the session's worker.
Receive(c) ==
  /\ cmd[c].pc = "sent"
  /\ cmd[c].up # Nothing
  /\ UpdateStatus(c, IF cmd[c].up = "NO_WIN" THEN "COMPLETED_NO_WIN"
                                             ELSE "CANDIDATE_WIN", "result")
  /\ UNCHANGED <<disk, authz, edits, issueHistory>>

\* Mutant: finalize_worker_result does not look at the ledger.
AnyStatus(c) == TRUE

\* The status finalize_worker_result asks for.
StatusFits(c) ==
  ledger_status_in(cmd[c].ledger, c) =
    {IF cmd[c].up = "NO_WIN" THEN "COMPLETED_NO_WIN" ELSE "CANDIDATE_WIN"}

\* finalize_worker_result returns Ok.  Its stale-result checks compare the plan
\* with the command's own state, from which the plan was made.
Finalizes(c) ==
  /\ StatusFits(c)
  /\ cmd[c].up = "WIN" =>
       /\ cmd[c].state.chain = cmd[c].ticket[1]
       /\ is_eligible(cmd[c].state.chain)
       /\ CustodyMatches(cmd[c].state.chain, cmd[c].signer)

WithBlock(s, c) ==
  [chain |-> Append(s.chain, [by |-> c, epoch |-> cmd[c].epoch,
                              op |-> "none"]),
   tip_epoch |-> cmd[c].epoch]

\* finalize_worker_result, then save_state of the command's own state: with
\* the block of a WIN, and as it was prepared after a NO_WIN.
Finalize(c) ==
  /\ cmd[c].pc = "result"
  /\ cmd[c].up # "FALSE_WIN"
  /\ IF Finalizes(c) /\ (cmd[c].kind = "reassign" => ~cmd[c].fresh)
       THEN disk' = IF cmd[c].up = "WIN" THEN WithBlock(cmd[c].state, c)
                                         ELSE cmd[c].state
       ELSE UNCHANGED disk
  /\ End(c)
  /\ UNCHANGED <<file, authz, edits, issueHistory>>

\* The recomputed proof is another: mark_invalid_win, and the command fails.
RejectFalseWin(c) ==
  /\ cmd[c].pc = "result"
  /\ cmd[c].up = "FALSE_WIN"
  /\ file' = RecordsWithStatus(cmd[c].ledger, c, "INVALID_WIN")
  /\ End(c)
  /\ UNCHANGED <<disk, authz, edits, issueHistory>>

-----------------------------------------------------------------------------
(* cancel and watch: the assignment is taken back                            *)

\* observe_assignment_liveness reads the stored files again.
observe_assignment_liveness(c) ==
  [parent |-> disk.chain, current_epoch |-> disk.tip_epoch,
   eligible |-> is_eligible(disk.chain),
   authorized |-> cmd[c].worker \in authz,
   custody |-> CustodyMatches(disk.chain, cmd[c].signer)]

\* Mutant: a revoked worker keeps its assignment.
ReasonWithoutAuthorization(c, seen) ==
  \/ cmd[c].ticket[1] # seen.parent
  \/ seen.current_epoch > cmd[c].epoch
  \/ ~seen.eligible \/ ~seen.custody

\* Whether cancellation_reason finds one; which one decides nothing.
cancellation_reason(c, seen) ==
  \/ cmd[c].ticket[1] # seen.parent
  \/ seen.current_epoch > cmd[c].epoch
  \/ ~seen.eligible \/ ~seen.authorized \/ ~seen.custody

MustCancel(c) == cancellation_reason(c, observe_assignment_liveness(c))

\* One round of the watch.  After the last one without a reason the command
\* fails and the assignment stays SENT.
Poll(c) ==
  /\ cmd[c].pc = "watching"
  /\ \/ /\ MustCancel(c)
        /\ cmd' = [cmd EXCEPT ![c].pc = "cancel"]
     \/ /\ ~MustCancel(c)
        /\ cmd[c].polls + 1 < MaxPolls
        /\ cmd' = [cmd EXCEPT ![c].polls = @ + 1]
     \/ /\ ~MustCancel(c)
        /\ cmd[c].polls + 1 = MaxPolls
        /\ End(c)
  /\ UNCHANGED <<disk, file, authz, edits, issueHistory>>

\* cancel_assignment_on_stream persists first; the status SENT is cancellable.
CancelPersist(c) ==
  /\ cmd[c].pc = "cancel"
  /\ UpdateStatus(c, "CANCELLED", "cancelled")
  /\ cancelled' = cancelled \cup {c}
  /\ UNCHANGED <<disk, authz, edits, reserved, overlapped>>

SendCancel(c) ==
  /\ cmd[c].pc = "cancelled"
  /\ cmd[c].wrk \in {"assigned", "answered"}
  /\ cmd' = [cmd EXCEPT
       ![c].pc = "late",
       ![c].wrk = IF @ = "assigned" THEN "cancelled" ELSE @]
  /\ UNCHANGED <<disk, file, authz, edits, issueHistory>>

\* The late result is finalized, which must fail: expect_err panics otherwise.
LateResult(c) ==
  /\ cmd[c].pc = "late"
  /\ cmd[c].up # Nothing
  /\ IF Finalizes(c) /\ cmd[c].up # "FALSE_WIN"
       THEN cmd' = [cmd EXCEPT ![c] = Ended(@, "panicked")]
       ELSE End(c)
  /\ UNCHANGED <<disk, file, authz, edits, issueHistory>>

-----------------------------------------------------------------------------
(* The worker, the failures, the node and the operator                       *)

\* process_one_assignment
WorkerExecutes(c, answer) ==
  /\ cmd[c].wrk = "assigned"
  /\ cmd' = [cmd EXCEPT ![c].wrk = "answered", ![c].up = answer]
  /\ UNCHANGED <<disk, file, authz, edits, issueHistory>>

\* run_reference_worker_ignore_cancel_one: the result follows the WORK_CANCEL,
\* once its signature and its binding to the assignment are verified.
WorkerIgnoresCancel(c, answer) ==
  /\ cmd[c].wrk = "cancelled"
  /\ cmd' = [cmd EXCEPT ![c].wrk = "answered", ![c].up = answer]
  /\ UNCHANGED <<disk, file, authz, edits, issueHistory>>

\* The worker's process ends, or its read of the stream times out.
WorkerGone(c) ==
  /\ cmd[c].wrk \in {"ready", "assigned"}
  /\ cmd' = [cmd EXCEPT ![c].wrk = "gone"]
  /\ UNCHANGED <<disk, file, authz, edits, issueHistory>>

\* A write to the stream fails, or a read ends, brings something else than the
\* result of this assignment, or times out.
StreamFails(c) ==
  /\ cmd[c].pc \in {"reserved", "sent", "cancelled", "late"}
  /\ End(c)
  /\ UNCHANGED <<disk, file, authz, edits, issueHistory>>

\* The command is killed, or a file cannot be read or written.
KillCommand(c) ==
  /\ c \in Running
  /\ cmd' = [cmd EXCEPT ![c] = Ended(@, "killed")]
  /\ UNCHANGED <<disk, file, authz, edits, issueHistory>>

\* The node commits a block that it mined or received.
NodeBlock(op) ==
  /\ disk.tip_epoch < MaxEpoch
  /\ disk' = [chain |-> Append(disk.chain,
                               [by |-> NodeMiner, epoch |-> disk.tip_epoch + 1,
                                op |-> op]),
              tip_epoch |-> disk.tip_epoch + 1]
  /\ UNCHANGED <<file, authz, edits, cmd, issueHistory>>

EditAuthz(ws) ==
  /\ edits < MaxEdits
  /\ ws # authz
  /\ authz' = ws
  /\ edits' = edits + 1
  /\ UNCHANGED <<disk, file, cmd, issueHistory>>

-----------------------------------------------------------------------------
ServiceInit ==
  /\ disk = [chain |-> <<>>, tip_epoch |-> 0]
  /\ file = {} /\ authz = Worker /\ edits = 0
  /\ cmd = [c \in Cmd |-> Idle]
  /\ reserved = {} /\ cancelled = {} /\ overlapped = FALSE

\* What the command does by itself once it has its worker.
CommandStep(c) ==
  \/ ReserveTicket(c) \/ TransmitAssignment(c) \/ MarkSent(c) \/ Receive(c)
  \/ Finalize(c) \/ RejectFalseWin(c)
  \/ Poll(c) \/ CancelPersist(c) \/ SendCancel(c) \/ LateResult(c)
  \/ StreamFails(c)

Launches ==
  \E c \in Cmd, kind \in Kind, epoch \in 1 .. MaxEpoch : Launch(c, kind, epoch)

Moves ==
  \/ \E c \in Cmd :
       \/ OpenCommand(c)
       \/ \E w \in Worker : Accept(c, w)
       \/ CommandStep(c)
       \/ \E a \in Answer : WorkerExecutes(c, a) \/ WorkerIgnoresCancel(c, a)
       \/ WorkerGone(c)
       \/ KillCommand(c)
  \/ \E op \in NodeOps : NodeBlock(op)
  \/ \E ws \in SUBSET Worker : EditAuthz(ws)

ServiceNext == Launches \/ Moves

ServiceSpec == ServiceInit /\ [][ServiceNext]_serviceVars

\* A command runs as long as it can; every read of the stream has a timeout.
FairServiceSpec == ServiceSpec /\ \A c \in Cmd : WF_serviceVars(CommandStep(c))

-----------------------------------------------------------------------------
(* Properties                                                                *)

Ticket == Seq(Block) \X (1 .. MaxEpoch) \X (0 .. WorkUnits - 1)

\* Type invariant: in particular every ticket index is inside the budget.
ServiceTypeOK ==
  /\ disk.chain \in Seq(Block) /\ disk.tip_epoch \in 0 .. MaxEpoch
  /\ \A l \in {file} \cup {cmd[c].ledger : c \in Cmd} : \A r \in l :
       r.aid \in Cmd /\ r.ticket \in Ticket /\ r.status \in AssignmentStatus
  /\ authz \in SUBSET Worker /\ edits \in 0 .. MaxEdits
  /\ \A c \in Cmd : /\ cmd[c].kind \in Kind /\ cmd[c].polls \in 0 .. MaxPolls
                    /\ cmd[c].state.chain \in Seq(Block)
                    /\ cmd[c].ticket \in Ticket \cup {Nothing}
                    /\ cmd[c].up \in Answer \cup {Nothing}

Chains == {disk.chain} \cup {cmd[c].state.chain : c \in Cmd}

Below(chain, k) == SubSeq(chain, 1, k - 1)

\* Whatever the commands and the node write over each other, every chain that
\* is stored or held is one the consensus rules allow: the epochs grow, and a
\* worker's block was signed, once, with the key and for the license that the
\* blocks below it make current (prepare_canonical_ticket).
ChainsAreValid ==
  \A chain \in Chains : \A k \in DOMAIN chain :
    /\ k > 1 => chain[k - 1].epoch < chain[k].epoch
    /\ chain[k].by \in Cmd =>
         /\ cmd[chain[k].by].signer = mining_public_key(Below(chain, k))
         /\ is_eligible(Below(chain, k))
         /\ \A j \in 1 .. k - 1 : chain[j].by # chain[k].by

\* "cancelled WorkResult must never finalize": once a command has cancelled
\* its assignment, the proof becomes no block, even of a worker that ignores
\* the WORK_CANCEL or whose result crossed it, and expect_err never panics.
CancelledNeverFinalizes ==
  \A c \in cancelled :
    /\ cmd[c].pc # "panicked"
    /\ \A chain \in Chains : \A k \in DOMAIN chain : chain[k].by # c

\* "This never creates a new consensus chance": a ticket that a reassign
\* command reserves is one that a command of another kind reserved before.
RedundantNeverWidens ==
  \A p \in reserved :
    cmd[p[1]].kind = "reassign" =>
      \E q \in reserved : q[2] = p[2] /\ cmd[q[1]].kind # "reassign"

\* Commands that run one after the other never issue one ticket as new twice,
\* also not after it was cancelled, invalidated or given up.
UniqueTicketOnce ==
  ~overlapped =>
    \A p, q \in reserved :
      /\ p[2] = q[2]
      /\ cmd[p[1]].kind # "reassign" /\ cmd[q[1]].kind # "reassign"
      => p = q

\* The budget of tickets: commands that run one after the other issue none as
\* new twice, and a reassigned ticket is one that was issued before.
TicketsAreIssuedOnce == ServiceTypeOK /\ UniqueTicketOnce /\ RedundantNeverWidens

\* A worker's block is one the consensus rules allow, whatever commands and the
\* node write over each other, and never the result of cancelled work.
BlocksAreLegitimate == ChainsAreValid /\ CancelledNeverFinalizes

\* The stored files revoke what the command assigned: the chain has moved on or
\* the worker lost the license.
Revoked(c) == cmd[c].ticket[1] # disk.chain \/ cmd[c].worker \notin authz

\* The lifecycle watch does not miss a revocation: while it watches, one that
\* stays in the stored files is answered by a cancellation, never by giving
\* up, unless the command is killed.
RevokedIsCancelled ==
  \A c \in Cmd :
    cmd[c].pc = "watching" /\ Revoked(c)
      ~> \/ c \in cancelled
         \/ cmd[c].pc = "killed"
         \/ cmd[c].pc = "watching" /\ ~Revoked(c)

=============================================================================
