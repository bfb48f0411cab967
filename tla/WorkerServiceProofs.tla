------------------------ MODULE WorkerServiceProofs ------------------------
(***************************************************************************)
(* Proofs about the one-ticket worker commands, for any number of commands  *)
(* and workers, any budget of tickets and any number of commands at a time: *)
(* the chains they and the node store over each other are valid, cancelled  *)
(* work makes no block, and the budget of tickets is not widened.           *)
(***************************************************************************)
EXTENDS WorkerService, WellFoundedInduction, TLAPS

-----------------------------------------------------------------------------
(* The state.                                                               *)

State == [chain : Seq(Block), tip_epoch : 0 .. MaxEpoch]

Empty == [chain |-> <<>>, tip_epoch |-> 0]

Record == [aid : Cmd, ticket : Ticket, status : AssignmentStatus]

\* The keys a command can have unlocked.
SignerKey == {0} \cup {mining_public_key(chain) : chain \in Seq(Block)}

\* From reserve_and_persist to the end of the session.
Issued == {"reserved", "transmitted", "sent", "watching", "result", "cancel",
           "cancelled", "late"}

\* The command has its own copies of the files.
Opened == {"listening", "planned"} \cup Issued

Ending == {"down", "killed", "panicked"}

Command ==
  [pc : {"new", "launched"} \cup Opened \cup Ending, kind : Kind,
   epoch : 0 .. MaxEpoch, signer : SignerKey, state : State,
   ledger : SUBSET Record, authz : SUBSET Worker, worker : Worker \cup {Nothing},
   ticket : Ticket \cup {Nothing}, fresh : BOOLEAN, polls : 0 .. MaxPolls,
   wrk : {"absent", "ready", "assigned", "answered", "cancelled", "gone"},
   up : Answer \cup {Nothing}]

Types ==
  /\ disk \in State /\ file \in SUBSET Record
  /\ authz \in SUBSET Worker /\ edits \in 0 .. MaxEdits
  /\ cmd \in [Cmd -> Command]
  /\ reserved \in SUBSET (Cmd \X Ticket) /\ cancelled \in SUBSET Cmd
  /\ overlapped \in BOOLEAN

-----------------------------------------------------------------------------
(* The inductive invariant.  Its parts take the commands K, the cancelled    *)
(* ones X and the reservations R as parameters.                             *)

\* A block of a command is the only one below its own end, was signed with the
\* key and for the license of the blocks below, and its command has ended
\* without having cancelled: a chain stays valid whatever a command does next.
Good(chain, K, X) ==
  \A k \in DOMAIN chain :
    /\ k > 1 => chain[k - 1].epoch < chain[k].epoch
    /\ chain[k].by \in Cmd =>
         /\ K[chain[k].by].pc = "down" /\ chain[k].by \notin X
         /\ K[chain[k].by].signer = mining_public_key(Below(chain, k))
         /\ is_eligible(Below(chain, k))
         /\ \A j \in 1 .. k - 1 : chain[j].by # chain[k].by

Upto(chain, epoch) == \A k \in DOMAIN chain : chain[k].epoch <= epoch

GoodState(s, K, X) == Good(s.chain, K, X) /\ Upto(s.chain, s.tip_epoch)

\* What a command c knows at each step.
Local(c, k) ==
  /\ k.pc \in {"launched"} \cup Opened => k.epoch \in 1 .. MaxEpoch
  /\ k.pc \in {"planned"} \cup Issued =>
       k.ticket \in Ticket /\ k.state.tip_epoch = k.epoch - 1
  /\ k.pc = "planned" =>
       (k.kind = "reassign" <=> ticket_seen_in(k.ledger, k.ticket))
  /\ k.pc \in Issued => \E r \in k.ledger : r.aid = c
  /\ k.pc \in {"cancelled", "late"} =>
       \E r \in k.ledger : r.aid = c /\ r.status = "CANCELLED"

\* A ticket was issued as new.
IssuedAsNew(t, R, K) == \E q \in R : q[2] = t /\ K[q[1]].kind # "reassign"

\* Every record, in whatever copy of the ledger, is of a ticket issued as new.
Backed(l, R, K) == \A r \in l : IssuedAsNew(r.ticket, R, K)

ReservedInv(R, K) ==
  \A p \in R :
    /\ K[p[1]].pc \in Issued \cup Ending
    /\ K[p[1]].kind = "reassign" => IssuedAsNew(p[2], R, K)

CancelledInv(K, X) == \A c \in X : K[c].pc \in {"cancelled", "late", "down", "killed"}

IsRunning(k) == k.pc \in {"launched"} \cup Opened

\* Commands that run one after the other: the copy of the one that runs is the
\* file, and the file has every ticket that was ever reserved.
InTurnInv(K, R, f) ==
  /\ \A c, d \in Cmd : IsRunning(K[c]) /\ IsRunning(K[d]) => c = d
  /\ \A c \in Cmd : K[c].pc \in Opened => K[c].ledger = f
  /\ \A p \in R : ticket_seen_in(f, p[2])
  /\ \A p, q \in R :
       /\ p[2] = q[2]
       /\ K[p[1]].kind # "reassign" /\ K[q[1]].kind # "reassign"
       => p = q

ChainsInv ==
  /\ GoodState(disk, cmd, cancelled)
  /\ \A c \in Cmd : GoodState(cmd[c].state, cmd, cancelled)

LedgersInv ==
  /\ Backed(file, reserved, cmd)
  /\ \A c \in Cmd : Backed(cmd[c].ledger, reserved, cmd)

IInv ==
  /\ Types
  /\ ChainsInv
  /\ \A c \in Cmd : Local(c, cmd[c])
  /\ LedgersInv
  /\ ReservedInv(reserved, cmd)
  /\ CancelledInv(cmd, cancelled)
  /\ ~overlapped => InTurnInv(cmd, reserved, file)

-----------------------------------------------------------------------------
(* Lemmas about chains.                                                     *)

\* The blocks below a position do not change when a block is added.
LEMMA BelowAppend ==
  ASSUME NEW chain \in Seq(Block), NEW b \in Block
  PROVE  /\ Append(chain, b) \in Seq(Block)
         /\ DOMAIN Append(chain, b) = 1 .. Len(chain) + 1
         /\ \A k \in 1 .. Len(chain) :
              /\ Append(chain, b)[k] = chain[k]
              /\ Below(Append(chain, b), k) = Below(chain, k)
         /\ Append(chain, b)[Len(chain) + 1] = b
         /\ Below(Append(chain, b), Len(chain) + 1) = chain
<1> DEFINE long == Append(chain, b)
<1>1. /\ long \in Seq(Block) /\ Len(long) = Len(chain) + 1 /\ Len(chain) \in Nat
      /\ DOMAIN long = 1 .. Len(chain) + 1 /\ DOMAIN chain = 1 .. Len(chain)
      /\ \A k \in 1 .. Len(chain) : long[k] = chain[k]
      /\ long[Len(chain) + 1] = b
  OBVIOUS
<1> HIDE DEF long
<1>2. ASSUME NEW k \in 1 .. Len(chain) + 1
      PROVE  Below(long, k) = [i \in 1 .. k - 1 |-> chain[i]]
  <2>1. SubSeq(long, 1, k - 1) = [i \in 1 .. k - 1 |-> long[i]]
    BY <1>1
  <2>2. \A i \in 1 .. k - 1 : long[i] = chain[i]
    BY <1>1
  <2> QED
    BY <2>1, <2>2 DEF Below
<1>3. ASSUME NEW k \in 1 .. Len(chain)
      PROVE  Below(chain, k) = [i \in 1 .. k - 1 |-> chain[i]]
  BY <1>1 DEF Below
<1>4. [i \in 1 .. Len(chain) |-> chain[i]] = chain
  BY <1>1
<1>5. Below(long, Len(chain) + 1) = chain
  BY <1>1, <1>2, <1>4
<1>6. \A k \in 1 .. Len(chain) : Below(long, k) = Below(chain, k)
  BY <1>1, <1>2, <1>3
<1> QED
  BY <1>1, <1>5, <1>6 DEF long

\* A chain stays good when the commands that have a block in it stay as they
\* are and none of them is cancelled.
LEMMA GoodKept ==
  ASSUME NEW chain \in Seq(Block), NEW K, NEW X, NEW L, NEW Y, Good(chain, K, X),
         \A d \in Cmd : K[d].pc = "down" =>
           /\ L[d].pc = "down" /\ L[d].signer = K[d].signer
           /\ d \in Y => d \in X
  PROVE  Good(chain, L, Y)
BY DEF Good

\* A block on top of a good chain, of a later epoch; a command's block needs
\* the key and the license of that chain, and a command that just ended.
LEMMA GoodAppend ==
  ASSUME NEW chain \in Seq(Block), NEW K, NEW X, NEW b \in Block,
         Good(chain, K, X), NEW tip \in Nat, Upto(chain, tip), tip < b.epoch,
         b.by \in Cmd =>
           /\ K[b.by].pc = "down" /\ b.by \notin X
           /\ K[b.by].signer = mining_public_key(chain) /\ is_eligible(chain)
           /\ \A j \in 1 .. Len(chain) : chain[j].by # b.by
  PROVE  Good(Append(chain, b), K, X) /\ Upto(Append(chain, b), b.epoch)
<1> DEFINE long == Append(chain, b)
<1>1. /\ DOMAIN long = 1 .. Len(chain) + 1
      /\ \A k \in 1 .. Len(chain) :
           long[k] = chain[k] /\ Below(long, k) = Below(chain, k)
      /\ long[Len(chain) + 1] = b /\ Below(long, Len(chain) + 1) = chain
  BY BelowAppend
<1>2. Len(chain) \in Nat /\ DOMAIN chain = 1 .. Len(chain)
  OBVIOUS
<1>3. \A k \in 1 .. Len(chain) : chain[k].epoch \in Nat /\ chain[k].epoch <= tip
  <2>1. \A k \in 1 .. Len(chain) : chain[k] \in Block
    BY <1>2
  <2>2. \A x \in Block : x.epoch \in Nat
    BY ServiceAssumption DEF Block
  <2> QED
    BY <1>2, <2>1, <2>2 DEF Upto
<1>4. b.epoch \in Nat
  BY ServiceAssumption DEF Block
<1> HIDE DEF long
<1>5. ASSUME NEW k \in 1 .. Len(chain)
      PROVE  /\ k > 1 => long[k - 1].epoch < long[k].epoch
             /\ long[k].by \in Cmd =>
                  /\ K[long[k].by].pc = "down" /\ long[k].by \notin X
                  /\ K[long[k].by].signer = mining_public_key(Below(long, k))
                  /\ is_eligible(Below(long, k))
                  /\ \A j \in 1 .. k - 1 : long[j].by # long[k].by
  <2>1. long[k] = chain[k] /\ Below(long, k) = Below(chain, k)
    BY <1>1
  <2>2. \A j \in 1 .. k - 1 : long[j] = chain[j]
    BY <1>1, <1>2
  <2>3. k > 1 => k - 1 \in 1 .. k - 1
    BY <1>2
  <2> QED
    BY <1>2, <2>1, <2>2, <2>3 DEF Good
<1>6. ASSUME NEW k \in DOMAIN long, k \notin 1 .. Len(chain)
      PROVE  /\ k > 1 => long[k - 1].epoch < long[k].epoch
             /\ long[k].by \in Cmd =>
                  /\ K[long[k].by].pc = "down" /\ long[k].by \notin X
                  /\ K[long[k].by].signer = mining_public_key(Below(long, k))
                  /\ is_eligible(Below(long, k))
                  /\ \A j \in 1 .. k - 1 : long[j].by # long[k].by
  <2>1. k = Len(chain) + 1 /\ k - 1 = Len(chain)
    BY <1>1, <1>2, <1>6
  <2>2. long[k] = b /\ Below(long, k) = chain
    BY <1>1, <2>1
  <2>3. \A j \in 1 .. k - 1 : long[j] = chain[j]
    BY <1>1, <2>1
  <2>4. k > 1 => long[k - 1].epoch < long[k].epoch
    BY <1>2, <1>3, <1>4, <2>1, <2>2, <2>3
  <2> QED
    BY <2>1, <2>2, <2>3, <2>4
<1>7. Good(long, K, X)
  BY <1>1, <1>2, <1>5, <1>6 DEF Good
<1>8. Upto(long, b.epoch)
  BY <1>1, <1>2, <1>3, <1>4 DEF Upto
<1> QED
  BY <1>7, <1>8 DEF long

-----------------------------------------------------------------------------
(* What a step of a command keeps.                                          *)

\* The parts of a state, and what Command says of its fields.
LEMMA StateParts ==
  ASSUME NEW s \in State
  PROVE  s.chain \in Seq(Block) /\ s.tip_epoch \in 0 .. MaxEpoch
BY DEF State

\* The empty state of a command that has not opened its files.
LEMMA EmptyState ==
  /\ Empty \in State
  /\ \A K, X : GoodState(Empty, K, X)
<1>1. Empty \in State
  BY ServiceAssumption DEF Empty, State
<1>2. Empty.chain = <<>>
  BY DEF Empty
<1>3. \A k \in DOMAIN Empty.chain : FALSE
  BY <1>2
<1> QED
  BY <1>1, <1>3 DEF GoodState, Good, Upto

\* How the record k2 of a command may follow k: once it has ended normally it
\* stays so with its key, and once it has reserved it stays of one kind.
Follows(k, k2) ==
  /\ k.pc = "down" => k2.pc = "down" /\ k2.signer = k.signer
  /\ k.pc \in Issued \cup Ending =>
       k2.pc \in Issued \cup Ending /\ k2.kind = k.kind

\* Command c goes from its record to k2.
Goes(c, k2) ==
  /\ k2 \in Command /\ cmd' = [cmd EXCEPT ![c] = k2]
  /\ Follows(cmd[c], k2) /\ Local(c, k2)

\* The other commands stay as they are.
LEMMA GoesTyped ==
  ASSUME NEW c \in Cmd, NEW k2, Goes(c, k2), cmd \in [Cmd -> Command]
  PROVE  /\ cmd' \in [Cmd -> Command] /\ cmd'[c] = k2
         /\ \A d \in Cmd : d # c => cmd'[d] = cmd[d]
         /\ \A d \in Cmd : Follows(cmd[d], cmd'[d])
<1>1. cmd' \in [Cmd -> Command] /\ cmd'[c] = k2 /\ \A d \in Cmd : d # c => cmd'[d] = cmd[d]
  BY DEF Goes
<1>2. \A d \in Cmd : d # c => Follows(cmd[d], cmd'[d])
  BY <1>1 DEF Follows
<1>3. Follows(cmd[c], cmd'[c])
  BY <1>1 DEF Goes
<1> QED
  BY Zenon, <1>1, <1>2, <1>3

\* A stored or held state stays good.
LEMMA GoodStateKept ==
  ASSUME NEW s \in State, NEW K, NEW X, NEW L, NEW Y, GoodState(s, K, X),
         \A d \in Cmd : Follows(K[d], L[d]),
         \A d \in Cmd : d \in Y => d \in X \/ K[d].pc # "down"
  PROVE  GoodState(s, L, Y)
<1>1. s.chain \in Seq(Block) /\ Good(s.chain, K, X) /\ Upto(s.chain, s.tip_epoch)
  BY StateParts DEF GoodState
<1>2. \A d \in Cmd : K[d].pc = "down" =>
        L[d].pc = "down" /\ L[d].signer = K[d].signer /\ (d \in Y => d \in X)
  BY DEF Follows
<1>3. Good(s.chain, L, Y)
  BY <1>1, <1>2, GoodKept
<1> QED
  BY <1>1, <1>3 DEF GoodState

\* The chains: a step stores a good state or none, and its command holds what
\* it held, what is stored or nothing.
LEMMA ChainsStep ==
  ASSUME IInv, NEW c \in Cmd, NEW k2, Goes(c, k2),
         \A d \in Cmd : d \in cancelled' => d \in cancelled \/ cmd[d].pc # "down",
         disk' = disk \/ GoodState(disk', cmd', cancelled'),
         k2.state \in {cmd[c].state, disk', Empty}
  PROVE  ChainsInv'
<1>1. /\ cmd \in [Cmd -> Command] /\ disk \in State
      /\ GoodState(disk, cmd, cancelled)
      /\ \A d \in Cmd : GoodState(cmd[d].state, cmd, cancelled)
  BY DEF IInv, Types, ChainsInv
<1>2. /\ cmd'[c] = k2 /\ \A d \in Cmd : d # c => cmd'[d] = cmd[d]
      /\ \A d \in Cmd : Follows(cmd[d], cmd'[d])
  BY <1>1, GoesTyped
<1>3. \A d \in Cmd : cmd[d].state \in State
  BY <1>1 DEF Command
<1>4. GoodState(disk', cmd', cancelled')
  BY <1>1, <1>2, GoodStateKept
<1>5. \A d \in Cmd : GoodState(cmd[d].state, cmd', cancelled')
  BY <1>1, <1>2, <1>3, GoodStateKept
<1>6. GoodState(Empty, cmd', cancelled')
  BY EmptyState
<1>7. \A d \in Cmd : GoodState(cmd'[d].state, cmd', cancelled')
  BY <1>2, <1>4, <1>5, <1>6
<1> QED
  BY <1>4, <1>7 DEF ChainsInv

\* A ticket issued as new stays one.
LEMMA IssuedKept ==
  ASSUME NEW t, NEW R, NEW K, NEW S, NEW L, IssuedAsNew(t, R, K), R \subseteq S,
         \A p \in R : K[p[1]].kind = L[p[1]].kind
  PROVE  IssuedAsNew(t, S, L)
BY Zenon DEF IssuedAsNew

\* The kind of a command that has reserved is settled.
LEMMA KindsKept ==
  ASSUME IInv, NEW c \in Cmd, NEW k2, Goes(c, k2)
  PROVE  \A p \in reserved : /\ p[1] \in Cmd /\ cmd[p[1]].kind = cmd'[p[1]].kind
                             /\ cmd'[p[1]].pc \in Issued \cup Ending
<1>1. /\ cmd \in [Cmd -> Command] /\ reserved \in SUBSET (Cmd \X Ticket)
      /\ ReservedInv(reserved, cmd)
  BY DEF IInv, Types
<1>2. \A d \in Cmd : Follows(cmd[d], cmd'[d])
  BY <1>1, GoesTyped
<1>3. \A p \in reserved : p[1] \in Cmd /\ cmd[p[1]].pc \in Issued \cup Ending
  BY <1>1 DEF ReservedInv
<1> QED
  BY <1>2, <1>3 DEF Follows

\* The ledgers: likewise.
LEMMA LedgersStep ==
  ASSUME IInv, NEW c \in Cmd, NEW k2, Goes(c, k2), reserved \subseteq reserved',
         file' = file \/ Backed(file', reserved', cmd'),
         k2.ledger \in {cmd[c].ledger, file', {}}
  PROVE  LedgersInv'
<1>1. /\ cmd \in [Cmd -> Command] /\ Backed(file, reserved, cmd)
      /\ \A d \in Cmd : Backed(cmd[d].ledger, reserved, cmd)
  BY DEF IInv, Types, LedgersInv
<1>2. cmd'[c] = k2 /\ \A d \in Cmd : d # c => cmd'[d] = cmd[d]
  BY <1>1, GoesTyped
<1>3. \A p \in reserved : cmd[p[1]].kind = cmd'[p[1]].kind
  BY KindsKept
<1>4. ASSUME NEW l, Backed(l, reserved, cmd)
      PROVE  Backed(l, reserved', cmd')
  BY <1>3, <1>4, IssuedKept DEF Backed
<1>5. Backed(file', reserved', cmd') /\ Backed({}, reserved', cmd')
  BY <1>1, <1>4 DEF Backed
<1>6. \A d \in Cmd : Backed(cmd'[d].ledger, reserved', cmd')
  BY Zenon, <1>1, <1>2, <1>4, <1>5
<1> QED
  BY <1>5, <1>6 DEF LedgersInv

\* What lets commands that run in turn go on so: none joins a running one, only
\* a running one writes the ledger, and it keeps its copy equal to the file.
InTurnStep(c, k2) ==
  /\ ~overlapped
  /\ IsRunning(k2) => IsRunning(cmd[c]) \/ \A d \in Cmd : ~IsRunning(cmd[d])
  /\ file' = file \/ IsRunning(cmd[c])
  /\ k2.pc \in Opened => k2.ledger = file'
  /\ \A t : ticket_seen_in(file, t) => ticket_seen_in(file', t)

\* One command at a time has the copy that is the file.
LEMMA CopiesInTurn ==
  ASSUME IInv, NEW c \in Cmd, NEW k2, Goes(c, k2), InTurnStep(c, k2)
  PROVE  /\ \A a, b \in Cmd : IsRunning(cmd'[a]) /\ IsRunning(cmd'[b]) => a = b
         /\ \A a \in Cmd : cmd'[a].pc \in Opened => cmd'[a].ledger = file'
         /\ \A p \in reserved : ticket_seen_in(file', p[2])
<1>1. cmd \in [Cmd -> Command] /\ InTurnInv(cmd, reserved, file)
  BY DEF IInv, Types, InTurnStep
<1>2. cmd'[c] = k2 /\ \A d \in Cmd : d # c => cmd'[d] = cmd[d]
  BY <1>1, GoesTyped
<1>3. \A a, b \in Cmd : IsRunning(cmd[a]) /\ IsRunning(cmd[b]) => a = b
  BY <1>1 DEF InTurnInv
<1>4. \A a, b \in Cmd : IsRunning(cmd'[a]) /\ IsRunning(cmd'[b]) => a = b
  BY <1>2, <1>3 DEF InTurnStep
<1>5. ASSUME NEW a \in Cmd, cmd'[a].pc \in Opened
      PROVE  cmd'[a].ledger = file'
  <2>1. CASE a = c
    BY <1>2, <1>5, <2>1 DEF InTurnStep
  <2>2. CASE a # c
    <3>1. cmd'[a] = cmd[a] /\ cmd[a].pc \in Opened
      BY <1>2, <1>5, <2>2
    <3>2. IsRunning(cmd[a]) /\ cmd[a].ledger = file
      BY <1>1, <3>1 DEF IsRunning, InTurnInv
    <3>3. file' = file
      BY <1>3, <2>2, <3>2 DEF InTurnStep
    <3> QED
      BY <3>1, <3>2, <3>3
  <2> QED
    BY <2>1, <2>2
<1>6. \A p \in reserved : ticket_seen_in(file', p[2])
  BY <1>1 DEF InTurnInv, InTurnStep
<1> QED
  BY <1>4, <1>5, <1>6

\* A step that reserves nothing keeps the invariant if what it stores and holds
\* is good and backed, and a cancelled command goes on as one.
LEMMA StepKeeps ==
  ASSUME IInv, NEW c \in Cmd, NEW k2, Goes(c, k2),
         disk' \in State, file' \in SUBSET Record, authz' = authz, edits' = edits,
         reserved' = reserved, cancelled' \in {cancelled, cancelled \cup {c}},
         overlapped' \in BOOLEAN,
         c \in cancelled' => /\ k2.pc \in {"cancelled", "late", "down", "killed"}
                             /\ c \in cancelled \/ cmd[c].pc # "down",
         disk' = disk \/ GoodState(disk', cmd', cancelled'),
         k2.state \in {cmd[c].state, disk', Empty},
         file' = file \/ Backed(file', reserved', cmd'),
         k2.ledger \in {cmd[c].ledger, file', {}},
         ~overlapped' => InTurnStep(c, k2)
  PROVE  IInv'
<1>1. /\ Types /\ ReservedInv(reserved, cmd) /\ CancelledInv(cmd, cancelled)
      /\ \A d \in Cmd : Local(d, cmd[d])
  BY DEF IInv
<1>2. /\ cmd' \in [Cmd -> Command] /\ cmd'[c] = k2
      /\ \A d \in Cmd : d # c => cmd'[d] = cmd[d]
  BY <1>1, GoesTyped DEF Types
<1>3. Types'
  BY <1>1, <1>2 DEF Types
<1>4. ChainsInv'
  <2>1. \A d \in Cmd : d \in cancelled' => d \in cancelled \/ cmd[d].pc # "down"
    OBVIOUS
  <2> QED
    BY <2>1, ChainsStep
<1>5. \A d \in Cmd : Local(d, cmd'[d])
  BY <1>1, <1>2 DEF Goes
<1>6. LedgersInv'
  BY LedgersStep
<1>7. \A p \in reserved : /\ p[1] \in Cmd /\ cmd[p[1]].kind = cmd'[p[1]].kind
                          /\ cmd'[p[1]].pc \in Issued \cup Ending
  BY KindsKept
<1>8. ReservedInv(reserved', cmd')
  <2>1. \A t : IssuedAsNew(t, reserved, cmd) => IssuedAsNew(t, reserved, cmd')
    BY <1>7, IssuedKept
  <2> QED
    BY <1>1, <1>7, <2>1 DEF ReservedInv
<1>9. CancelledInv(cmd', cancelled')
  <2>1. cancelled \in SUBSET Cmd
    BY <1>1 DEF Types
  <2>2. \A d \in cancelled : cmd[d].pc \in {"cancelled", "late", "down", "killed"}
    BY <1>1 DEF CancelledInv
  <2>3. \A d \in cancelled' : d # c => d \in cancelled /\ cmd'[d] = cmd[d]
    BY <1>2, <2>1
  <2>4. ASSUME NEW d \in cancelled'
        PROVE  cmd'[d].pc \in {"cancelled", "late", "down", "killed"}
    <3>1. CASE d = c
      BY Zenon, <1>2, <3>1
    <3>2. CASE d # c
      BY <2>2, <2>3, <3>2
    <3> QED
      BY <3>1, <3>2
  <2> QED
    BY <2>4 DEF CancelledInv
<1>10. ASSUME ~overlapped' PROVE InTurnInv(cmd', reserved', file')
  <2>1. InTurnInv(cmd, reserved, file)
    BY <1>10 DEF IInv, InTurnStep
  <2>2. /\ \A a, b \in Cmd : IsRunning(cmd'[a]) /\ IsRunning(cmd'[b]) => a = b
        /\ \A a \in Cmd : cmd'[a].pc \in Opened => cmd'[a].ledger = file'
        /\ \A p \in reserved : ticket_seen_in(file', p[2])
    BY <1>10, CopiesInTurn
  <2>3. \A p, q \in reserved :
          /\ p[2] = q[2]
          /\ cmd'[p[1]].kind # "reassign" /\ cmd'[q[1]].kind # "reassign"
          => p = q
    BY <1>7, <2>1 DEF InTurnInv
  <2> QED
    BY <2>2, <2>3 DEF InTurnInv
<1> QED
  BY <1>3, <1>4, <1>5, <1>6, <1>8, <1>9, <1>10 DEF IInv

\* A step that writes no file: the command goes on with what it has, opens the
\* files, or gives its copies up.
LEMMA QuietKeeps ==
  ASSUME IInv, NEW c \in Cmd, NEW k2, Goes(c, k2),
         UNCHANGED <<disk, file, authz, edits, issueHistory>>,
         IsRunning(k2) => IsRunning(cmd[c]),
         c \in cancelled => k2.pc \in {"cancelled", "late", "down", "killed"},
         \/ k2.state = Empty /\ k2.ledger = {} /\ k2.pc \notin Opened
         \/ k2.state = disk /\ k2.ledger = file
         \/ /\ k2.state = cmd[c].state /\ k2.ledger = cmd[c].ledger
            /\ k2.pc \in Opened => cmd[c].pc \in Opened
  PROVE  IInv'
<1>1. Types /\ (~overlapped => InTurnInv(cmd, reserved, file))
  BY DEF IInv
<1>2. /\ disk' = disk /\ file' = file /\ authz' = authz /\ edits' = edits
      /\ reserved' = reserved /\ cancelled' = cancelled /\ overlapped' = overlapped
  BY DEF issueHistory
<1>3. /\ disk' \in State /\ file' \in SUBSET Record /\ overlapped' \in BOOLEAN
  BY <1>1, <1>2 DEF Types
<1>4. ~overlapped' => InTurnStep(c, k2)
  BY <1>1, <1>2 DEF InTurnStep, InTurnInv
<1>5. /\ k2.state \in {cmd[c].state, disk', Empty}
      /\ k2.ledger \in {cmd[c].ledger, file', {}}
  BY <1>2
<1> QED
  BY <1>2, <1>3, <1>4, <1>5, StepKeeps

-----------------------------------------------------------------------------
(* The steps that write no file.                                            *)

\* A process that ends leaves its kind and its key and nothing else.
LEMMA EndedIs ==
  ASSUME NEW c \in Cmd, NEW k \in Command, NEW pc \in Ending
  PROVE  /\ Ended(k, pc) \in Command
         /\ Ended(k, pc).pc = pc /\ Ended(k, pc).kind = k.kind
         /\ Ended(k, pc).signer = k.signer
         /\ Ended(k, pc).state = Empty /\ Ended(k, pc).ledger = {}
         /\ Local(c, Ended(k, pc)) /\ ~IsRunning(Ended(k, pc))
         /\ Ended(k, pc).pc \notin Opened
         /\ pc = "down" \/ k.pc # "down" => Follows(k, Ended(k, pc))
<1> DEFINE e == Ended(k, pc)
<1>1. /\ e = [Idle EXCEPT !.pc = pc, !.kind = k.kind, !.signer = k.signer]
      /\ k.kind \in Kind /\ k.signer \in SignerKey
  BY DEF Ended, Command
<1>2. /\ e.pc = pc /\ e.kind = k.kind /\ e.signer = k.signer
      /\ e.state = Empty /\ e.ledger = {}
  BY <1>1 DEF Idle, Empty
<1>3. e \in Command
  <2>1. 0 \in 0 .. MaxEpoch /\ 0 \in 0 .. MaxPolls /\ Empty \in State
    BY ServiceAssumption, EmptyState
  <2> QED
    BY Zenon, <1>1, <2>1 DEF Idle, Command, Empty
<1> HIDE DEF e
<1>4. e.pc \notin {"new", "launched"} \cup Opened
  BY <1>2 DEF Opened, Issued, Ending
<1>5. Local(c, e) /\ ~IsRunning(e) /\ e.pc \notin Opened
  BY <1>4 DEF Local, IsRunning, Opened, Issued
<1>6. pc = "down" \/ k.pc # "down" => Follows(k, e)
  BY <1>2 DEF Follows
<1> QED
  BY <1>2, <1>3, <1>5, <1>6 DEF e

\* A command that fails, gives up or is killed without writing anything.
LEMMA EndKeeps ==
  ASSUME IInv, NEW c \in Cmd, NEW pc \in {"down", "killed"},
         cmd[c].pc # "down", cmd' = [cmd EXCEPT ![c] = Ended(@, pc)],
         UNCHANGED <<disk, file, authz, edits, issueHistory>>
  PROVE  IInv'
<1> DEFINE k2 == Ended(cmd[c], pc)
<1>1. cmd[c] \in Command /\ pc \in Ending
  BY DEF IInv, Types, Ending
<1>2. /\ k2 \in Command /\ k2.pc = pc /\ k2.state = Empty /\ k2.ledger = {}
      /\ Local(c, k2) /\ ~IsRunning(k2) /\ Follows(cmd[c], k2) /\ k2.pc \notin Opened
  BY <1>1, EndedIs
<1>3. cmd' = [cmd EXCEPT ![c] = k2]
  OBVIOUS
<1> HIDE DEF k2
<1>4. Goes(c, k2)
  BY Zenon, <1>2, <1>3 DEF Goes
<1>5. k2.pc \in {"cancelled", "late", "down", "killed"}
  BY <1>2
<1> QED
  BY <1>2, <1>4, <1>5, QuietKeeps

\* The command keeps all that the invariant speaks of but its step.
Same(k, k2) ==
  /\ k2.kind = k.kind /\ k2.signer = k.signer /\ k2.epoch = k.epoch
  /\ k2.ticket = k.ticket /\ k2.state = k.state /\ k2.ledger = k.ledger

\* The command moves on within its session, before or after a cancellation, or
\* its stream or its worker does.
LEMMA MoveKeeps ==
  ASSUME IInv, NEW c \in Cmd, NEW k2 \in Command, cmd' = [cmd EXCEPT ![c] = k2],
         Same(cmd[c], k2),
         \/ k2.pc = cmd[c].pc
         \/ {cmd[c].pc, k2.pc} \subseteq Issued \ {"cancelled", "late"}
         \/ {cmd[c].pc, k2.pc} \subseteq {"cancelled", "late"},
         UNCHANGED <<disk, file, authz, edits, issueHistory>>
  PROVE  IInv'
<1>1. Local(c, cmd[c]) /\ CancelledInv(cmd, cancelled)
  BY DEF IInv
<1>2. Local(c, k2)
  BY <1>1 DEF Local, Same, Issued, Opened
<1>3. Follows(cmd[c], k2)
  BY DEF Follows, Same, Issued, Ending
<1>4. Goes(c, k2)
  BY <1>2, <1>3 DEF Goes
<1>5. (IsRunning(k2) => IsRunning(cmd[c])) /\ (k2.pc \in Opened => cmd[c].pc \in Opened)
  BY DEF IsRunning, Opened, Issued
<1>6. c \in cancelled => k2.pc \in {"cancelled", "late", "down", "killed"}
  BY <1>1 DEF CancelledInv, Issued
<1>7. k2.state = cmd[c].state /\ k2.ledger = cmd[c].ledger
  BY DEF Same
<1> QED
  BY <1>4, <1>5, <1>6, <1>7, QuietKeeps

\* The command line starts a command: the ones that run make it overlap.
LEMMA LaunchKeeps ==
  ASSUME IInv, NEW c \in Cmd, NEW kind \in Kind, NEW epoch \in 1 .. MaxEpoch,
         Launch(c, kind, epoch)
  PROVE  IInv'
<1> DEFINE k2 == [cmd[c] EXCEPT !.pc = "launched", !.kind = kind, !.epoch = epoch,
                                !.signer = mining_public_key(disk.chain)]
<1>1. /\ Types /\ CancelledInv(cmd, cancelled) /\ cmd[c] \in Command
      /\ (~overlapped => InTurnInv(cmd, reserved, file))
  BY DEF IInv, Types
<1>2. cmd[c].pc = "new" /\ cmd' = [cmd EXCEPT ![c] = k2]
  BY Zenon DEF Launch
<1>3. epoch \in 0 .. MaxEpoch /\ mining_public_key(disk.chain) \in SignerKey
  BY <1>1, ServiceAssumption, StateParts DEF Types, SignerKey
<1>4. /\ k2 \in Command /\ k2.pc = "launched" /\ k2.epoch = epoch
      /\ k2.state = cmd[c].state /\ k2.ledger = cmd[c].ledger
  BY Zenon, <1>1, <1>3 DEF Command
<1> HIDE DEF k2
<1>5. Local(c, k2) /\ Follows(cmd[c], k2)
  BY <1>2, <1>4 DEF Local, Follows, Opened, Issued, Ending
<1>6. Goes(c, k2)
  BY <1>2, <1>4, <1>5 DEF Goes
<1>7. c \notin cancelled
  BY <1>1, <1>2 DEF CancelledInv
<1>8. /\ disk' = disk /\ file' = file /\ authz' = authz /\ edits' = edits
      /\ reserved' = reserved /\ cancelled' = cancelled
      /\ overlapped' = (overlapped \/ Running # {})
  BY DEF Launch
<1>9. Running = {} => \A d \in Cmd : ~IsRunning(cmd[d])
  BY <1>1 DEF Running, IsRunning, Opened, Issued
<1>10. ~overlapped' => InTurnStep(c, k2)
  BY Zenon, <1>1, <1>4, <1>8, <1>9 DEF InTurnStep, Opened, Issued
<1>11. disk' \in State /\ file' \in SUBSET Record /\ overlapped' \in BOOLEAN
  BY <1>1, <1>8 DEF Types
<1> QED
  BY <1>4, <1>6, <1>7, <1>8, <1>10, <1>11, StepKeeps

\* load_state and prepare_runtime_state give the command its own copies.
LEMMA OpenKeeps ==
  ASSUME IInv, NEW c \in Cmd, OpenCommand(c)
  PROVE  IInv'
<1>1. /\ Types /\ CancelledInv(cmd, cancelled) /\ cmd[c] \in Command
      /\ Local(c, cmd[c]) /\ cmd[c].pc = "launched"
      /\ UNCHANGED <<disk, file, authz, edits, issueHistory>>
  BY DEF IInv, Types, OpenCommand
<1>2. CASE End(c)
  BY Zenon, <1>1, <1>2, EndKeeps DEF End
<1>3. CASE cmd' = [cmd EXCEPT ![c].pc = "listening", ![c].state = disk,
                              ![c].ledger = file, ![c].authz = authz]
  <2> DEFINE k2 == [cmd[c] EXCEPT !.pc = "listening", !.state = disk,
                                  !.ledger = file, !.authz = authz]
  <2>1. cmd' = [cmd EXCEPT ![c] = k2]
    BY Zenon, <1>3
  <2>2. /\ k2 \in Command /\ k2.pc = "listening" /\ k2.epoch = cmd[c].epoch
        /\ k2.state = disk /\ k2.ledger = file
    BY Zenon, <1>1 DEF Command, Types, Opened
  <2> HIDE DEF k2
  <2>3. Local(c, k2) /\ Follows(cmd[c], k2)
    BY <1>1, <2>2 DEF Local, Follows, Issued, Ending
  <2>4. Goes(c, k2)
    BY <2>1, <2>2, <2>3 DEF Goes
  <2>5. c \notin cancelled /\ IsRunning(cmd[c])
    BY <1>1 DEF CancelledInv, IsRunning
  <2> QED
    BY <1>1, <2>2, <2>4, <2>5, QuietKeeps
<1> QED
  BY <1>2, <1>3 DEF OpenCommand

\* The steps within a session that write to the stream or look at the files,
\* and the worker's.
LEMMA SessionKeeps ==
  ASSUME IInv, NEW c \in Cmd,
         \/ TransmitAssignment(c) \/ SendCancel(c) \/ WorkerGone(c)
         \/ \E a \in Answer : WorkerExecutes(c, a) \/ WorkerIgnoresCancel(c, a)
  PROVE  IInv'
<1>1. cmd[c] \in Command /\ cmd \in [Cmd -> Command]
  BY DEF IInv, Types
<1>2. CASE TransmitAssignment(c)
  <2> DEFINE k2 == [cmd[c] EXCEPT !.pc = "transmitted", !.wrk = "assigned"]
  <2>1. cmd' = [cmd EXCEPT ![c] = k2] /\ cmd[c].pc = "reserved"
    BY Zenon, <1>2 DEF TransmitAssignment
  <2>2. k2 \in Command /\ Same(cmd[c], k2) /\ k2.pc = "transmitted"
    BY Zenon, <1>1 DEF Command, Same, Opened, Issued
  <2>3. UNCHANGED <<disk, file, authz, edits, issueHistory>>
    BY <1>2 DEF TransmitAssignment
  <2> HIDE DEF k2
  <2>4. {cmd[c].pc, k2.pc} \subseteq Issued \ {"cancelled", "late"}
    BY <2>1, <2>2 DEF Issued
  <2> QED
    BY Zenon, <2>1, <2>2, <2>3, <2>4, MoveKeeps
<1>3. CASE SendCancel(c)
  <2> DEFINE w2 == IF cmd[c].wrk = "assigned" THEN "cancelled" ELSE cmd[c].wrk
             k2 == [cmd[c] EXCEPT !.pc = "late", !.wrk = w2]
  <2>1. cmd' = [cmd EXCEPT ![c] = k2] /\ cmd[c].pc = "cancelled"
    BY Zenon, <1>1, <1>3 DEF SendCancel
  <2>2. k2 \in Command /\ Same(cmd[c], k2) /\ k2.pc = "late"
    BY Zenon, <1>1 DEF Command, Same, Opened, Issued
  <2>3. UNCHANGED <<disk, file, authz, edits, issueHistory>>
    BY <1>3 DEF SendCancel
  <2> HIDE DEF k2
  <2>4. {cmd[c].pc, k2.pc} \subseteq {"cancelled", "late"}
    BY <2>1, <2>2
  <2> QED
    BY Zenon, <2>1, <2>2, <2>3, <2>4, MoveKeeps
<1>4. CASE WorkerGone(c)
  <2> DEFINE k2 == [cmd[c] EXCEPT !.wrk = "gone"]
  <2>1. cmd' = [cmd EXCEPT ![c] = k2] /\ UNCHANGED <<disk, file, authz, edits, issueHistory>>
    BY <1>4 DEF WorkerGone
  <2>2. k2 \in Command /\ Same(cmd[c], k2) /\ k2.pc = cmd[c].pc
    BY <1>1 DEF Command, Same
  <2> QED
    BY Zenon, <2>1, <2>2, MoveKeeps
<1>5. ASSUME NEW a \in Answer, WorkerExecutes(c, a) \/ WorkerIgnoresCancel(c, a)
      PROVE  IInv'
  <2> DEFINE k2 == [cmd[c] EXCEPT !.wrk = "answered", !.up = a]
  <2>1. cmd' = [cmd EXCEPT ![c] = k2] /\ UNCHANGED <<disk, file, authz, edits, issueHistory>>
    BY Zenon, <1>5 DEF WorkerExecutes, WorkerIgnoresCancel
  <2>2. k2 \in Command /\ Same(cmd[c], k2) /\ k2.pc = cmd[c].pc
    BY Zenon, <1>1 DEF Command, Same
  <2> QED
    BY Zenon, <2>1, <2>2, MoveKeeps
<1> QED
  BY <1>2, <1>3, <1>4, <1>5

\* A round of the lifecycle watch.
LEMMA PollKeeps ==
  ASSUME IInv, NEW c \in Cmd, Poll(c)
  PROVE  IInv'
<1>1. /\ cmd[c] \in Command /\ cmd \in [Cmd -> Command] /\ cmd[c].pc = "watching"
      /\ UNCHANGED <<disk, file, authz, edits, issueHistory>>
  BY DEF IInv, Types, Poll
<1>2. CASE cmd' = [cmd EXCEPT ![c].pc = "cancel"]
  <2> DEFINE k2 == [cmd[c] EXCEPT !.pc = "cancel"]
  <2>1. cmd' = [cmd EXCEPT ![c] = k2]
    BY <1>2
  <2>2. k2 \in Command /\ Same(cmd[c], k2) /\ k2.pc = "cancel"
    BY <1>1 DEF Command, Same, Opened, Issued
  <2> HIDE DEF k2
  <2>3. {cmd[c].pc, k2.pc} \subseteq Issued \ {"cancelled", "late"}
    BY <1>1, <2>2 DEF Issued
  <2> QED
    BY Zenon, <1>1, <2>1, <2>2, <2>3, MoveKeeps
<1>3. CASE /\ cmd[c].polls + 1 < MaxPolls
           /\ cmd' = [cmd EXCEPT ![c].polls = @ + 1]
  <2> DEFINE k2 == [cmd[c] EXCEPT !.polls = @ + 1]
  <2>1. cmd' = [cmd EXCEPT ![c] = k2]
    BY <1>3
  <2>2. cmd[c].polls + 1 \in 0 .. MaxPolls
    BY <1>1, <1>3, ServiceAssumption DEF Command
  <2>3. k2 \in Command /\ Same(cmd[c], k2) /\ k2.pc = cmd[c].pc
    BY <1>1, <2>2 DEF Command, Same
  <2> QED
    BY Zenon, <1>1, <2>1, <2>3, MoveKeeps
<1>4. CASE End(c)
  BY Zenon, <1>1, <1>4, EndKeeps DEF End
<1> QED
  BY <1>2, <1>3, <1>4 DEF Poll

\* A late result does not finalize, because the command's own ledger says that
\* the assignment is cancelled: expect_err never panics.
LEMMA LateResultKeeps ==
  ASSUME IInv, NEW c \in Cmd, LateResult(c)
  PROVE  IInv'
<1>1. /\ Local(c, cmd[c]) /\ cmd[c].pc = "late"
      /\ UNCHANGED <<disk, file, authz, edits, issueHistory>>
  BY DEF IInv, LateResult
<1>2. PICK r \in cmd[c].ledger : r.aid = c /\ r.status = "CANCELLED"
  BY <1>1 DEF Local
<1>3. "CANCELLED" \in ledger_status_in(cmd[c].ledger, c)
  BY <1>2 DEF ledger_status_in
<1>4. ~Finalizes(c)
  BY <1>3 DEF Finalizes, StatusFits
<1>5. End(c)
  BY <1>4 DEF LateResult
<1> QED
  BY Zenon, <1>1, <1>5, EndKeeps DEF End

\* The stream fails or the command is killed.
LEMMA FailureKeeps ==
  ASSUME IInv, NEW c \in Cmd, StreamFails(c) \/ KillCommand(c)
  PROVE  IInv'
<1>1. /\ cmd[c].pc # "down" /\ UNCHANGED <<disk, file, authz, edits, issueHistory>>
      /\ \E pc \in {"down", "killed"} : cmd' = [cmd EXCEPT ![c] = Ended(@, pc)]
  BY DEF StreamFails, KillCommand, Running, End
<1> QED
  BY Zenon, <1>1, EndKeeps

-----------------------------------------------------------------------------
(* The steps that write the chain state.                                    *)

\* A step that stores a state and lets the command go on with it, or end.
LEMMA StoreKeeps ==
  ASSUME IInv, NEW c \in Cmd, NEW k2, Goes(c, k2), IsRunning(cmd[c]),
         disk' \in State, GoodState(disk', cmd', cancelled), c \notin cancelled,
         UNCHANGED <<file, authz, edits, issueHistory>>,
         k2.state \in {cmd[c].state, disk', Empty},
         \/ k2.ledger = {} /\ k2.pc \notin Opened
         \/ k2.ledger = cmd[c].ledger /\ cmd[c].pc \in Opened
  PROVE  IInv'
<1>1. Types /\ (~overlapped => InTurnInv(cmd, reserved, file))
  BY DEF IInv
<1>2. /\ file' = file /\ authz' = authz /\ edits' = edits
      /\ reserved' = reserved /\ cancelled' = cancelled /\ overlapped' = overlapped
  BY DEF issueHistory
<1>3. file' \in SUBSET Record /\ overlapped' \in BOOLEAN
  BY <1>1, <1>2 DEF Types
<1>4. ~overlapped' => InTurnStep(c, k2)
  BY <1>1, <1>2 DEF InTurnStep, InTurnInv
<1>5. k2.ledger \in {cmd[c].ledger, file', {}} /\ GoodState(disk', cmd', cancelled')
  BY <1>2
<1> QED
  BY <1>2, <1>3, <1>4, <1>5, StepKeeps

Less == {p \in Nat \X Nat : p[1] < p[2]}

\* The pairs of a smaller and a greater number.
LEMMA LessPairs == \A x, y \in Nat : x < y => <<x, y>> \in Less
<1>1. TAKE x, y \in Nat
<1>2. HAVE x < y
<1>3. <<x, y>> \in Nat \X Nat /\ <<x, y>>[1] = x /\ <<x, y>>[2] = y
  OBVIOUS
<1> QED
  BY Zenon, <1>2, <1>3 DEF Less

\* next_unique_ticket_index finds an index whenever one is free: a set of
\* natural numbers has a least element.
LEMMA LeastNatural ==
  ASSUME NEW T \in SUBSET Nat, T # {}
  PROVE  \E x \in T : \A y \in T : x <= y
<1>1. OpToRel(<, Nat) = Less
  BY Zenon DEF OpToRel, Less
<1>2. IsWellFoundedOn(Less, Nat)
  BY Zenon, <1>1, NatLessThanWellFounded
<1>3. PICK x \in T : \A y \in T : <<y, x>> \notin Less
  BY Zenon, <1>2, WFMin
<1>4. ASSUME NEW y \in T PROVE x <= y
  <2>1. x \in Nat /\ y \in Nat
    OBVIOUS
  <2>2. <<y, x>> \notin Less
    BY Zenon, <1>3
  <2>3. ~(y < x)
    BY Zenon, <2>1, <2>2, LessPairs
  <2> QED
    BY <2>1, <2>3
<1> QED
  BY <1>4

\* The ticket that Plans yields is free, or for a reassign one that is taken.
LEMMA PlannedTicket ==
  ASSUME NEW c \in Cmd, cmd[c] \in Command, NEW i \in Plans(c),
         cmd[c].epoch \in 1 .. MaxEpoch
  PROVE  LET t == ticket_key(Prepared(cmd[c].state, cmd[c].epoch), cmd[c].epoch, i)
         IN  /\ t \in Ticket
             /\ cmd[c].kind = "reassign" <=> ticket_seen_in(cmd[c].ledger, t)
<1> DEFINE s == cmd[c].state
           t == ticket_key(Prepared(s, cmd[c].epoch), cmd[c].epoch, i)
<1>1. s \in State
  BY DEF Command
<1>2. Prepared(s, cmd[c].epoch).chain = s.chain /\ s.chain \in Seq(Block)
  BY <1>1 DEF Prepared, State
<1>3. t = <<s.chain, cmd[c].epoch, i>> /\ t = ticket_key(s, cmd[c].epoch, i)
  BY <1>2 DEF ticket_key
<1>4. /\ i \in 0 .. WorkUnits - 1
      /\ cmd[c].kind = "reassign" => ticket_seen_in(cmd[c].ledger, ticket_key(s, cmd[c].epoch, i))
      /\ cmd[c].kind # "reassign" => ~ticket_seen_in(cmd[c].ledger, ticket_key(s, cmd[c].epoch, i))
  <2>1. CASE cmd[c].kind = "reassign"
    BY <2>1 DEF Plans, redundant_plan_for_session
  <2>2. CASE cmd[c].kind # "reassign"
    <3> DEFINE free == {j \in 0 .. WorkUnits - 1 :
                          ~ticket_seen_in(cmd[c].ledger, ticket_key(s, cmd[c].epoch, j))}
    <3>1. i \in next_unique_ticket_index(cmd[c].ledger, s, cmd[c].epoch)
      BY <2>2 DEF Plans
    <3>2. free # {} /\ i = CHOOSE j \in free : \A m \in free : j <= m
      BY <3>1 DEF next_unique_ticket_index
    <3>3. \E j \in free : \A m \in free : j <= m
      <4>1. free \in SUBSET Nat
        BY ServiceAssumption
      <4> QED
        BY Zenon, <3>2, <4>1, LeastNatural
    <3>4. i \in free
      BY Zenon, <3>2, <3>3
    <3> QED
      BY <2>2, <3>4
  <2> QED
    BY <2>1, <2>2
<1>5. t \in Ticket
  BY <1>2, <1>3, <1>4 DEF Ticket
<1> QED
  BY <1>3, <1>4, <1>5

\* prepare_canonical_ticket: the prepared state is the command's own, with the
\* skipped epochs, and is saved over whatever was stored.
LEMMA AcceptKeeps ==
  ASSUME IInv, NEW c \in Cmd, NEW w \in Worker, Accept(c, w)
  PROVE  IInv'
<1>1. /\ Types /\ CancelledInv(cmd, cancelled) /\ cmd[c] \in Command
      /\ cmd \in [Cmd -> Command] /\ Local(c, cmd[c]) /\ cmd[c].pc = "listening"
      /\ GoodState(cmd[c].state, cmd, cancelled)
      /\ UNCHANGED <<file, authz, edits, issueHistory>>
  BY Zenon DEF IInv, Types, ChainsInv, Accept
<1>2. CASE End(c) /\ UNCHANGED disk
  BY Zenon, <1>1, <1>2, EndKeeps DEF End
<1>3. ASSUME NEW i \in Plans(c),
             Prepares(cmd[c].state, cmd[c].epoch, cmd[c].signer),
             disk' = Prepared(cmd[c].state, cmd[c].epoch),
             cmd' = [cmd EXCEPT
                       ![c].pc = "planned", ![c].worker = w, ![c].state = disk',
                       ![c].ticket = ticket_key(disk', cmd[c].epoch, i),
                       ![c].authz = {}, ![c].wrk = "ready"]
      PROVE  IInv'
  <2> DEFINE s == cmd[c].state
             t == ticket_key(disk', cmd[c].epoch, i)
             k2 == [cmd[c] EXCEPT !.pc = "planned", !.worker = w, !.state = disk',
                                  !.ticket = t, !.authz = {}, !.wrk = "ready"]
  <2>1. cmd' = [cmd EXCEPT ![c] = k2]
    BY Zenon, <1>3
  <2>2. cmd[c].epoch \in 1 .. MaxEpoch /\ s \in State /\ cmd[c].epoch > s.tip_epoch
    BY <1>1, <1>3 DEF Local, Opened, Command, Prepares
  <2>3. s.chain \in Seq(Block) /\ s.tip_epoch \in 0 .. MaxEpoch
    BY <2>2, StateParts
  <2>4. disk'.chain = s.chain /\ disk'.tip_epoch = cmd[c].epoch - 1 /\ disk' \in State
    BY <1>3, <2>2, <2>3, ServiceAssumption DEF Prepared, State
  <2>5. t \in Ticket /\ (cmd[c].kind = "reassign" <=> ticket_seen_in(cmd[c].ledger, t))
    BY <1>1, <1>3, <2>2, PlannedTicket
  <2> HIDE DEF t
  <2>6. /\ k2 \in Command /\ k2.pc = "planned" /\ k2.state = disk' /\ k2.ticket = t
        /\ k2.ledger = cmd[c].ledger /\ k2.kind = cmd[c].kind /\ k2.epoch = cmd[c].epoch
    BY Zenon, <1>1, <2>4, <2>5 DEF Command, Opened
  <2> HIDE DEF k2
  <2>7. Local(c, k2) /\ Follows(cmd[c], k2)
    BY <1>1, <2>2, <2>4, <2>5, <2>6 DEF Local, Follows, Issued, Ending
  <2>8. Goes(c, k2)
    BY <2>1, <2>6, <2>7 DEF Goes
  <2>9. c \notin cancelled /\ IsRunning(cmd[c]) /\ cmd[c].pc \in Opened
    BY <1>1 DEF CancelledInv, IsRunning, Opened
  <2>10. GoodState(s, cmd', cancelled)
    <3>1. \A d \in Cmd : Follows(cmd[d], cmd'[d])
      BY <1>1, <2>8, GoesTyped
    <3> QED
      BY <1>1, <2>2, <3>1, GoodStateKept
  <2>11. GoodState(disk', cmd', cancelled)
    <3>1. s.tip_epoch <= cmd[c].epoch - 1
      BY <2>2, <2>3
    <3>2. \A k \in DOMAIN s.chain : s.chain[k].epoch \in Nat
      <4>1. \A b \in Block : b.epoch \in Nat
        BY ServiceAssumption DEF Block
      <4> QED
        BY <2>3, <4>1
    <3>3. Upto(s.chain, cmd[c].epoch - 1)
      BY <2>2, <2>3, <2>10, <3>1, <3>2 DEF GoodState, Upto
    <3> QED
      BY <2>4, <2>10, <3>3 DEF GoodState
  <2> QED
    BY <1>1, <2>4, <2>6, <2>8, <2>9, <2>11, StoreKeeps
<1> QED
  BY Zenon, <1>2, <1>3 DEF Accept

\* A command that wins adds its block to its own state, which has none of its
\* blocks yet.
LEMMA WithBlockIsGood ==
  ASSUME IInv, NEW c \in Cmd, cmd[c].pc = "result", cmd[c].up = "WIN", Finalizes(c),
         Goes(c, Ended(cmd[c], "down"))
  PROVE  /\ WithBlock(cmd[c].state, c) \in State
         /\ GoodState(WithBlock(cmd[c].state, c), cmd', cancelled)
<1> DEFINE s == cmd[c].state
           b == [by |-> c, epoch |-> cmd[c].epoch, op |-> "none"]
<1>1. /\ cmd \in [Cmd -> Command] /\ cmd[c] \in Command /\ Local(c, cmd[c])
      /\ GoodState(s, cmd, cancelled) /\ CancelledInv(cmd, cancelled)
  BY DEF IInv, Types, ChainsInv
<1>2. /\ cmd[c].epoch \in 1 .. MaxEpoch /\ s \in State
      /\ s.tip_epoch = cmd[c].epoch - 1
  BY <1>1 DEF Local, Opened, Issued, Command
<1>3. s.chain \in Seq(Block) /\ s.tip_epoch \in 0 .. MaxEpoch
  BY <1>2, StateParts
<1>4. /\ b \in Block /\ b.by = c /\ b.epoch = cmd[c].epoch
  BY <1>2 DEF Block
<1>5. /\ cmd'[c] = Ended(cmd[c], "down")
      /\ \A d \in Cmd : Follows(cmd[d], cmd'[d])
  BY <1>1, GoesTyped
<1>6. cmd'[c].pc = "down" /\ cmd'[c].signer = cmd[c].signer
  BY <1>1, <1>5, EndedIs DEF Ending
<1>7. GoodState(s, cmd', cancelled)
  BY <1>1, <1>2, <1>5, GoodStateKept
<1>8. c \notin cancelled
  BY <1>1 DEF CancelledInv
<1>9. \A j \in 1 .. Len(s.chain) : s.chain[j].by # c
  <2>1. Good(s.chain, cmd, cancelled) /\ DOMAIN s.chain = 1 .. Len(s.chain)
    BY <1>1, <1>3 DEF GoodState
  <2> QED
    BY <2>1 DEF Good
<1>10. cmd[c].signer = mining_public_key(s.chain) /\ is_eligible(s.chain)
  BY DEF Finalizes, CustodyMatches
<1> HIDE DEF b
<1>11. Good(Append(s.chain, b), cmd', cancelled) /\ Upto(Append(s.chain, b), b.epoch)
  <2>1. s.tip_epoch \in Nat /\ s.tip_epoch < b.epoch
    BY <1>2, <1>3, <1>4, ServiceAssumption
  <2>2. Good(s.chain, cmd', cancelled) /\ Upto(s.chain, s.tip_epoch)
    BY <1>7 DEF GoodState
  <2> QED
    BY <1>3, <1>4, <1>6, <1>8, <1>9, <1>10, <2>1, <2>2, GoodAppend
<1>12. /\ WithBlock(s, c).chain = Append(s.chain, b)
       /\ WithBlock(s, c).tip_epoch = b.epoch
       /\ WithBlock(s, c) = [chain |-> Append(s.chain, b), tip_epoch |-> cmd[c].epoch]
  BY <1>4 DEF WithBlock, b
<1>13. Append(s.chain, b) \in Seq(Block) /\ cmd[c].epoch \in 0 .. MaxEpoch
  BY <1>2, <1>3, <1>4, ServiceAssumption
<1> QED
  BY <1>11, <1>12, <1>13 DEF GoodState, State

\* finalize_worker_result and save_state.
LEMMA FinalizeKeeps ==
  ASSUME IInv, NEW c \in Cmd, Finalize(c)
  PROVE  IInv'
<1> DEFINE k2 == Ended(cmd[c], "down")
<1>1. /\ cmd \in [Cmd -> Command] /\ cmd[c] \in Command /\ cmd[c].pc = "result"
      /\ CancelledInv(cmd, cancelled) /\ GoodState(cmd[c].state, cmd, cancelled)
      /\ cmd' = [cmd EXCEPT ![c] = k2]
      /\ UNCHANGED <<file, authz, edits, issueHistory>>
  BY DEF IInv, Types, ChainsInv, Finalize, End
<1>2. /\ k2 \in Command /\ k2.pc = "down" /\ k2.state = Empty /\ k2.ledger = {}
      /\ Local(c, k2) /\ Follows(cmd[c], k2) /\ k2.pc \notin Opened
  BY <1>1, EndedIs DEF Ending
<1>3. Goes(c, k2)
  BY <1>1, <1>2 DEF Goes
<1>4. c \notin cancelled /\ IsRunning(cmd[c])
  BY <1>1 DEF CancelledInv, IsRunning, Opened, Issued
<1>5. \A d \in Cmd : Follows(cmd[d], cmd'[d])
  BY <1>1, <1>3, GoesTyped
<1>6. CASE UNCHANGED disk
  BY Zenon, <1>1, <1>6, EndKeeps
<1>7. CASE disk' = cmd[c].state
  <2>1. cmd[c].state \in State
    BY <1>1 DEF Command
  <2>2. GoodState(cmd[c].state, cmd', cancelled)
    BY Zenon, <1>1, <1>5, <2>1, GoodStateKept
  <2> QED
    BY Zenon, <1>1, <1>2, <1>3, <1>4, <1>7, <2>1, <2>2, StoreKeeps
<1>8. CASE disk' = WithBlock(cmd[c].state, c) /\ cmd[c].up = "WIN" /\ Finalizes(c)
  <2>1. disk' \in State /\ GoodState(disk', cmd', cancelled)
    BY Zenon, <1>1, <1>3, <1>8, WithBlockIsGood
  <2> QED
    BY Zenon, <1>1, <1>2, <1>3, <1>4, <2>1, StoreKeeps
<1> QED
  BY <1>6, <1>7, <1>8 DEF Finalize

-----------------------------------------------------------------------------
(* The steps that write the ledger.                                         *)

\* update_status_and_persist changes no ticket and no AssignmentID.
LEMMA StatusChange ==
  ASSUME NEW c \in Cmd, NEW l \in SUBSET Record, NEW status \in AssignmentStatus
  PROVE  /\ RecordsWithStatus(l, c, status) \in SUBSET Record
         /\ \A R, K : Backed(l, R, K) => Backed(RecordsWithStatus(l, c, status), R, K)
         /\ \A t : ticket_seen_in(l, t) => ticket_seen_in(RecordsWithStatus(l, c, status), t)
         /\ (\E r \in l : r.aid = c) =>
              \E r \in RecordsWithStatus(l, c, status) : r.aid = c /\ r.status = status
<1> DEFINE new(r) == IF r.aid = c THEN [r EXCEPT !.status = status] ELSE r
           m == RecordsWithStatus(l, c, status)
<1>1. m = {new(r) : r \in l}
  BY DEF RecordsWithStatus
<1>2. ASSUME NEW r \in l
      PROVE  /\ new(r) \in Record /\ new(r).ticket = r.ticket /\ new(r).aid = r.aid
             /\ r.aid = c => new(r).status = status
  <2>1. r \in Record
    OBVIOUS
  <2> QED
    BY <2>1 DEF Record
<1> HIDE DEF new, m
<1>3. m \in SUBSET Record
  BY <1>1, <1>2
<1>4. ASSUME NEW R, NEW K, Backed(l, R, K) PROVE Backed(m, R, K)
  BY <1>1, <1>2, <1>4 DEF Backed
<1>5. ASSUME NEW t, ticket_seen_in(l, t) PROVE ticket_seen_in(m, t)
  BY <1>1, <1>2, <1>5 DEF ticket_seen_in
<1>6. ASSUME NEW r \in l, r.aid = c PROVE \E x \in m : x.aid = c /\ x.status = status
  BY <1>1, <1>2, <1>6
<1> QED
  BY <1>3, <1>4, <1>5, <1>6 DEF m

\* The status of the command's own assignment is written with its whole copy of
\* the ledger, over whatever other commands wrote.
LEMMA UpdateKeeps ==
  ASSUME IInv, NEW c \in Cmd, NEW status \in AssignmentStatus, NEW pc \in Issued,
         UpdateStatus(c, status, pc), cmd[c].pc \in Issued \ {"cancelled", "late"},
         pc \in {"cancelled", "late"} => status = "CANCELLED",
         UNCHANGED <<disk, authz, edits, reserved, overlapped>>,
         \/ cancelled' = cancelled
         \/ cancelled' = cancelled \cup {c} /\ pc = "cancelled"
  PROVE  IInv'
<1> DEFINE k2 == [cmd[c] EXCEPT !.ledger = file', !.pc = pc]
<1>1. /\ Types /\ cmd[c] \in Command /\ Local(c, cmd[c]) /\ CancelledInv(cmd, cancelled)
      /\ Backed(cmd[c].ledger, reserved, cmd)
      /\ (~overlapped => InTurnInv(cmd, reserved, file))
  BY DEF IInv, Types, LedgersInv
<1>2. cmd[c].ledger \in SUBSET Record /\ \E r \in cmd[c].ledger : r.aid = c
  <2>1. cmd[c].ledger \in SUBSET Record
    BY <1>1 DEF Command
  <2>2. \E r \in cmd[c].ledger : r.aid = c
    BY Zenon, <1>1 DEF Local
  <2> QED
    BY <2>1, <2>2
<1>3. /\ file' = RecordsWithStatus(cmd[c].ledger, c, status)
      /\ cmd' = [cmd EXCEPT ![c] = k2]
  BY Zenon DEF UpdateStatus
<1>4. /\ file' \in SUBSET Record /\ Backed(file', reserved, cmd)
      /\ \A t : ticket_seen_in(cmd[c].ledger, t) => ticket_seen_in(file', t)
      /\ \E r \in file' : r.aid = c /\ r.status = status
  <2> DEFINE l == cmd[c].ledger
             m == RecordsWithStatus(l, c, status)
  <2>1. l \in SUBSET Record /\ \E r \in l : r.aid = c
    BY <1>2
  <2> HIDE DEF l
  <2>2. m \in SUBSET Record
    BY Zenon, <2>1, StatusChange
  <2>3. \A R, K : Backed(l, R, K) => Backed(m, R, K)
    BY <2>1, StatusChange
  <2>4. \A t : ticket_seen_in(l, t) => ticket_seen_in(m, t)
    BY <2>1, StatusChange
  <2>5. \E r \in m : r.aid = c /\ r.status = status
    BY <2>1, StatusChange
  <2> HIDE DEF m
  <2>6. file' = m /\ Backed(l, reserved, cmd) /\ cmd[c].ledger = l
    BY <1>1, <1>3 DEF l, m
  <2> QED
    BY <2>2, <2>3, <2>4, <2>5, <2>6
<1>5. /\ k2 \in Command /\ k2.pc = pc /\ k2.ledger = file' /\ k2.state = cmd[c].state
      /\ k2.kind = cmd[c].kind /\ k2.epoch = cmd[c].epoch /\ k2.ticket = cmd[c].ticket
      /\ k2.signer = cmd[c].signer
  BY Zenon, <1>1, <1>4 DEF Command, Opened
<1> HIDE DEF k2
<1>6. Local(c, k2)
  BY <1>1, <1>4, <1>5 DEF Local, Opened, Issued
<1>7. Follows(cmd[c], k2)
  BY <1>5 DEF Follows, Issued
<1>8. Goes(c, k2)
  BY <1>3, <1>5, <1>6, <1>7 DEF Goes
<1>9. IsRunning(cmd[c]) /\ cmd[c].pc \in Opened /\ cmd[c].pc # "down"
  BY DEF IsRunning, Opened, Issued
<1>10. c \notin cancelled
  BY <1>1 DEF CancelledInv, Issued
<1>11. Backed(file', reserved', cmd')
  <2>1. \A p \in reserved : cmd[p[1]].kind = cmd'[p[1]].kind
    BY <1>8, KindsKept
  <2> QED
    BY <1>4, <2>1, IssuedKept DEF Backed
<1>12. ~overlapped' => InTurnStep(c, k2)
  BY <1>1, <1>4, <1>5, <1>9 DEF InTurnStep, InTurnInv
<1>13. disk' \in State /\ overlapped' \in BOOLEAN
  BY <1>1 DEF Types
<1> QED
  BY <1>4, <1>5, <1>8, <1>9, <1>10, <1>11, <1>12, <1>13, StepKeeps

\* The three statuses that the commands write.
LEMMA StatusKeeps ==
  ASSUME IInv, NEW c \in Cmd, MarkSent(c) \/ Receive(c) \/ CancelPersist(c)
  PROVE  IInv'
<1>1. CASE MarkSent(c)
  <2>1. AfterSent(cmd[c].kind) \in Issued \ {"cancelled", "late"}
    BY DEF AfterSent, Issued
  <2>2. /\ UpdateStatus(c, "SENT", AfterSent(cmd[c].kind))
        /\ cmd[c].pc \in Issued \ {"cancelled", "late"}
        /\ UNCHANGED <<disk, authz, edits, reserved, overlapped>> /\ cancelled' = cancelled
    BY <1>1 DEF MarkSent, Issued, issueHistory
  <2> QED
    BY <2>1, <2>2, UpdateKeeps DEF AssignmentStatus
<1>2. CASE Receive(c)
  <2> DEFINE status == IF cmd[c].up = "NO_WIN" THEN "COMPLETED_NO_WIN" ELSE "CANDIDATE_WIN"
  <2>1. status \in AssignmentStatus /\ "result" \in Issued \ {"cancelled", "late"}
    BY DEF AssignmentStatus, Issued
  <2>2. /\ UpdateStatus(c, status, "result")
        /\ cmd[c].pc \in Issued \ {"cancelled", "late"}
        /\ UNCHANGED <<disk, authz, edits, reserved, overlapped>> /\ cancelled' = cancelled
    BY <1>2 DEF Receive, Issued, issueHistory
  <2> QED
    BY <2>1, <2>2, UpdateKeeps
<1>3. CASE CancelPersist(c)
  <2>1. "CANCELLED" \in AssignmentStatus /\ "cancelled" \in Issued
    BY DEF AssignmentStatus, Issued
  <2>2. /\ UpdateStatus(c, "CANCELLED", "cancelled")
        /\ cmd[c].pc \in Issued \ {"cancelled", "late"}
        /\ UNCHANGED <<disk, authz, edits, reserved, overlapped>>
        /\ cancelled' = cancelled \cup {c}
    BY <1>3 DEF CancelPersist, Issued
  <2> QED
    BY <2>1, <2>2, UpdateKeeps
<1> QED
  BY <1>1, <1>2, <1>3

\* mark_invalid_win, after which the command fails.
LEMMA RejectKeeps ==
  ASSUME IInv, NEW c \in Cmd, RejectFalseWin(c)
  PROVE  IInv'
<1> DEFINE k2 == Ended(cmd[c], "down")
<1>1. /\ Types /\ cmd[c] \in Command /\ CancelledInv(cmd, cancelled)
      /\ Backed(cmd[c].ledger, reserved, cmd)
      /\ (~overlapped => InTurnInv(cmd, reserved, file))
  BY DEF IInv, Types, LedgersInv
<1>2. /\ cmd[c].pc = "result" /\ cmd' = [cmd EXCEPT ![c] = k2]
      /\ file' = RecordsWithStatus(cmd[c].ledger, c, "INVALID_WIN")
      /\ UNCHANGED <<disk, authz, edits, issueHistory>>
  BY DEF RejectFalseWin, End
<1>3. /\ k2 \in Command /\ k2.pc = "down" /\ k2.state = Empty /\ k2.ledger = {}
      /\ Local(c, k2) /\ Follows(cmd[c], k2) /\ k2.pc \notin Opened /\ ~IsRunning(k2)
  BY <1>1, EndedIs DEF Ending
<1> HIDE DEF k2
<1>4. Goes(c, k2)
  BY <1>2, <1>3 DEF Goes
<1>5. "INVALID_WIN" \in AssignmentStatus /\ cmd[c].ledger \in SUBSET Record
  BY <1>1 DEF AssignmentStatus, Command
<1>6. /\ file' \in SUBSET Record /\ Backed(file', reserved, cmd)
      /\ \A t : ticket_seen_in(cmd[c].ledger, t) => ticket_seen_in(file', t)
  BY Zenon, <1>1, <1>2, <1>5, StatusChange
<1>7. /\ disk' = disk /\ authz' = authz /\ edits' = edits /\ reserved' = reserved
      /\ cancelled' = cancelled /\ overlapped' = overlapped
  BY <1>2 DEF issueHistory
<1>8. Backed(file', reserved', cmd')
  <2>1. \A p \in reserved : cmd[p[1]].kind = cmd'[p[1]].kind
    BY <1>4, KindsKept
  <2> QED
    BY <1>6, <1>7, <2>1, IssuedKept DEF Backed
<1>9. c \notin cancelled /\ IsRunning(cmd[c]) /\ cmd[c].pc \in Opened
  BY <1>1, <1>2 DEF CancelledInv, IsRunning, Opened, Issued
<1>10. ~overlapped' => InTurnStep(c, k2)
  BY <1>1, <1>3, <1>6, <1>7, <1>9 DEF InTurnStep, InTurnInv
<1>11. disk' \in State /\ overlapped' \in BOOLEAN
  BY <1>1, <1>7 DEF Types
<1> QED
  BY <1>3, <1>4, <1>6, <1>7, <1>8, <1>9, <1>10, <1>11, StepKeeps

\* reserve_and_persist: a ticket that is new to the command's copy, or for a
\* reassign one that was issued before.
LEMMA ReserveKeeps ==
  ASSUME IInv, NEW c \in Cmd, ReserveTicket(c)
  PROVE  IInv'
<1> DEFINE t == cmd[c].ticket
           record == [aid |-> c, ticket |-> t, status |-> "RESERVED"]
           k2 == [cmd[c] EXCEPT !.ledger = file', !.pc = "reserved",
                                !.fresh = ~ticket_seen_in(cmd[c].ledger, t)]
<1>1. /\ Types /\ cmd[c] \in Command /\ Local(c, cmd[c]) /\ CancelledInv(cmd, cancelled)
      /\ Backed(cmd[c].ledger, reserved, cmd) /\ ReservedInv(reserved, cmd)
      /\ \A d \in Cmd : Local(d, cmd[d])
  BY DEF IInv, Types, LedgersInv
<1>2. /\ cmd[c].pc = "planned" /\ file' = cmd[c].ledger \cup {record}
      /\ cmd' = [cmd EXCEPT ![c] = k2] /\ reserved' = reserved \cup {<<c, t>>}
      /\ UNCHANGED <<disk, authz, edits, cancelled, overlapped>>
  BY Zenon DEF ReserveTicket
<1>3. t \in Ticket /\ (cmd[c].kind = "reassign" <=> ticket_seen_in(cmd[c].ledger, t))
  BY <1>1, <1>2 DEF Local
<1>4. record \in Record /\ record.aid = c /\ record.ticket = t
  BY <1>3 DEF Record, AssignmentStatus
<1>5. file' \in SUBSET Record
  BY <1>1, <1>2, <1>4 DEF Command
<1> HIDE DEF record
<1>6. /\ k2 \in Command /\ k2.pc = "reserved" /\ k2.ledger = file' /\ k2.state = cmd[c].state
      /\ k2.kind = cmd[c].kind /\ k2.epoch = cmd[c].epoch /\ k2.ticket = t
  BY Zenon, <1>1, <1>5 DEF Command, Opened, Issued
<1> HIDE DEF k2
<1>7. \E r \in file' : r.aid = c
  BY <1>2, <1>4
<1>8. Local(c, k2) /\ Follows(cmd[c], k2)
  BY <1>1, <1>2, <1>6, <1>7 DEF Local, Follows, Opened, Issued, Ending
<1>9. Goes(c, k2)
  BY <1>2, <1>6, <1>8 DEF Goes
<1>10. /\ cmd' \in [Cmd -> Command] /\ cmd'[c] = k2
       /\ \A d \in Cmd : d # c => cmd'[d] = cmd[d]
  BY <1>1, <1>9, GoesTyped DEF Types
<1>11. \A p \in reserved : /\ p[1] \in Cmd /\ cmd[p[1]].kind = cmd'[p[1]].kind
                           /\ cmd'[p[1]].pc \in Issued \cup Ending
  BY <1>9, KindsKept
<1>12. \A x : IssuedAsNew(x, reserved, cmd) => IssuedAsNew(x, reserved', cmd')
  <2>1. reserved \subseteq reserved' /\ \A p \in reserved : cmd[p[1]].kind = cmd'[p[1]].kind
    BY <1>2, <1>11
  <2> QED
    BY Zenon, <2>1, IssuedKept
<1>13. IssuedAsNew(t, reserved', cmd')
  <2>1. CASE cmd[c].kind = "reassign"
    <3>1. PICK r \in cmd[c].ledger : r.ticket = t
      BY <1>3, <2>1 DEF ticket_seen_in
    <3>2. IssuedAsNew(t, reserved, cmd)
      BY <1>1, <3>1 DEF Backed
    <3> QED
      BY <1>12, <3>2
  <2>2. CASE cmd[c].kind # "reassign"
    <3>1. <<c, t>> \in reserved' /\ <<c, t>>[2] = t /\ <<c, t>>[1] = c
      BY <1>2
    <3>2. cmd'[c].kind # "reassign"
      BY <1>6, <1>10, <2>2
    <3> QED
      BY Zenon, <3>1, <3>2 DEF IssuedAsNew
  <2> QED
    BY <2>1, <2>2
<1>14. Types'
  <2>1. <<c, t>> \in Cmd \X Ticket
    BY <1>3
  <2> QED
    BY <1>1, <1>2, <1>5, <1>10, <2>1 DEF Types
<1>15. ChainsInv'
  BY <1>2, <1>6, <1>9, ChainsStep
<1>16. \A d \in Cmd : Local(d, cmd'[d])
  BY <1>1, <1>8, <1>10
<1>17. LedgersInv'
  <2>1. Backed(file', reserved', cmd')
    BY Zenon, <1>1, <1>2, <1>4, <1>12, <1>13 DEF Backed
  <2> QED
    BY Zenon, <1>2, <1>6, <1>9, <2>1, LedgersStep
<1>18. ReservedInv(reserved', cmd')
  <2>1. ASSUME NEW p \in reserved'
        PROVE  /\ cmd'[p[1]].pc \in Issued \cup Ending
               /\ cmd'[p[1]].kind = "reassign" => IssuedAsNew(p[2], reserved', cmd')
    <3>1. CASE p \in reserved
      BY <1>1, <1>11, <1>12, <3>1 DEF ReservedInv
    <3>2. CASE p = <<c, t>>
      <4>1. p[1] = c /\ p[2] = t
        BY <3>2
      <4> QED
        BY <1>6, <1>10, <1>13, <4>1 DEF Issued
    <3> QED
      BY <1>2, <3>1, <3>2
  <2> QED
    BY <2>1 DEF ReservedInv
<1>19. CancelledInv(cmd', cancelled')
  <2>1. c \notin cancelled
    BY <1>1, <1>2 DEF CancelledInv
  <2>2. \A d \in cancelled : cmd'[d] = cmd[d]
    BY <1>1, <1>10, <2>1 DEF Types
  <2> QED
    BY <1>1, <1>2, <2>2 DEF CancelledInv
<1>20. ASSUME ~overlapped' PROVE InTurnInv(cmd', reserved', file')
  <2>1. ~overlapped /\ InTurnInv(cmd, reserved, file)
    BY <1>2, <1>20 DEF IInv
  <2>2. cmd[c].ledger = file /\ IsRunning(cmd[c])
    BY <1>2, <2>1 DEF InTurnInv, IsRunning, Opened
  <2>3. \A x : ticket_seen_in(file, x) => ticket_seen_in(file', x)
    BY <1>2, <2>2 DEF ticket_seen_in
  <2>4. InTurnStep(c, k2)
    BY <1>6, <2>1, <2>2, <2>3 DEF InTurnStep
  <2>5. /\ \A a, b \in Cmd : IsRunning(cmd'[a]) /\ IsRunning(cmd'[b]) => a = b
        /\ \A a \in Cmd : cmd'[a].pc \in Opened => cmd'[a].ledger = file'
        /\ \A p \in reserved : ticket_seen_in(file', p[2])
    BY <1>9, <2>4, CopiesInTurn
  <2>6. ticket_seen_in(file', t)
    BY <1>2, <1>4 DEF ticket_seen_in
  <2>7. ASSUME NEW p \in reserved' PROVE ticket_seen_in(file', p[2])
    <3>1. CASE p \in reserved
      BY Zenon, <2>5, <3>1
    <3>2. CASE p = <<c, t>>
      <4>1. p[2] = t
        BY <3>2
      <4> QED
        BY Zenon, <2>6, <4>1
    <3> QED
      BY <1>2, <3>1, <3>2
  <2>8. cmd[c].kind # "reassign" => \A p \in reserved : p[2] # t
    BY <1>3, <2>1, <2>2 DEF InTurnInv
  <2>9. cmd'[c].kind = cmd[c].kind
    BY <1>6, <1>10
  <2>10. ASSUME NEW p \in reserved', NEW q \in reserved', p[2] = q[2],
                cmd'[p[1]].kind # "reassign", cmd'[q[1]].kind # "reassign"
         PROVE  p = q
    <3>1. CASE p \in reserved /\ q \in reserved
      BY <1>11, <2>1, <2>10, <3>1 DEF InTurnInv
    <3>2. ASSUME NEW x \in reserved, NEW y, y = <<c, t>>, x[2] = y[2],
                 cmd'[y[1]].kind # "reassign"
          PROVE  FALSE
      <4>1. y[1] = c /\ y[2] = t
        BY <3>2
      <4> QED
        BY <2>8, <2>9, <3>2, <4>1
    <3> QED
      BY <1>2, <2>10, <3>1, <3>2
  <2> QED
    BY <2>5, <2>7, <2>10 DEF InTurnInv
<1> QED
  BY <1>14, <1>15, <1>16, <1>17, <1>18, <1>19, <1>20 DEF IInv

-----------------------------------------------------------------------------
(* The node and the operator.                                               *)

\* The node adds a block of its own to what is stored.
LEMMA NodeBlockKeeps ==
  ASSUME IInv, NEW op \in NodeOps, NodeBlock(op)
  PROVE  IInv'
<1> DEFINE b == [by |-> NodeMiner, epoch |-> disk.tip_epoch + 1, op |-> op]
<1>1. /\ Types /\ disk \in State /\ ChainsInv /\ GoodState(disk, cmd, cancelled)
  BY DEF IInv, Types, ChainsInv
<1>2. disk.chain \in Seq(Block) /\ disk.tip_epoch \in 0 .. MaxEpoch
  BY <1>1, StateParts
<1>3. /\ disk.tip_epoch < MaxEpoch
      /\ disk' = [chain |-> Append(disk.chain, b), tip_epoch |-> disk.tip_epoch + 1]
      /\ UNCHANGED <<file, authz, edits, cmd, reserved, cancelled, overlapped>>
  BY DEF NodeBlock, issueHistory
<1>4. disk.tip_epoch \in Nat /\ disk.tip_epoch + 1 \in 1 .. MaxEpoch
  BY <1>2, <1>3, ServiceAssumption
<1>5. b \in Block /\ b.by = NodeMiner /\ b.epoch = disk.tip_epoch + 1
  BY <1>4, ServiceAssumption DEF Block
<1>6. b.by \notin Cmd
  BY <1>5, ServiceAssumption
<1> HIDE DEF b
<1>7. Good(Append(disk.chain, b), cmd, cancelled) /\ Upto(Append(disk.chain, b), b.epoch)
  <2>1. Good(disk.chain, cmd, cancelled) /\ Upto(disk.chain, disk.tip_epoch)
    BY <1>1 DEF GoodState
  <2>2. disk.tip_epoch < b.epoch
    BY <1>4, <1>5
  <2> QED
    BY <1>2, <1>4, <1>5, <1>6, <2>1, <2>2, GoodAppend
<1>8. /\ disk'.chain = Append(disk.chain, b) /\ disk'.tip_epoch = b.epoch
      /\ Append(disk.chain, b) \in Seq(Block)
  BY <1>2, <1>3, <1>5
<1>9. disk' \in State
  BY <1>3, <1>4, <1>8, ServiceAssumption DEF State
<1>10. ChainsInv'
  BY <1>1, <1>3, <1>7, <1>8 DEF ChainsInv, GoodState
<1>11. Types'
  BY <1>1, <1>3, <1>9 DEF Types
<1>12. LedgersInv'
  BY <1>3 DEF IInv, LedgersInv
<1> QED
  BY <1>3, <1>10, <1>11, <1>12 DEF IInv

\* The operator edits the authorization file.
LEMMA EditKeeps ==
  ASSUME IInv, NEW ws \in SUBSET Worker, EditAuthz(ws)
  PROVE  IInv'
<1>1. /\ authz' = ws /\ edits' = edits + 1 /\ edits < MaxEdits
      /\ UNCHANGED <<disk, file, cmd, reserved, cancelled, overlapped>>
  BY DEF EditAuthz, issueHistory
<1>2. Types'
  BY <1>1, ServiceAssumption DEF IInv, Types
<1>3. ChainsInv' /\ LedgersInv'
  BY <1>1 DEF IInv, ChainsInv, LedgersInv
<1> QED
  BY <1>1, <1>2, <1>3 DEF IInv

-----------------------------------------------------------------------------
(* The theorems.                                                            *)

\* At first no command has been launched.
LEMMA ServiceInitInv == ServiceInit => IInv
<1> SUFFICES ASSUME ServiceInit PROVE IInv
  OBVIOUS
<1>1. /\ disk = Empty /\ file = {} /\ authz = Worker /\ edits = 0
      /\ cmd = [c \in Cmd |-> Idle]
      /\ reserved = {} /\ cancelled = {} /\ overlapped = FALSE
  BY DEF ServiceInit, Empty
<1>2. /\ Idle.pc = "new" /\ Idle.state = Empty /\ Idle.ledger = {}
  BY DEF Idle, Empty
<1>3. Idle \in Command
  <2>1. 0 \in 0 .. MaxEpoch /\ 0 \in 0 .. MaxPolls /\ Empty \in State
    BY ServiceAssumption, EmptyState
  <2> QED
    BY <2>1 DEF Idle, Command, Empty, Kind, SignerKey
<1>4. Types
  <2>1. cmd \in [Cmd -> Command]
    BY <1>1, <1>3
  <2>2. edits \in 0 .. MaxEdits
    BY <1>1, ServiceAssumption
  <2>3. /\ disk \in State /\ file \in SUBSET Record /\ authz \in SUBSET Worker
        /\ reserved \in SUBSET (Cmd \X Ticket) /\ cancelled \in SUBSET Cmd
        /\ overlapped \in BOOLEAN
    BY Zenon, <1>1, EmptyState
  <2> QED
    BY Zenon, <2>1, <2>2, <2>3 DEF Types
<1>5. \A c \in Cmd : cmd[c].pc = "new" /\ cmd[c].state = Empty /\ cmd[c].ledger = {}
  BY <1>1, <1>2
<1>6. ChainsInv
  BY <1>1, <1>5, EmptyState DEF ChainsInv
<1>7. \A c \in Cmd : Local(c, cmd[c]) /\ ~IsRunning(cmd[c]) /\ cmd[c].pc \notin Opened
  BY <1>5 DEF Local, IsRunning, Opened, Issued
<1>8. LedgersInv /\ ReservedInv(reserved, cmd) /\ CancelledInv(cmd, cancelled)
  BY <1>1, <1>5 DEF LedgersInv, Backed, ReservedInv, CancelledInv
<1>9. InTurnInv(cmd, reserved, file)
  BY <1>1, <1>7 DEF InTurnInv
<1> QED
  BY <1>4, <1>6, <1>7, <1>8, <1>9 DEF IInv

\* No step of a command, of a worker, of the node or of the operator breaks it.
LEMMA ServiceNextInv == IInv /\ [ServiceNext]_serviceVars => IInv'
<1> SUFFICES ASSUME IInv, [ServiceNext]_serviceVars PROVE IInv'
  OBVIOUS
<1>1. CASE Launches
  BY <1>1, LaunchKeeps DEF Launches
<1>2. ASSUME NEW c \in Cmd, OpenCommand(c) \/ \E w \in Worker : Accept(c, w)
      PROVE  IInv'
  BY <1>2, OpenKeeps, AcceptKeeps
<1>3. ASSUME NEW c \in Cmd, CommandStep(c) PROVE IInv'
  BY <1>3, ReserveKeeps, SessionKeeps, StatusKeeps, FinalizeKeeps, RejectKeeps,
     PollKeeps, LateResultKeeps, FailureKeeps DEF CommandStep
<1>4. ASSUME NEW c \in Cmd,
             \/ \E a \in Answer : WorkerExecutes(c, a) \/ WorkerIgnoresCancel(c, a)
             \/ WorkerGone(c) \/ KillCommand(c)
      PROVE  IInv'
  BY <1>4, SessionKeeps, FailureKeeps
<1>5. CASE Moves
  BY <1>2, <1>3, <1>4, <1>5, NodeBlockKeeps, EditKeeps DEF Moves
<1>6. CASE UNCHANGED serviceVars
  <2>1. UNCHANGED <<disk, file, authz, edits, cmd, reserved, cancelled, overlapped>>
    BY <1>6 DEF serviceVars, issueHistory
  <2>2. Types' /\ ChainsInv' /\ LedgersInv'
    BY <2>1 DEF IInv, Types, ChainsInv, LedgersInv
  <2> QED
    BY <2>1, <2>2 DEF IInv
<1> QED
  BY <1>1, <1>5, <1>6 DEF ServiceNext

\* Whatever commands, workers, the node and the operator do to the files in
\* between, the chains stay valid, every record of every copy of the ledger is of
\* a ticket that was issued as new, and commands that run in turn share the file.
THEOREM ServiceInvariant == ServiceSpec => []IInv
BY ServiceInitInv, ServiceNextInv, PTL DEF ServiceSpec

\* serve_one_mining_ticket, serve_one_reassigned_ticket and their like: commands
\* that run one after the other never issue a ticket as new twice, a reassigned
\* ticket is always one that was issued as new, and every index is inside the
\* budget.
THEOREM TicketsIssuedOnce == ServiceSpec => []TicketsAreIssuedOnce
<1>1. IInv => TicketsAreIssuedOnce
  <2> SUFFICES ASSUME IInv PROVE TicketsAreIssuedOnce
    OBVIOUS
  <2>1. /\ disk \in State /\ file \in SUBSET Record /\ cmd \in [Cmd -> Command]
        /\ authz \in SUBSET Worker /\ edits \in 0 .. MaxEdits
    BY DEF IInv, Types
  <2>2. \A c \in Cmd : /\ cmd[c].kind \in Kind /\ cmd[c].polls \in 0 .. MaxPolls
                       /\ cmd[c].state \in State /\ cmd[c].ticket \in Ticket \cup {Nothing}
                       /\ cmd[c].up \in Answer \cup {Nothing}
                       /\ cmd[c].ledger \in SUBSET Record
    BY <2>1 DEF Command
  <2>3. \A r \in Record : r.aid \in Cmd /\ r.ticket \in Ticket /\ r.status \in AssignmentStatus
    BY DEF Record
  <2>4. \A l \in {file} \cup {cmd[c].ledger : c \in Cmd} : \A r \in l : r \in Record
    BY <2>1, <2>2
  <2>5. disk.chain \in Seq(Block) /\ disk.tip_epoch \in 0 .. MaxEpoch
    BY <2>1, StateParts
  <2>6. \A c \in Cmd : cmd[c].state.chain \in Seq(Block)
    BY <2>2, StateParts
  <2>7. ServiceTypeOK
    BY Zenon, <2>1, <2>2, <2>3, <2>4, <2>5, <2>6 DEF ServiceTypeOK
  <2>8. UniqueTicketOnce
    BY DEF IInv, InTurnInv, UniqueTicketOnce
  <2>9. RedundantNeverWidens
    BY Zenon DEF IInv, ReservedInv, IssuedAsNew, RedundantNeverWidens
  <2> QED
    BY <2>7, <2>8, <2>9 DEF TicketsAreIssuedOnce
<1> QED
  BY <1>1, ServiceInvariant, PTL

\* finalize_worker_result and cancel_assignment_on_stream: whatever is written
\* over what, every stored or held chain is valid, a command's block was signed
\* once, with the key and for the license of the blocks below it, and cancelled
\* work neither becomes a block nor makes expect_err panic.
THEOREM BlocksLegitimate == ServiceSpec => []BlocksAreLegitimate
<1>1. IInv => BlocksAreLegitimate
  <2> SUFFICES ASSUME IInv PROVE BlocksAreLegitimate
    OBVIOUS
  <2>1. \A chain \in Chains : Good(chain, cmd, cancelled)
    BY DEF IInv, ChainsInv, GoodState, Chains
  <2>2. ChainsAreValid
    BY <2>1 DEF ChainsAreValid, Good
  <2>3. \A c \in cancelled : c \in Cmd /\ cmd[c].pc # "panicked"
    BY DEF IInv, Types, CancelledInv
  <2>4. CancelledNeverFinalizes
    BY <2>1, <2>3 DEF CancelledNeverFinalizes, Good
  <2> QED
    BY <2>2, <2>4 DEF BlocksAreLegitimate
<1> QED
  BY <1>1, ServiceInvariant, PTL

=============================================================================
