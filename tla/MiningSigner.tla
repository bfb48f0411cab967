---------------------------- MODULE MiningSigner ----------------------------
(***************************************************************************)
(* The anti-equivocation signer of Mainnet mining                           *)
(* (mutiny-node/src/mining_signer.rs).  Before a block signature is         *)
(* released, an authorization record that names the signed core is          *)
(* published in a directory; a second core of the same scope is refused.    *)
(*                                                                          *)
(* Several processes may be started on the directory, and any number of     *)
(* threads of a process may ask for signatures.  A process may be killed    *)
(* between any two file system calls, any call may fail, and the machine    *)
(* may lose power, after which every change of the directory that was not   *)
(* followed by a directory sync may or may not be there.                    *)
(***************************************************************************)
EXTENDS Integers, FiniteSets

CONSTANTS License,  \* the licenses; with the network and the key, a binding
          Scope,    \* epoch, target, ticket index and proof of a core
          Body,     \* the rest of a core: parent, state and body roots
          Proc,     \* processes
          NoContent,   \* the contents of a file that does not exist
          Unlocked  \* the owner of signer.lock when nobody holds it

Core == [license : License, scope : Scope, body : Body]

\* The files, without their suffixes.
Name == Scope \cup {"authority"}

ASSUME NameAssumption == "authority" \notin Scope
ASSUME UnlockedAssumption == Unlocked \notin Proc
ASSUME ContentAssumption == NoContent \notin License \cup Core

VARIABLES
  final,     \* the published files, as the system shows them: by name
  pending,   \* the names whose `.pending` file the system shows
  finalDisk, pendingDisk, \* the same, as of the last directory sync
  lock,      \* who holds signer.lock
  up,        \* whether a process has opened the signer
  bound,     \* MiningSigner.binding of each process
  step,      \* the step of the commit or retry that holds the Store mutex
  job,       \* the file that it writes, name and contents
  failed,    \* the processes whose Store.failed is set
  ready,     \* the cores whose authorize returned Ok, not yet signed
  \* history
  signed     \* the cores whose signature was released

directory == <<final, pending>>
disk == <<finalDisk, pendingDisk>>
signerVars == <<directory, disk, lock, up, bound, step, job, failed, ready, signed>>

Step == {"none", "lookup", "create", "link", "sync_link", "unlink",
         "sync_unlink"}

Job == [name : Name, content : License \cup Core]

-----------------------------------------------------------------------------
(* commit(root, name, bytes) and durable_publish.                            *)

Goto(p, s) == step' = [step EXCEPT ![p] = s]

\* create_new, write_all and sync_all.  A `.pending` file is never read, so
\* what an interrupted write leaves in it makes no difference.
CommitCreate(p) ==
  /\ step[p] = "create"
  /\ job[p].name \notin pending
  /\ pending' = pending \cup {job[p].name}
  /\ Goto(p, "link")
  /\ UNCHANGED <<final, disk, lock, up, bound, job, failed, ready, signed>>

\* hard_link, which fails when the name exists.
CommitLink(p) ==
  /\ step[p] = "link"
  /\ final[job[p].name] = NoContent
  /\ final' = [final EXCEPT ![job[p].name] = job[p].content]
  /\ Goto(p, "sync_link")
  /\ UNCHANGED <<pending, disk, lock, up, bound, job, failed, ready, signed>>

CommitSyncLink(p) ==
  /\ step[p] = "sync_link"
  /\ finalDisk' = final /\ pendingDisk' = pending
  /\ Goto(p, "unlink")
  /\ UNCHANGED <<directory, lock, up, bound, job, failed, ready, signed>>

CommitUnlink(p) ==
  /\ step[p] = "unlink"
  /\ pending' = pending \ {job[p].name}
  /\ Goto(p, "sync_unlink")
  /\ UNCHANGED <<final, disk, lock, up, bound, job, failed, ready, signed>>

-----------------------------------------------------------------------------
(* MiningSigner::open                                                        *)

\* A complete record of license l, under the name of its scope.
validate_record(f, l, s) == f \in Core /\ f.license = l /\ f.scope = s

\* Mutant: the authority that the directory was initialized for is not read.
Acceptable_AnyAuthority(l) ==
  /\ final["authority"] # NoContent
  /\ pending = {}
  /\ \A s \in Scope : final[s] # NoContent =>
       validate_record(final[s], l, s)

\* What open finds in a directory that it accepts: the binding of this
\* process, records of this binding under their scopes, and nothing else.
Acceptable(l) ==
  /\ final["authority"] = l
  /\ pending = {}
  /\ \A s \in Scope : final[s] # NoContent =>
       validate_record(final[s], l, s)

OpenExisting(p, l) ==
  /\ up[p] = "down"
  /\ lock = Unlocked
  /\ Acceptable(l)
  /\ lock' = p
  /\ up' = [up EXCEPT ![p] = "open"]
  /\ bound' = [bound EXCEPT ![p] = l]
  /\ failed' = failed \ {p}
  /\ UNCHANGED <<directory, disk, step, job, ready, signed>>

\* mining-signer-init: the directory is empty but for the lock; the authority
\* is committed first.
OpenInitialize(p, l) ==
  /\ up[p] = "down"
  /\ lock = Unlocked
  /\ pending = {} /\ \A n \in Name : final[n] = NoContent
  /\ lock' = p
  /\ up' = [up EXCEPT ![p] = "opening"]
  /\ bound' = [bound EXCEPT ![p] = l]
  /\ failed' = failed \ {p}
  /\ job' = [job EXCEPT ![p] = [name |-> "authority", content |-> l]]
  /\ Goto(p, "create")
  /\ UNCHANGED <<directory, disk, ready, signed>>

\* The authority is committed, read back, and the directory scanned.
OpenInitialized(p) ==
  /\ up[p] = "opening"
  /\ step[p] = "sync_unlink"
  /\ finalDisk' = final /\ pendingDisk' = pending
  /\ Acceptable(bound[p])
  /\ up' = [up EXCEPT ![p] = "open"]
  /\ Goto(p, "none")
  /\ UNCHANGED <<directory, lock, bound, job, failed, ready, signed>>

-----------------------------------------------------------------------------
(* MiningSigner::authorize and sign_candidate                                *)

\* A thread whose candidate builds on its tip takes the Store mutex.
Authorize(p, c) ==
  /\ up[p] = "open"
  /\ step[p] = "none"
  /\ c.license = bound[p]
  /\ p \notin failed
  /\ job' = [job EXCEPT ![p] = [name |-> c.scope, content |-> c]]
  /\ Goto(p, "lookup")
  /\ UNCHANGED <<directory, disk, lock, up, bound, failed, ready, signed>>

\* authorize returns Ok: the mutex is released, the signature is due.
Authorized(p) ==
  /\ Goto(p, "none")
  /\ ready' = [ready EXCEPT ![p] = @ \cup {job[p].content}]

LookupNotFound(p) ==
  /\ step[p] = "lookup"
  /\ final[job[p].name] = NoContent
  /\ Goto(p, "create")
  /\ UNCHANGED <<directory, disk, lock, up, bound, job, failed, ready, signed>>

\* Mutant: any record of the scope counts as the record of this candidate.
LookupRetry_AnyRecord(p) ==
  /\ step[p] = "lookup"
  /\ final[job[p].name] # NoContent
  /\ Authorized(p)
  /\ UNCHANGED <<directory, disk, lock, up, bound, job, failed, signed>>

\* The same candidate again; its record is flushed, which does not sync the
\* directory.
LookupRetry(p) ==
  /\ step[p] = "lookup"
  /\ final[job[p].name] = job[p].content
  /\ Authorized(p)
  /\ UNCHANGED <<directory, disk, lock, up, bound, job, failed, signed>>

\* "conflicting same-scope mining authorization refused"
LookupConflict(p) ==
  /\ step[p] = "lookup"
  /\ final[job[p].name] \notin {NoContent, job[p].content}
  /\ Goto(p, "none")
  /\ UNCHANGED <<directory, disk, lock, up, bound, job, failed, ready, signed>>

CommitDone(p) ==
  /\ up[p] = "open"
  /\ step[p] = "sync_unlink"
  /\ finalDisk' = final /\ pendingDisk' = pending
  /\ Authorized(p)
  /\ UNCHANGED <<directory, lock, up, bound, job, failed, signed>>

\* The mutex is not held here: several threads may be about to sign.
Sign(p, c) ==
  /\ c \in ready[p]
  /\ ready' = [ready EXCEPT ![p] = @ \ {c}]
  /\ signed' = signed \cup {c}
  /\ UNCHANGED <<directory, disk, lock, up, bound, step, job, failed>>

-----------------------------------------------------------------------------
(* Failures.                                                                 *)

\* Mutant: a failed commit does not disable the signer.
Latched_Never(p) == failed

\* A durability error disables this instance; an error of the read does not.
Latched(p) == IF step[p] = "lookup" THEN failed ELSE failed \cup {p}

\* A call of commit, or the read or the flush of a retry, fails.
IoError(p) ==
  /\ step[p] # "none"
  /\ IF up[p] = "opening"
       THEN /\ up' = [up EXCEPT ![p] = "down"]
            /\ lock' = Unlocked
            /\ UNCHANGED failed
       ELSE /\ failed' = Latched(p)
            /\ UNCHANGED <<up, lock>>
  /\ Goto(p, "none")
  /\ UNCHANGED <<directory, disk, bound, job, ready, signed>>

\* The flush of the record of a retry fails, which disables the instance too.
FlushError(p) ==
  /\ step[p] = "lookup"
  /\ final[job[p].name] = job[p].content
  /\ failed' = failed \cup {p}
  /\ Goto(p, "none")
  /\ UNCHANGED <<directory, disk, lock, up, bound, job, ready, signed>>

\* The process is killed, or exits.
Kill(p) ==
  /\ up[p] # "down"
  /\ up' = [up EXCEPT ![p] = "down"]
  /\ lock' = IF lock = p THEN Unlocked ELSE lock
  /\ Goto(p, "none")
  /\ ready' = [ready EXCEPT ![p] = {}]
  /\ UNCHANGED <<directory, disk, bound, job, failed, signed>>

\* The machine loses power: each name is as it was shown, or as it was synced.
PowerLoss(kept) ==
  /\ final' = [n \in Name |-> IF n \in kept THEN final[n] ELSE finalDisk[n]]
  /\ pending' = (pending \cap kept) \cup (pendingDisk \ kept)
  /\ finalDisk' = final' /\ pendingDisk' = pending'
  /\ up' = [p \in Proc |-> "down"]
  /\ lock' = Unlocked
  /\ step' = [p \in Proc |-> "none"]
  /\ ready' = [p \in Proc |-> {}]
  /\ UNCHANGED <<bound, job, failed, signed>>

-----------------------------------------------------------------------------
\* A directory provisioned by the operator, and no process on it.
SignerInit ==
  /\ final = [n \in Name |-> NoContent] /\ finalDisk = final
  /\ pending = {} /\ pendingDisk = {}
  /\ lock = Unlocked
  /\ up = [p \in Proc |-> "down"]
  /\ bound \in [Proc -> License]
  /\ step = [p \in Proc |-> "none"]
  /\ job \in [Proc -> [name : {"authority"}, content : License]]
  /\ failed = {}
  /\ ready = [p \in Proc |-> {}]
  /\ signed = {}

Publishing(p) ==
  CommitCreate(p) \/ CommitLink(p) \/ CommitSyncLink(p) \/ CommitUnlink(p)

Opening(p) ==
  \/ \E l \in License : OpenExisting(p, l) \/ OpenInitialize(p, l)
  \/ OpenInitialized(p)

sign_candidate(p) ==
  \/ \E c \in Core : Authorize(p, c) \/ Sign(p, c)
  \/ LookupNotFound(p) \/ LookupRetry(p) \/ LookupConflict(p) \/ CommitDone(p)

SignerNext ==
  \/ \E p \in Proc :
       \/ Publishing(p) \/ Opening(p) \/ sign_candidate(p)
       \/ IoError(p) \/ FlushError(p) \/ Kill(p)
  \/ \E kept \in SUBSET Name : PowerLoss(kept)

SignerSpec == SignerInit /\ [][SignerNext]_signerVars

-----------------------------------------------------------------------------
(* Properties.                                                               *)

\* Type invariant: every published file is an authority or a complete record.
SignerTypeOK ==
  /\ final \in [Name -> License \cup Core \cup {NoContent}]
  /\ finalDisk \in [Name -> License \cup Core \cup {NoContent}]
  /\ pending \in SUBSET Name /\ pendingDisk \in SUBSET Name
  /\ lock \in Proc \cup {Unlocked}
  /\ up \in [Proc -> {"down", "opening", "open"}]
  /\ bound \in [Proc -> License]
  /\ step \in [Proc -> Step]
  /\ job \in [Proc -> Job]
  /\ failed \in SUBSET Proc
  /\ ready \in [Proc -> SUBSET Core]
  /\ signed \in SUBSET Core

\* No two different cores of one scope are ever signed with the key that a
\* directory is bound to, whatever threads, restarted processes, failed commits
\* and power losses come between them; parents and heights do not split the
\* scope.
NoEquivocation ==
  \A c, d \in signed : c.scope = d.scope => c = d

\* "Ensure an exact retry never relies on an unflushed record": the record of
\* a released signature is on disk under its name, where no power loss takes
\* it away.
SignedIsDurable ==
  \A c \in signed : finalDisk[c.scope] = c

\* At most one process works on the directory, and the directory keeps the
\* license it was initialized for: a released signature is of that license.
OneBinding ==
  /\ \A p, q \in Proc : up[p] # "down" /\ up[q] # "down" => p = q
  /\ \A c \in signed : finalDisk["authority"] = c.license

=============================================================================
