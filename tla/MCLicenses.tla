----------------------------- MODULE MCLicenses -----------------------------
(***************************************************************************)
(* Licenses with three sets of operations.  The set that is in use (part)   *)
(* is chosen at the start.  Two licenses, of which one acts and the other   *)
(* only mines; two keys, so a license can return to a key it had before.    *)
(***************************************************************************)
EXTENDS Integers

CONSTANTS l1, l2, k1, k2

VARIABLES part, st, chain, queue, offences, reorged
vars == <<part, st, chain, queue, offences, reorged>>

\* Transfers and rotations, two of them queued at a time.
Authority == INSTANCE Licenses WITH
    Licenses <- {l1, l2}, Actors <- {l1}, Keys <- {k1, k2}, FirstKey <- k1,
    Kinds <- {"transfer", "rotate"}, Tiers <- {}, EvidenceIds <- {},
    STRIKE_DECAY_EPOCHS <- 2, REVOCATION_THRESHOLD <- 3, SUSPENSION_SHIFT <- 0,
    PACK_K_EPOCH <- 100, PRESENCE_WINDOW <- 2,
    MaxHeight <- 3, MaxEpoch <- 3, MaxQueue <- 2, MaxBlockOps <- 1, MaxOffences <- 0

\* Offences of two tiers by a license that changes its owner key.
Evidence == INSTANCE Licenses WITH
    Licenses <- {l1, l2}, Actors <- {l1}, Keys <- {k1, k2}, FirstKey <- k1,
    Kinds <- {"transfer", "evidence"}, Tiers <- {1, 2}, EvidenceIds <- {1},
    STRIKE_DECAY_EPOCHS <- 2, REVOCATION_THRESHOLD <- 3, SUSPENSION_SHIFT <- 0,
    PACK_K_EPOCH <- 100, PRESENCE_WINDOW <- 2,
    MaxHeight <- 2, MaxEpoch <- 3, MaxQueue <- 1, MaxBlockOps <- 1, MaxOffences <- 2

\* Presence of a license that rotates its mining key.
Presence == INSTANCE Licenses WITH
    Licenses <- {l1, l2}, Actors <- {l1}, Keys <- {k1, k2}, FirstKey <- k1,
    Kinds <- {"rotate", "presence"}, Tiers <- {}, EvidenceIds <- {},
    STRIKE_DECAY_EPOCHS <- 2, REVOCATION_THRESHOLD <- 3, SUSPENSION_SHIFT <- 0,
    PACK_K_EPOCH <- 2, PRESENCE_WINDOW <- 2,
    MaxHeight <- 3, MaxEpoch <- 4, MaxQueue <- 1, MaxBlockOps <- 1, MaxOffences <- 0

Init == /\ part \in {"authority", "evidence", "presence"}
        /\ Authority!Init

Next == /\ part' = part
        /\ \/ part = "authority" /\ Authority!Next
           \/ part = "evidence" /\ Evidence!Next
           \/ part = "presence" /\ Presence!Next

Spec == Init /\ [][Next]_vars

-----------------------------------------------------------------------------
\* What the chain records of a license is what its blocks did to it: every
\* authority it has had is kept once (store_historical_keys), its strikes are the
\* offences that have not decayed, and it participates only on the strength of
\* its present mining key.
RecordsMatchHistory ==
    /\ part = "authority" => Authority!TypeOK /\ Authority!AuthorityHistoryComplete
    /\ part = "evidence" => Evidence!TypeOK /\ Evidence!StrikesMatchOffences
    /\ part = "presence" => Presence!TypeOK /\ Presence!ParticipationIsOfCurrentKey

\* Operations of a future sequence do not keep an eligible miner from building
\* the next block.
FutureOperationsDoNotPoison ==
    part = "authority" => Authority!FutureOperationsDoNotPoison

\* A license cannot shed an offence by changing its keys.
EvidenceStaysValid == Evidence!EvidenceStaysValid

\* Mining presence never locks an eligible miner out.
EligibleMinerIsNeverLockedOut ==
    part = "presence" => Presence!EligibleMinerIsNeverLockedOut
=============================================================================
