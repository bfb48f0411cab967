---------------------------- MODULE AtomicStore ----------------------------
(***************************************************************************)
(* What storage.rs promises its callers: the data directory holds one       *)
(* state, and a commit replaces it by another in one step or not at all,    *)
(* whatever errors and crashes happen on the way.  Only a forced init       *)
(* throws the stored state away.                                            *)
(***************************************************************************)
CONSTANTS State,  \* what can be stored
          None    \* nothing is stored, or nothing is being written

VARIABLES durable,  \* the state the next start will load
          writing,  \* the state a commit has been asked to store
          wiping    \* a forced init is discarding what was stored

Init == durable = None /\ writing = None /\ wiping = FALSE

\* A save is asked for.
Begin ==
  /\ writing = None
  /\ writing' \in State
  /\ UNCHANGED <<durable, wiping>>

\* The commit point.
Install ==
  /\ writing # None
  /\ durable' = writing
  /\ writing' = None
  /\ UNCHANGED wiping

\* The save fails, or the process dies, before the commit point.
Abandon ==
  /\ writing # None
  /\ writing' = None
  /\ UNCHANGED <<durable, wiping>>

\* A forced init discards the directory ...
Wipe ==
  /\ writing = None
  /\ durable' = None
  /\ wiping' = TRUE
  /\ UNCHANGED writing

\* ... and goes on to store a genesis state.
Wiped ==
  /\ wiping
  /\ writing = None
  /\ writing' \in State
  /\ wiping' = FALSE
  /\ UNCHANGED durable

Next == Begin \/ Install \/ Abandon \/ Wipe \/ Wiped

Spec == Init /\ [][Next]_<<durable, writing, wiping>>
=============================================================================
