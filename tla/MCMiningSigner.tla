--------------------------- MODULE MCMiningSigner ---------------------------
(***************************************************************************)
(* Two processes on one directory, two licenses, two scopes with two        *)
(* competing cores each.                                                    *)
(***************************************************************************)
EXTENDS MiningSigner, TLC

\* Scopes, bodies, processes and licenses are only compared for equality.
SignerSymmetry ==
  Permutations(Scope) \cup Permutations(Body) \cup Permutations(Proc)
    \cup Permutations(License)
=============================================================================
