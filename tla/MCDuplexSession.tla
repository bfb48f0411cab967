-------------------------- MODULE MCDuplexSession --------------------------
(***************************************************************************)
(* Two ends that each start one request, so that both may announce at once  *)
(* and fetch from each other.  The pending map of one end has room for both *)
(* of its requests, that of the other only for one of them.                 *)
(***************************************************************************)
EXTENDS DuplexSession, TLC

EachOne == [e \in End |-> 1]
TwoAndOne == [low |-> 2, high |-> 1]

CallerSymmetry == Permutations(Caller)
=============================================================================
