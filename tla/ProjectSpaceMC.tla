----------------------------- MODULE ProjectSpaceMC -----------------------------
(* ProjectSpace for TLC: three calls, one gate, a step that can be written     *)
(* and one that can only be looked up.                                         *)
EXTENDS ProjectSpace, TLC

CONSTANTS c1, c2, c3, g1

Symmetry == Permutations(Calls)
TwoSteps == <<[sink |-> "github", mode |-> "write_only", named |-> TRUE],
              [sink |-> "railway", mode |-> "write_only", named |-> TRUE]>>
Empty  == [sink \in Sink |-> Unlisted]
Fresh  == [status |-> "live_verified", old |-> FALSE]
TheLedgers ==
  {Empty, [Empty EXCEPT !.github = Fresh, !.railway = Fresh],
   [Empty EXCEPT !.github = [Fresh EXCEPT !.old = TRUE], !.railway = Fresh]}
NothingVerified == {Empty}
=============================================================================
