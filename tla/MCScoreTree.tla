----------------------------- MODULE MCScoreTree -----------------------------
(* Instances of ScoreTree for TLC.  Members are interchangeable. *)
EXTENDS ScoreTree, TLC

CONSTANTS m1, m2

MemberSymmetry == Permutations(Values)
=============================================================================
