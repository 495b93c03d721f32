------------------------- MODULE MCFailClosedPolicy -------------------------
(* Instances of FailClosedPolicy for TLC.                                  *)
EXTENDS FailClosedPolicy, TLC

CONSTANTS r1, r2, r3, artifacts, crash

(* A graduation takes two or four counts of three releases: with a tail of *)
(* two counted releases the fourth can be one that was cut.  The tail of   *)
(* events is short enough to be cut as well.                               *)
ThreeReleases == {r1, r2, r3}
StableAndOwnIds == {artifacts, crash}
TwoOrFour == {2, 4}
Interchangeable == Permutations(ThreeReleases) \cup Permutations(StableAndOwnIds)
=============================================================================
