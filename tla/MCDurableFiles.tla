--------------------------- MODULE MCDurableFiles ---------------------------
(* An instance of DurableFiles for TLC.                                    *)
EXTENDS DurableFiles

CONSTANTS p1, p2, p3, pidA, pidB

(* Three updates by two pids: the kernel gives one pid out a second time.  *)
ThreeUpdates == {p1, p2, p3}
TwoPids == {pidA, pidB}
ReusedPid == [p \in ThreeUpdates |-> IF p = p2 THEN pidB ELSE pidA]
=============================================================================
