-------------------------- MODULE MCGuardLifecycle --------------------------
(* Instances of GuardLifecycle for TLC.                                    *)
EXTENDS GuardLifecycle

CONSTANTS h1, h2, w1, w2, wd \* wd: the directory is world-writable

(* A hook and two wrappers, one of them in practice mode; the kernel gives *)
(* the hook's pid out a second time.  The wrappers read Fail-Closed.       *)
ReuseRuns == {h1, w1, w2}
ReuseWrappers == {w1, w2}
ReuseWithPractice == {w2}
ReusedPid == [r \in ReuseRuns |-> IF r = w2 THEN h1 ELSE r]

(* The directory stays world-writable until the wrapper w2 looks at it.    *)
MendedForLast == [r \in ReuseRuns |-> IF r = w2 THEN {} ELSE {wd}]

(* Two hooks and a wrapper, each process with a pid of its own.            *)
MixedRuns == {h1, h2, w1}
MixedWrappers == {w1}
OwnPid == [r \in MixedRuns |-> r]
NeverStanding == [r \in MixedRuns |-> {}]
=============================================================================
