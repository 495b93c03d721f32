--------------------------- MODULE MCReleaseTrust ---------------------------
(* Three releases of which two spike, so that a rollback from each can put *)
(* back the other, and two invocations at a time.                          *)
EXTENDS ReleaseTrust, TLC

CONSTANTS good, fair, bad, h1, h2

ThreeReleases == {good, fair, bad}
TwoSpiking == {bad, fair}
OneHook == {h1}
TwoHooks == {h1, h2}

Interchangeable == Permutations(TwoSpiking) \cup Permutations(TwoHooks)
=============================================================================
