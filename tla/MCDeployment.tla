---------------------------- MODULE MCDeployment ----------------------------
EXTENDS Deployment, Sequences, TLC

CONSTANTS u1, u2, u3

MCUpdates == {u1, u2, u3}
(* Every property is an invariant and Updates only names processes.        *)
Symmetry == Permutations(MCUpdates)

Entry(k, n, i) == [kind |-> k, name |-> n, id |-> i, loads |-> TRUE]
MCReleases == {"r1", "r2", "bad"}
(* r1 and r2 share a file name; bad repeats an id under another name.      *)
MCArchive ==
    [r1 |-> <<Entry("root", "./", ""), Entry("manifest", "git.json", "git"),
              Entry("manifest", "kubectl.json", "kubectl")>>,
     r2 |-> <<Entry("manifest", "git.json", "git"), Entry("manifest", "secrets.json", "secrets")>>,
     bad |-> <<Entry("manifest", "git.json", "git"), Entry("manifest", "copy.json", "git")>>]
=============================================================================
