----------------------------- MODULE ReleaseGates -----------------------------
(***************************************************************************)
(* The gate that a release of rules passes on its way out                  *)
(* (`icg coverage-diff`): the candidate is compared with the release       *)
(* before it, the report names every loss of coverage, and a loss needs a  *)
(* justification.  Releases follow one another, each gated against the     *)
(* last one that was let through.                                          *)
(***************************************************************************)
EXTENDS PatternEdits, TLC

CONSTANTS
    Releases,     \* what may be proposed: guarded and safe patterns, and an override
    MaxChain      \* bound: releases let through in a row

(* A release's patterns are texts, and it has one override file or none.   *)
ReleasesAreWellFormed ==
    \A r \in Releases :
        /\ r = [guarded |-> r.guarded, safe |-> r.safe, override |-> r.override]
        /\ \A id \in DOMAIN r.guarded : IsFiniteSet(DOMAIN r.guarded[id].check)
        /\ \A o \in r.override : r.override = {o} /\ o = [rules |-> o.rules, fresh |-> o.fresh]

VARIABLES
    chain,    \* the releases let through since the last justified one, that one first
    gate      \* what the gate last did: its report and its exit code

gatesVars == <<chain, gate>>

-----------------------------------------------------------------------------
(* run_coverage_diff.  Patterns are kept by their ids.                     *)

Both(previous, current) == DOMAIN previous \cap DOMAIN current

Removed(previous, current) == DOMAIN previous.guarded \ DOMAIN current.guarded

(* Mutant: the flags are compared the wrong way round.                     *)
EnabledAnew(previous, current) ==
    {id \in Both(previous.guarded, current.guarded) :
        current.guarded[id].enabled /\ ~previous.guarded[id].enabled}

Disabled(previous, current) ==
    {id \in Both(previous.guarded, current.guarded) :
        previous.guarded[id].enabled /\ ~current.guarded[id].enabled}

Widened(previous, current) ==
    {id \in Both(previous.safe, current.safe) :
        IsPatternWidened(previous.safe[id], current.safe[id])}

Narrowed(previous, current) ==
    {id \in Both(previous.guarded, current.guarded) :
        /\ previous.guarded[id].destructive /\ current.guarded[id].destructive
        /\ IsPatternNarrowed(previous.guarded[id].check, current.guarded[id].check)}

RulesRegress(previous, current) ==
    Removed(previous, current) \cup Disabled(previous, current)
        \cup Widened(previous, current) \cup Narrowed(previous, current) # {}

(* diff_overrides: a release without an override file exempts nothing.     *)
Exempt(release) == UNION {o.rules : o \in release.override}
NewlyExempted(previous, current) == Exempt(current) \ Exempt(previous)

(* validate_override, against the release's own pack and as of today.      *)
OverrideIsValid(release) ==
    \A o \in release.override :
        /\ o.fresh /\ o.rules # {}
        /\ \A id \in o.rules : id \in DOMAIN release.guarded /\ release.guarded[id].denies

-----------------------------------------------------------------------------
(* The report and the exit code.  A justification is none, blank or given. *)

Explicit(justification) == justification = "given"

(* render_coverage_diff_report.                                            *)
RulesReport(regress, justification) ==
    [status |-> IF regress THEN "regressions_detected" ELSE "no_regressions",
     justification |-> IF Explicit(justification) THEN "given"
                       ELSE IF regress THEN "REQUIRED" ELSE "not required",
     action |-> IF regress THEN "justify" ELSE "none"]

(* render_release_integrity_report puts the exemptions over it.            *)
IntegrityReport(regress, exempts, justification) ==
    LET report == RulesReport(regress, justification)
        amended == IF exempts /\ ~regress
                   THEN [report EXCEPT !.status = "regressions_detected",
                                       !.justification = IF Explicit(justification) THEN "given"
                                                         ELSE "REQUIRED"]
                   ELSE report
    IN IF exempts THEN [amended EXCEPT !.action = "justify"] ELSE amended

NoReport == [status |-> "none"]

Outcome(regress, justification) ==
    IF regress /\ ~Explicit(justification) THEN "blocked" ELSE "passed"

(* The candidate meets the gate.  With an override on either side both are *)
(* validated first, and one that is not valid ends the run.                *)
RunGate(candidate, justification) ==
    LET previous == chain[Len(chain)]
        rules == RulesRegress(previous, candidate)
        withOverride == previous.override \cup candidate.override # {}
        exempts == withOverride /\ NewlyExempted(previous, candidate) # {}
    IN gate' = IF withOverride /\ ~(OverrideIsValid(previous) /\ OverrideIsValid(candidate))
               THEN [outcome |-> "error", report |-> NoReport]
               ELSE [outcome |-> Outcome(rules \/ exempts, justification),
                     report |-> IF withOverride THEN IntegrityReport(rules, exempts, justification)
                                ELSE RulesReport(rules, justification)]

(* What is let through is published; a justified release starts anew.      *)
Propose ==
    /\ Len(chain) < MaxChain
    /\ \E candidate \in Releases, justification \in {"none", "blank", "given"} :
         /\ RunGate(candidate, justification)
         /\ chain' = IF gate'.outcome # "passed" THEN chain
                     ELSE IF justification = "given" THEN <<candidate>>
                     ELSE Append(chain, candidate)

(* The override of the last release grows old.                             *)
TimePasses ==
    /\ \E o \in chain[Len(chain)].override :
         /\ o.fresh
         /\ chain' = [chain EXCEPT ![Len(chain)].override = {[o EXCEPT !.fresh = FALSE]}]
    /\ gate' = [outcome |-> "none", report |-> NoReport]

GatesInit(releases) ==
    /\ \E release \in releases : chain = <<release>>
    /\ gate = [outcome |-> "none", report |-> NoReport]

GatesNext == Propose \/ TimePasses

-----------------------------------------------------------------------------
(* Properties.                                                             *)

Protects(release) == {id \in DOMAIN release.guarded : release.guarded[id].enabled} \ Exempt(release)
Between(i, j) == {chain[k] : k \in i..j}

(* Over any run of releases that nobody had to justify, no rule is lost:   *)
(* what was enabled and not exempted still is, a rule that stayed          *)
(* destructive still has its wildcard and no new restriction, and a safe   *)
(* pattern that stayed has not gained one (coverage.rs, main.rs            *)
(* CoverageDiff).                                                          *)
NothingIsLostUnjustified ==
    \A j \in DOMAIN chain : \A i \in 1..j :
        LET first == chain[i]
            last == chain[j]
        IN /\ Protects(first) \subseteq Protects(last)
           /\ \A id \in DOMAIN first.guarded :
                (\A r \in Between(i, j) : id \in DOMAIN r.guarded /\ r.guarded[id].destructive) =>
                    /\ HasWildcard(first.guarded[id].check) => HasWildcard(last.guarded[id].check)
                    /\ Brackets(last.guarded[id].check) <= Brackets(first.guarded[id].check)
                    /\ Anchors(last.guarded[id].check) <= Anchors(first.guarded[id].check)
           /\ \A id \in DOMAIN first.safe :
                (\A r \in Between(i, j) : id \in DOMAIN r.safe) /\ HasWildcard(last.safe[id]) =>
                    HasWildcard(first.safe[id])

(* The report asks for a justification exactly when the gate would not let *)
(* the candidate through without one, whether rules or exemptions are the  *)
(* reason (coverage.rs, render_release_integrity_report).                  *)
ReportMatchesGate ==
    gate.outcome \in {"blocked", "passed"} =>
        /\ gate.outcome = "blocked" <=> gate.report.justification = "REQUIRED"
        /\ gate.report.status = "no_regressions" <=> gate.report.action = "none"
        /\ gate.report.justification = "not required" => gate.report.status = "no_regressions"
        /\ gate.report.justification = "REQUIRED" => gate.report.action = "justify"

WeakeningIsReported == NothingIsLostUnjustified /\ ReportMatchesGate
=============================================================================
