----------------------------- MODULE PackReleases -----------------------------
(***************************************************************************)
(* What stands between an edited pack or override and the hooks that       *)
(* enforce it: the checks of a text (TextGates), the comparison with the   *)
(* release before (ReleaseGates), the tools that read the directory of     *)
(* packs (PackSets), the suites of denied cases (RegressionSuites), the    *)
(* life of an approved override (OverrideLife); and what the hooks report  *)
(* back of a release that is in force: the judgement of its deny rate      *)
(* (DenyRates) and the telemetry document (TelemetryFile).  They share no  *)
(* state: each is a command or a document of its own.  A behaviour follows *)
(* one of them while the others rest.                                      *)
(***************************************************************************)
CONSTANTS Submitted, Words, Directives, Negators,     \* of TextGates
          Releases, MaxChain,                         \* of ReleaseGates
          PackQuestions, Stem, Basename, Calls, NewFiles, MaxChanges,    \* of PackSets
          Inquiries, BaseName, Assignments,           \* of RegressionSuites
          LastName, RuleIds, Refs, Nil, Loaded, HandWritten, HandPlaces,
          Cadence, Expiries, MaxDay, MaxWrites,       \* of OverrideLife
          Samples, RateUnit, MinReleases, MinRise, DefaultSigma,             \* of DenyRates
          Processes, DefaultSize, Sizes, BypassLimit, MaxRuns, MaxEvaluations    \* of TelemetryFile

VARIABLES
    part,    \* what happens in this behaviour
    submitted, finding,
    chain, gate,
    asked, dir, unread, packs, index, failOpen, manifest, changes, told,
    inquiry, suite, corpora, next, verdict,
    today, pointer, request, files, granted, writes, honoured,
    sample, condemned,
    file, torn, held, runs, panics

textVars == <<submitted, finding>>
gatesVars == <<chain, gate>>
packsVars == <<asked, dir, unread, packs, index, failOpen, manifest, changes, told>>
suiteVars == <<inquiry, suite, corpora, next, verdict>>
overrideVars == <<today, pointer, request, files, granted, writes, honoured>>
ratesVars == <<sample, condemned>>
telemetryVars == <<file, torn, held, runs, panics>>
evidenceVars == <<ratesVars, telemetryVars>>
releaseVars == <<part, textVars, gatesVars, packsVars, suiteVars, overrideVars, evidenceVars>>

Texts == INSTANCE TextGates
Gates == INSTANCE ReleaseGates
Sets == INSTANCE PackSets
Suites == INSTANCE RegressionSuites
Overrides == INSTANCE OverrideLife
Rates == INSTANCE DenyRates
Telemetry == INSTANCE TelemetryFile

ASSUME ReleasesAssumption == Gates!ReleasesAreWellFormed
ASSUME DaysAssumption == Overrides!DaysAreNumbers
ASSUME CountsAssumption == Rates!SamplesAreCounts
ASSUME StemsAssumption == Sets!StemsAreNames
ASSUME InquiriesAssumption == Suites!InquiriesAreWellFormed
ASSUME LimitsAssumption == Telemetry!LimitsAreNumbers

(* A part rests without an input.                                          *)
NoText == [kind |-> "none"]
NoRelease == [guarded |-> <<>>, safe |-> <<>>, override |-> {}]
NoQuestion == [tool |-> "none", dir |-> <<>>]
NoInquiry == [kind |-> "none", files |-> <<>>]
NoSample == [counts |-> <<>>]

ReleaseInit ==
    /\ part \in {"texts", "gates", "packs", "suites", "overrides", "rates", "telemetry"}
    /\ Texts!TextsInit(IF part = "texts" THEN Submitted ELSE {NoText})
    /\ Gates!GatesInit(IF part = "gates" THEN Releases ELSE {NoRelease})
    /\ Sets!PacksInit(IF part = "packs" THEN PackQuestions ELSE {NoQuestion})
    /\ Suites!SuitesInit(IF part = "suites" THEN Inquiries ELSE {NoInquiry})
    /\ Overrides!OverridesInit
    /\ Rates!RatesInit(IF part = "rates" THEN Samples ELSE {NoSample})
    /\ Telemetry!TelemetryInit

ReleaseNext ==
    /\ UNCHANGED part
    /\ \/ /\ part = "texts" /\ Texts!TextsNext
          /\ UNCHANGED <<gatesVars, packsVars, suiteVars, overrideVars, evidenceVars>>
       \/ /\ part = "gates" /\ Gates!GatesNext
          /\ UNCHANGED <<textVars, packsVars, suiteVars, overrideVars, evidenceVars>>
       \/ /\ part = "packs" /\ Sets!PacksNext
          /\ UNCHANGED <<textVars, gatesVars, suiteVars, overrideVars, evidenceVars>>
       \/ /\ part = "suites" /\ Suites!SuitesNext
          /\ UNCHANGED <<textVars, gatesVars, packsVars, overrideVars, evidenceVars>>
       \/ /\ part = "overrides" /\ Overrides!OverridesNext
          /\ UNCHANGED <<textVars, gatesVars, packsVars, suiteVars, evidenceVars>>
       \/ /\ part = "rates" /\ Rates!RatesNext
          /\ UNCHANGED <<textVars, gatesVars, packsVars, suiteVars, overrideVars, telemetryVars>>
       \/ /\ part = "telemetry" /\ Telemetry!TelemetryNext
          /\ UNCHANGED <<textVars, gatesVars, packsVars, suiteVars, overrideVars, ratesVars>>

ReleaseSpec == ReleaseInit /\ [][ReleaseNext]_releaseVars

-----------------------------------------------------------------------------
(* The properties of the parts.                                            *)

(* The checks of expressions, edits, redirects and override files find     *)
(* what they are for (regex_safety.rs, coverage.rs, rule_pack.rs,          *)
(* overrides.rs).                                                          *)
TextGatesHold == Texts!TextGatesHold
(* No run of releases weakens a rule unless somebody justified it, and the *)
(* report says what the gate does (coverage.rs).                           *)
WeakeningIsReported == Gates!WeakeningIsReported
(* Engine, catalog, manifest, merged artifact and pack search mean the     *)
(* same packs (engine.rs, catalog.rs, pack_manifest.rs, rule_pack.rs,      *)
(* documented_commands.rs).                                                *)
PackToolsAgree == Sets!PackToolsAgree
(* What a suite or the curation of recorded cases says of a pack is what   *)
(* the engine does with it (regression.rs, overrides.rs).                  *)
RegressionSuitesHold == Suites!RegressionSuitesHold
(* An exemption is granted for its repository, release and days, and is    *)
(* listed (overrides.rs, documented_commands.rs).                          *)
OverridesAreBound == Overrides!OverridesAreBound
(* The deny rate of a release is judged against every other release alike, *)
(* and condemns at most one of a few (state_store.rs, rollback.rs).        *)
DenyRatesHold == Rates!DenyRatesHold
(* The telemetry document says what the saves it descends from have done,  *)
(* whoever wrote it last (telemetry.rs).                                   *)
TelemetryIsItsTrail == Telemetry!TelemetryIsItsTrail
=============================================================================
