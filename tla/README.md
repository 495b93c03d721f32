# A TLA+ model of irreversible-command-gate

`icg` sits between an AI coding agent and its tools. Every tool call starts a
short-lived process (a harness hook, or a PATH wrapper around the real binary)
that answers allow, warn, rewrite or deny. Two things are hard about it. Many
such processes run at once, any of them may be killed at any moment, and they
and the operator's commands meet only in files. And what each of them decides
depends on how it reads shell commands, payloads, paths, packs and overrides,
where a reading that differs from the one that counts lets something through.

The modules are in five groups. Source paths are relative to the repository
root, so the code is under `src/src/`.

| group | modules | proofs |
|---|---|---|
| invocations and policy | `GuardLifecycle`, `FailClosedPolicy`, `ReleaseTrust` | `GuardLifecycleProofs`, `FailClosedPolicyProofs`, `ReleaseTrustProofs` |
| documents on disk | `DurableFiles`, `AtomicDocument` (abstract) | `DurableFilesProofs` |
| deployment | `PackDirectory`, `HarnessInstallers`, `WrapperLinks`, composed by `Deployment` | `DeploymentProofs` |
| judging a call | `RuleEngine`, `HookInvocation`; `Texts`, `ShellWords`, `ToolPayloads`, `ContentGuards`, composed by `CallReadings` | `HookInvocationProofs` |
| releasing rules | `PatternEdits`, `TextGates`, `ReleaseGates`, `PackSets`, `RegressionSuites`, `OverrideLife`, `DenyRates`, `TelemetryFile`, composed by `PackReleases` | `PackReleasesProofs`, `RegressionSuitesProofs` |

`ShellScripts`, `SentPayloads`, `GuardQuestions` and `ReleaseCases` hold inputs,
the first of them together with what a shell means by them. The `MC*` modules give the constants values for TLC. `PROJECT.json`
maps each definition to the lines it stands for, and lists components, runs,
mutants, hazards, findings and theorems.

## 1. Inventory

### Processes and shared files

    agent -> harness -> icg hook --+                        operator
    agent -> PATH wrapper ---------+                        icg trust set
                |                                           icg policy reconcile | demote |
                |  health-state.json     flock              force-graduate | configure
                |  state store           flock    <---+     icg telemetry configure | reset
                |  trust pointer         no lock  <---+---- icg update
                |  telemetry             lock on save only  icg install, install-*-hooks
                |  regression corpus     no lock            icg regression-prune
                |  denial log            no lock            icg override request | approve
                +--reads--> pack directory, override files, fail-closed policy

There are no threads of importance: concurrency is between processes. An
operation on a transactional store is load, change, write a temporary file,
rename, all under one flock. `DurableFiles` shows that this is atomic towards
other processes and crashes, and the three modules of the first group use it as
one step. Nothing is atomic across two operations.

### Components

| component | state | operations | hard | correct when |
|---|---|---|---|---|
| Run marker, crash recovery (`health.rs`, `main.rs`) | marker with a pid, counters, bounded history; per process `finished` and the crash found at its start | start, finish, panic hook, report, halt | one marker for overlapping processes, a pid as the only sign of life, evidence in memory between two stores, exec | no live or ended run counted as a crash; a vanished one reaches the evidence once; a halted run never executes |
| Fail-closed policy (`fail_closed.rs`) | mode, threshold, streak, counted releases, last poison pill, audit tail | operator commands, `icg policy reconcile` | four sources read one after another; bounded tails; idempotence by comparison with the last event | closes exactly after `threshold` clean releases; no evidence reopens it; the tail tells the state |
| Trust pointer, rollback (`rollback.rs`, `trust_pointer.rs`, `state_store.rs`) | pointer, note of it and of its predecessor, counts for each release | note, count, check and roll back, `icg trust set` | seven reads and three writes with nothing held; records that outlive an adoption | goes to the exact predecessor, once, on evidence since the adoption |
| Store files (`state_store.rs`, `health.rs`, `fail_closed.rs`, `telemetry.rs`, `trust_pointer.rs`, `temp_files.rs`) | document, lock, temporary files, backup | load, save, sweep | a kill, an error or a machine stop between any two system calls; pids used again | no torn document, no acknowledged update lost, nobody waits for the dead |
| Update (`update.rs`, `pack_manifest.rs`) | active, staging, previous and retired directories | fetch, unpack, inspect, exchange, keep, drop | overlapping updates, failing renames, hooks that load meanwhile | the active directory is one complete release; what was replaced can be found |
| Installers (`cursor_hooks.rs`, `gemini_hooks.rs`, `opencode_plugin.rs`) | a user's configuration file and its backup | install, uninstall, merge, sweep | in-place writes, edits meanwhile, interrupted runs | nobody else's hooks are lost |
| Wrapper links (`documented_commands.rs`) | symlinks in a directory on the PATH | install, uninstall | others change the directory between look and act | the report is true |
| Rule engine, invocations (`engine.rs`, `main.rs`, `adapter.rs`) | marks, regression corpus, denial log | dispatch, judge, mark, record, answer | order of packs, undecidable checks, rewrites a harness cannot carry, concurrent recording and rotation | the severest demanded answer; gated calls after what they need; denials kept |
| Reading a call (`engine.rs`, `adapter.rs`, `github_workflows.rs`, `job_cronjob_yaml.rs`, `value_derivation.rs`) | none | lex, strip wrappers, read payloads and patches, relate paths, globs, YAML and image tags | quoting, nesting, heredocs, batches | nothing a shell or harness would run is left unread |
| Packs (`rule_pack.rs`, `catalog.rs`, `pack_manifest.rs`) | loaded packs, keyword index | load, replace, index, merge, manifest, coverage, drift | listing order, shared ids and keywords | all tools mean the same packs |
| Release gates (`coverage.rs`, `regex_safety.rs`, `regression.rs`) | releases one after another, deny suites, corpora | compare, report, generate, verify, curate | loss over several releases; a second evaluator beside the engine | no unreported loss; a suite says what the engine does |
| Overrides (`overrides.rs`) | request, manifests, days | request, approve, edit, use, list | ageing, other releases, places that are not read | exempts only what was granted |
| Deny rates, telemetry (`state_store.rs`, `telemetry.rs`, `emergency_bypass.rs`) | per-release counts, one telemetry document | count, judge, load, save, configure, reset | few samples of different size; last writer wins | volume does not decide; the document says what was done to it |

Alerting, metrics, monitoring, the health server, binary skew, the scaffolding of
packs, the OpenCode plugin and the scripts around the binary are not modelled;
section 5 says why.

## 2. Modules and code

### GuardLifecycle

One process per element of `Runs`; `Wrappers`, `PracticeRuns` and `ClosedRuns`
say what kind it is. `pc` is its place in `main()`. The health document is
`marker`, `totalCrashes`, `cleanRuns`, `crashHistory`; `tracked`, `finished` and
`startupCrash` are the fields of its `GuardLifecycle` value; `crashCount` and
`lastCrashId` are the evidence in the state store. `PidOf` gives two runs the
same pid when the kernel reuses one. `Start`/`StartFails` are
`GuardLifecycle::start`. The evidence has two writers: `ReportRecovered` is
`recovered_guard_crash_requires_halt`, and `RecordViolation` is
`record_artifact_dir_violations`, the step of `check_and_rollback` that counts
each violation of the artifact directory that stands when the run looks
(`Standing`) once more; `Evaluate`, `EvaluationPanics`,
`LoadFails`, `HookReturns`, `WrapperDenies`, `ReleaseHalted`, `PrepareExec`,
`ExecFails`, `ReturnsErr` are the ways through `run_shadowed_tool` and the hook
branch of `main`; `Kill` and `Panic` may happen at any of them. Every store call
may return an error, at most `MaxFaults` times in a run, and may do so after its
document was replaced (the sync of the directory follows the rename). `closed`,
`recovered`, `reported`, `noted`, `checked`, `errored`, `execFailed` and
`overlapped` are history variables.

### FailClosedPolicy

The methods of `PolicyState` are functions from a policy to a policy
(`RecordCleanRelease`, `RecordPoisonPill`, `InvalidateQualification`, `Demoted`,
`ForceGraduated`, `WithThreshold`); a result equal to the argument is
`PolicyTransition::NoChange`. An operator's command is one action under the
policy lock. `icg policy reconcile` is a chain of actions in the order of the
code: `ReadConfiguration` before the lock, `TakeLock`, `ReadRollbacks`,
`ReadGuardCrashes`, `ReadPointer`, `ReadDeviation`, then one of the decisions.
Between any two of them hooks record rollbacks and crashes, the pointer moves
and the detector is switched. What the telemetry says of a release is an input,
`Healths`, one value per branch of the code. `rollbacksRead`, `basis` and `qualified` (the
different releases counted since the last reset) are history.

### ReleaseTrust

Each guarded invocation is a chain: `Load`, `RecordObservation`,
`RecordEvaluation` (hook and wrapper do the same here), then
`check_and_rollback` read by read: `ReadPointer`, `ReadDeviation`,
`ReadFreshness`, `ReadCooldown`, `ReadPrevious`; then `MakePointer`, which gives
the new pointer its time, and the three writes `MovePointer`, `NoteMove`,
`RecordRollback`. `Fail` ends it anywhere. `SetTrusted` (makes the pointer),
`SaveTrusted`, `LoadBack`, `NoteSet` are the steps of `icg trust set`. The release
records are a sequence, least recently seen first, so that eviction drops its
head. The deny-rate arithmetic becomes the set `Spiking` (`DenyRates` has the
numbers); time becomes the number of pointers made, since freshness only
compares a record's first evaluation with the time in the pointer. `latest` is
the greatest time that a written pointer has had, and `late` the times of those
written after a pointer made later; both are history. The cooldown may elapse at
any time.

`ReleaseTrust` and `GuardLifecycle` produce what `FailClosedPolicy` consumes:
`rollbackCount`, `crashCount` with `lastCrashId`, and the trusted release. In
`FailClosedPolicy` these are free actions that may happen at any time in any
order, so what is shown of it holds for whatever the producers do. In the other
direction, `ClosedRuns` is the policy mode each run read at its start.

### DurableFiles and AtomicDocument

A behaviour is about one of five stores, chosen in `Init`. Each invocation makes
one update, a chain of system calls given by the store's plan (`StatePlan` and
its siblings). The plans differ as the code does:

| store | lock | fsync | backup | sweep | temporary name |
|---|---|---|---|---|---|
| session state, health | load to rename | file and directory | | after the rename | after the pid |
| policy | load to rename | file and directory | copy of the document before the rename | none | pid and time, never used twice |
| telemetry | from the write on, not the load | none | | after the rename | after the pid |
| trust pointer | none | none | | none | one for all |

A document is the set of updates it reflects; a file is an inode, so that a name
can be renamed while somebody still writes behind it. Faults: a kill, an error of
a call, and a stop of the machine that loses whatever was not synced. An error in
reading the telemetry document does not end the update: `Misread` goes on with an
empty store and writes that (`load_runtime_telemetry_store`, `main.rs:922-931`
and 892). A damaged
document may be there from the beginning. `AtomicDocument` says what callers are
promised: an update is applied whole, one that returned stays. The three
transactional stores are shown to implement it, with the document in place as
`doc`.

### Deployment

`PackDirectory`: updates overlap (there is no lock) and work tree by tree
through staging, retiring, `renameat2` exchange and cleaning up; any rename may
fail and any update may die. Putting back a retired rollback tree (`Restore`) and
removing the staging tree (`Discard`) are steps of their own whose errors the code
ignores: the first leaves the tree under its retired name (`stranded`), the second
leaves the staging tree or a part of it (`littered`). Hooks list the active path and open the manifests
one at a time. A tree is named by the update that built it.
`HarnessInstallers`: documents are groups of entries, ICG's or foreign; each run
reads, merges, backs up once and truncates and fills in place; `Cut` ends it half
way, `Edit` is the user, who may move and remove anything; `late` remembers the
foreign entries that came after the backup, which no backup can hold. What an
installer sweeps out of the managed arrays is `Retained`, entry by entry, and a
group goes only when it is left empty. `WrapperLinks`: install and uninstall keyword by
keyword after a look at the directory, which others change. The three commands
share no file, so `Deployment` follows one of them in a behaviour (`part`) while
the other two rest; `DeploymentProofs` shows that each of its behaviours is one
of every part.

### RuleEngine and HookInvocation

What an expression matches is data: a call consists of units that list the rules
whose expressions match. `RuleEngine` has the control: dispatch by keyword and
file, safe patterns, the order of packs (any permutation, since directory
listings and hash maps differ between processes), errors, exemptions, severity.
The loops of the engine are stated by what they come to: a function of places and
the least place that ends the scan, or the least of the most severe ones
(`Verdict`, `MostSevere`), which is what the proofs reason about.
`HookInvocation` puts it into processes that judge, mark, record and answer, in
four postures (open, closed, practice, bypass), with the shared marks, corpus and
denial log changed step by step, a prune that reads and rewrites, and rotation
without a lock.

### Reading a call

`ShellWords` is the lexer of `engine.rs` character by character, `ShellScripts`
builds command lines together with the programs a shell would start for them,
those included that the lexer does not read, which are marked (`Unread`).
`ToolPayloads` admits and shapes payloads of every harness, reads patches by line
and puts verdicts into envelopes. A line of a patch has a `kind`, what it is to
the tool that applies the patch, and what the guard takes it for (`reads`): a kept
line ` *** End Patch` is text of a file and is read as a marker. `ContentGuards` has globs, workflow and bead
paths, the YAML scan for Jobs and the image versions. They are functions of
their input, so `CallReadings` follows one of them at a time. The operators of
`ShellWords` that go back over words are recursive functions, so that theorems
about `CallReadings` can be proved; `ShellScripts`, which only TLC's run uses, has
RECURSIVE operators.

### Releasing rules

Each is a command or a document of its own; `PackReleases` follows one of seven
(`part`).

- `TextGates`, `PatternEdits`: the check for a repeated repetition, the
  heuristics on edits of a pattern, the redirect rule, the TOML of overrides.
- `ReleaseGates`: `icg coverage-diff` along chains of releases.
- `PackSets`: the engine loading a directory in any order, its keyword index,
  manifest, catalog, merge, coverage report and drift, and the search for the
  directory.
- `RegressionSuites`: deny suites generated for a pack or a release, verified
  against a later pack and used as an override's gate; curation of corpora. An
  input carries the words that `regression.rs` splits and the tokens that the
  engine sees, so that the two evaluators can disagree. The engine is an
  instance of `RuleEngine` that can hold any pack of the inquiry, as it is, as
  the curation sees it, or with the rules of the override exempted; it is told
  each pattern by a key that says whether the rule is exempted. An inquiry is
  well formed: its packs are lists of patterns, a rule that matches does not
  allow, and a write goes to a file of one of three classes.
- `OverrideLife`: request, approval with its default and fallback places, edits
  by hand, days, adoption of other releases, use by a hook, the listing.
- `DenyRates`: mean and spread over the remembered releases and the verdict on
  each, as exact integers.
- `TelemetryFile`: hooks, bypasses, the health copy, `configure` and `reset`
  load and save one document with no common lock. The history field `trail` is
  the invocations and evaluations, oldest first, that a document descends from.

## 3. Runs

Only `durable_files` assumes fairness: `WF` on the step of each invocation that
has begun, because the kernel schedules a live process and releases the flock of
a dead one. Nobody has to begin an invocation and nobody has to be killed. In the
other modules nothing obliges an agent or an operator to do anything, so what
they promise is safety.

| run | properties | bounds |
|---|---|---|
| `guard_lifecycle` | `TypeOK`, `NoFalseCrash`, `LossNeedsOverlap`, `RecoveredIsReported`, `EvidenceIsExact`, `HaltPreventsExec` | a hook, a Fail-Closed wrapper, a practice-mode wrapper that gets the hook's pid; the directory violated until the third run looks, one I/O error; history of 1 |
| `fail_closed_policy` | `TypeOK`, `QualificationIsExact`, `CountedAfterRollbacks`, `AuditMatchesState`, `FailClosedIsSticky` | 3 releases, thresholds 2 and 4, tails of 2, 5 transitions, 2 rollbacks, 2 crashes |
| `release_trust` | `TypeOK`, `RollbacksAreAccounted`, `PreviousIsExact`, `ConvictedOnce` | 3 releases, two spiking, 2 invocations, 2 retained records, no minimum of prior releases, 1 `trust set`, 5 pointers made |
| `durable_files` | `TypeOK`, `DocumentsAreDurable`, `LossesHaveCauses`, `SweepSparesLiveWriters`, `DamageIsContained`, `ImplementsAtomicDocument`, `EveryUpdateEnds` | 3 updates by 2 pids, one of them used again; 2 faults |
| `deployment` | `PacksAreWhole`, `TreesAreAccountedFor`, `ConfigurationsSurvive`, `WrapperReportIsTrue` | 3 updates, 1 hook, 2 faults; 2 own and 2 foreign entries, 1 cut; 3 tools, 1 failing call |
| `hook_invocations` | `ResponseIsSeverest`, `GateOrderHolds`, `RecordsAreKept` | 2 invocations, 11 calls, 4 packs in every order; corpus limit, log limit, rotated files and troubles 1 each |
| `call_readings` | `EveryCommandIsSeen`, `CallsAreJudged`, `VerdictIsExecuted`, `GuardsJudgeTheTarget` | three nested constructs, depth 2 (8 in the code); patches of 3 lines, each of them able to read as another; globs of 3 pieces over paths of 4 |
| `pack_releases` | `TextGatesHold`, `WeakeningIsReported`, `PackToolsAgree`, `RegressionSuitesHold`, `OverridesAreBound`, `DenyRatesHold`, `TelemetryIsItsTrail` | chains of 3 releases; directories of 3 names and 7 packs; packs of 2 rules, 10 commands; 3 days, 2 repositories, 3 references, 2 writes; 5 releases, 3 settings; 2 processes, 3 invocations, 3 evaluations each, sizes 0, 1, 3 |

Why these are enough:

- Three processes show every interleaving of the marker: one that vanishes, one
  that overwrites or clears, one that looks. Tails of 2 are cut with 3 releases
  or transitions, and a threshold of 4 above a tail of 2 lets a release that was
  cut from the tail be counted again. Five pointers let a release be
  adopted, rolled back, put back by the rollback of another, or by a pointer made
  early and written late, and judged again.
- A writer that overlaps, one that meets a pid used again and one that comes
  after are three; two faults put a machine stop behind a kill or an error.
- Three updates overlap such that one retires what another has exchanged while a
  third finds the rollback place taken. Two faults let the exchange and then the
  renaming back, or the removal, fail in one update.
- Two invocations race on each file; a limit of 1 is reached by the first of
  them.
- The depth limit of nested `sh -c` only cuts off; 2 is reached by the scripts. A
  path of four characters has room for a directory, `..` and a name.
- Three invocations of telemetry are a writer, one that overlaps it and one that
  follows; with 3 evaluations a hook fills and overflows every window. Five
  releases put four into a baseline, where a threshold of 1 condemns two at once
  and the default of 3 cannot.
- `OverrideLife` has a re-justification cadence of 1 day and expiries before and
  after the last day; two repositories share their last name.
- A prune without packs and the refusal of a limit of 0 are left out of
  `RegressionSuites`.

The deadlock check is off where the system stops by itself: all runs over, all
inputs judged, the bound on writes reached. `durable_files` has an explicit
`Finished` step instead. Symmetry is used for interchangeable processes,
releases and crash identifiers, and only where nothing but safety is checked.

Each property of a passing run has a mutant: a definition next to the original
with a plausible bug in it under which TLC finds that property violated.

### Disagreements with the documentation

Four runs check one property each that states a sentence of the repository, and
TLC finds it violated.

- `failed_exec`: `main.rs:1352-1354` says a failed exec is still reported as an
  abnormal exit. The wrapper finished cleanly just before, and the second finish
  does nothing.
- `poison_pill`: `fail_closed.rs:500` says that the answer PoisonPill means the
  qualification was reset. Evidence whose reference equals the last consumed one
  is ignored, also when releases were counted in between, but answered the same.
- `exact_previous`: `rollback.rs:6-7` says the reaction goes back to the exact
  previous reference. Between reading it and writing the unlocked pointer an
  operator or a second invocation may move the pointer, and the move is
  overwritten.
- `condemned_release`: `rollback.rs:247` says that the release rolled back must
  not be promoted until investigated. The rollback's own note makes it the
  previous reference, so the next rollback promotes it.

### Other observations made while modelling

These have no run; the models follow the code in each of them.

Invocations and stores
- A killed run that overlapped another leaves no trace (`health.rs:1172` against
  771-774); `LossNeedsOverlap` says when. A hook that recovers a crash and then
  fails its set-up has consumed the marker without recording evidence
  (`main.rs:1680`, `docs/notes/fail-closed-policy.md:15-17`).
- The counter `crash_count` is no number of crashes: every guarded invocation adds
  one for each standing violation of the artifact directory (`rollback.rs:105-121`),
  under one id, and an increment stays although its call erred when only the sync of
  the directory failed. `EvidenceIsExact` says what it does count.
- `fail_closed.rs:289` says that a release reference is counted at most once. The
  list that this rests on holds `MAX_COUNTED_RELEASES`, and `set_threshold` has no
  upper limit (466): with a threshold more than one above the list, a release
  that was evicted counts again. `QualificationIsExact` says that the streak is the
  number of different releases up to one above the list, and rests on at least as
  many as that beyond.
- A pointer gets its time when it is made (`trust_pointer.rs:159`) and is written
  later (`rollback.rs:233` and 242). One that is written after a pointer made later
  can be older than the evidence that has just condemned its release, and the same
  evidence then condemns it again. `ConvictedOnce` excepts adoptions written late.
- An error in reading the telemetry document is answered with an empty store, which
  is then written over the sound document: one transient error loses all counts.
  `LossesHaveCauses` names it beside overlap and the stop of the machine.
- `icg telemetry configure --window-size 0` is accepted while the window is
  empty. `EvaluationWindow::push` then removes from an empty vector, outside
  `catch_unwind`, so every hook panics before it answers, although `main.rs:914`
  calls telemetry no prerequisite of a decision. A hook in flight writes the
  configuration it had loaded back over a later one. `configure` gives the old
  records the present time and forgets the health copy; `reset` says it resets
  the baseline, but the one that decides on rollbacks is in the state store.
- With more than sigma^2 + 1 remembered releases the detector can condemn several
  releases on the same numbers, among them the one a rollback goes to; with the
  default threshold that takes more than ten others, and 32 are remembered.
- A recorded denial of a batch is evaluated again file by file, and each of these
  counts towards the release's deny rate. Verdicts are attributed to the trust
  pointer's release, not to the packs that were loaded.
- A mark is set before the tool has run; "git pull && sync flush-only" marks only
  the pull. A check that cannot be decided lets the unit through, also under
  Fail-Closed; a failed load of an override ends in an error, not in a denial.
- Concurrent rotations can overwrite a rotated log, and at the limit the newest
  one is removed (the comment at `denial_log.rs:433` says the oldest). A prune
  that races a recorder loses a case.

Deployment
- A failed update leaves its staging tree behind when removing it fails
  (`update.rs:284`), and a second failing rename strands the rollback tree under a
  hidden name (`update.rs:782-786`); both errors are ignored and reported to nobody,
  although the active policy stays untouched as `update.rs:751` promises.
- Two overlapping updates can leave the older release installed. The comment that
  a backup always holds the state before the installer is not true of a file the
  installer itself created. An OpenCode install killed after the truncation
  leaves a blank file that later runs refuse as foreign.
- `Path::exists` does not see a dangling link: after `icg` has moved, even
  `--force` cannot install the wrapper again.

Reading a call
- `engine.rs:789-791` says that commands the shell would run must reach pack
  dispatch whether they are written directly or inside a substitution. Four that a
  shell runs do not. The first command of a captured substitution: `A=$(git x y)`
  is dispatched as `x` and `A=$(git)` not at all (the code calls the first a
  residual gap, `docs/notes/command-substitution-lexing.md:90-99`). A command
  between backticks (deferred there, 70-77). The ends of a subshell outside a
  substitution, where the parentheses stay on the words. A substitution in the body
  of an unquoted heredoc. And 784-785 say that rule expressions see the words that
  the shell would pass to the executable, but a redirection to or from a file stays
  among them, and `>&` ends the command. All of these are in `ShellScripts`;
  `EveryCommandIsSeen` asks nothing of them but that they hide no other command.
- `$((cmd) )` is read as arithmetic, and
  the scan of `$((a;` swallows the separator although a comment says it cannot
  (`engine.rs` 738-746). `**/` does not ask for a component boundary. The
  workflow guard is lexical. A block scalar inside `- key: |` hides a sibling
  `kind: Job`.
- The lines of a patch are compared after trimming (`engine.rs:202-218`), so that
  the text of a file can read as a marker. A kept line ` *** End Patch` ends the
  reading, and files after it are not judged, although `engine.rs:185-188` says
  every header contributes a source. A kept line ` *** Begin Patch`, or a second
  begin marker, makes the whole patch invalid, which fails open, although 191-194
  say that only input with no begin marker or no header is rejected. An added line
  `++ x` or a kept one `@@ x` is taken for metadata and left out of what is judged.
  `CallsAreJudged` speaks of patches with one begin marker in which no line reads
  as a marker, or as the name of a file, that is none.
- The rewrite of one segment replaces the whole compound command; the rewrite of
  a patch replaces the patch. OpenCode payloads skip `validate_tool_input`.

Releasing rules
- The heuristics on edits look at characters: an unchanged `.*?` counts as
  widened (`coverage.rs` near 424). The coverage diff does not see a new safe
  pattern, a cleared `destructive` flag beside a narrowing, a weaker channel,
  fewer keywords, or a rule id used twice. `((a)+)+` passes the regex check.
- Merging lets one pack's safe pattern silence another's rule. A directory called
  `x.json` passes manifest verification and makes the engine fail open. The
  catalog and the coverage report accept expressions that do not compile.
- A suite of a pack with a skipped rule never verifies (`regression.rs:275`), so
  the gate of `overrides.rs:262-279` refuses every override of such a pack.
  Suites read commands without quotes, `sh -c` or wrapper options, so curation
  may drop a case that the engine still denies. A failed prune leaves earlier
  files rewritten.
- `icg override approve` without `--output` writes a name that no hook accepts,
  though it says "installed" and `list` shows it; so does its fallback under
  `/tmp`. Without `--pack` it accepts an expiration in the past. An override
  justified in the future is listed as fresh and refused by hooks. An expired
  override of the previous release makes the integrity diff fail.

## 4. Proofs

TLAPS checks the following for every value of the constants that satisfies the
named assumptions. Limits are natural numbers, retention limits positive, the
"none" values are not elements of the sets they complement, and the invocations
of `ReleaseTrust` and the packs of `RuleEngine` are finitely many. A rule warns,
rewrites or denies (`PacksAssumption`); ICG's entries are told from others
(`EntriesAreDisjoint`); the days of a manifest are numbers (`DaysAssumption`); a
release's patterns are texts and it has one override file or none
(`ReleasesAssumption`); the sizes of a telemetry window are numbers, and its
default size and the length of the bypass audit, both constants of the code, are
positive (`LimitsAssumption`). The counts of a release are numbers, at least one
evaluation each, and the unit of a rate is a multiple of twice each of them, so
that rates are whole numbers (`CountsAssumption`; TLC checks it of its samples).
A `*.json` name is its stem and the extension, so no two names share a stem
(`StemsAssumption`). A harness's payload is a call of a known harness that spells a
field in one way, as the parser refuses a field that is there twice
(`PayloadsAssumption`). What is asked of the deny suites is well formed, with packs
of any length and any words in their expressions (`InquiriesAssumption`). The bounds of TLC are ordinary constants there.

**GuardLifecycleProofs.** `TypeCorrect`, `NeverFalseCrash`, `LossOnlyByOverlap`,
`HaltHolds`, `RecoveredReported`, `EvidenceExact`. `MarkerInv` says that a marker
names a run that did start and whose own end is not on record; a start then
counts it only if its pid is dead. `LossInv` strengthens the loss property from
vanished runs to all tracked, unclosed ones. `HaltInv` ties the halting decision
to each place on the way to exec. `ReportInv` follows a recovered crash from the
start to the evidence or to the error that stopped it. `ExactInv` says that crash
identifiers on their way are distinct, that each is reported at most once and
that the counter is the number of reported ones and of violations noted, each
violation at most once by each run that checked.

**FailClosedPolicyProofs.** `TypeCorrect`, `QualificationExact`,
`CountedOnlyAfterRollbacks`, `AuditTrailMatches`, `FailClosedStays`. `GoodPolicy`
collects what holds of every saved policy, and one lemma per method shows that it
returns a good one. The counted tail is duplicate-free and as long as the streak up to its limit, and
it is part of `qualified`, the different releases counted since the last reset. A
release counted anew is not in the tail, so up to the limit `qualified` grows with
the streak (`TrackedBecomes`); with a full tail one more is sure to differ, and
beyond that nothing is, which is where the claim ends.
`CountedOnlyAfterRollbacks` needs to know that a reconciliation past
`ReadRollbacks` has read exactly what the policy has consumed, and that the last
poison-pill reference is never ahead of it (`ConsumedInOrder`, `PoisonBehind`).

**ReleaseTrustProofs.** `TypeCorrect`, `ConvictedOnlyOnce`, `PreviousStaysExact`,
`RollbacksAccounted`. The invariant is about time: nothing in anybody's hands is
later than the last pointer made (`Timely`), evidence past the freshness check
is not older than the pointer it is held against, and older than the one made on
it (`Evidence`), the present adoption has the greatest time of all unless it was
written late (`LateOrLatest`), and every conviction rests on evidence older than
that time (`ConvictionsArePast`). The accounting theorem counts the invocations between two
writes with the cardinality lemmas of the library.

**DurableFilesProofs.** `TypeCorrect`, `SweepIsSafe`, `DocumentsDurable`,
`Refinement`, `DamageContained`, `LossesCaused`. The inductive invariant is
`TypeOK`, `OnPlan` (each invocation is where its store's plan can have brought
it, and holds the lock there), `Exclusive` (in a transactional store one
invocation is between lock and return, and its temporary file is no document),
the sweep property and `Kept` (the document in place is whole, synced before it
was renamed, and holds every acknowledged update). For the refinement `Behind`
adds that the document the disk is sure of is the present one or its predecessor
without the update in progress, so that a machine stop takes back one
unacknowledged update or none. `DamageContained` is an action property: a store
that was damaged beforehand is never passed on as sound. `Refused` says that a
strict store then lets nobody beyond loading, `BackupStands` that the policy's
backup is whole and on the disk until a save has replaced the damaged document.
`LossesCaused` is about the two stores without a lock over the whole operation.
Its invariant `CalmInv` says: before two invocations have met at most one runs
(`OneRuns`); while the machine has not stopped, and nobody has met over the
pointer, no temporary name leads to a document in place (`CalmNames`), a file
that is about to be renamed is whole (`CalmContents`); and while invocations of
the telemetry store follow one another, what one has read and will write has
every update that returned, or that of an invocation which could not read the
document and began a new one (`CalmCounts`). A torn document thus takes a stop or
an overlap, and a lost update one of these or a failed read.

**DeploymentProofs.** Of the pack directory: `TypeCorrect`, `PacksWhole`, `TreesAccounted` (from
`ActiveWhole`, `LoadsWhole`, `RollbackKept`, `FailureHarmless`), for any
number of overlapping updates and hooks. `OnePlace`: a tree is at most at one
path. `StagedByPhase`: what an update's staging path holds at each step,
and that a failed one holds nothing there unless the removal failed.
`PlacedIsAccepted`: whatever is at a path passed the inspection.
`Alone`: without overlap one update works at a time, finds the rollback place
free, and has put back what it retired when it has failed, unless that rename
failed as well (`RestoreKeeps`, `DiscardKeeps`). `DisplacedIsKept`: the tree
of the last exchange is at the rollback place or where its update holds it. For
the loading hooks `LoadsInv` relates the manifests listed, opened and still to
open. Of the whole machine: `ImplementsParts`: a behaviour of the deployed machine is
a behaviour of all three parts. `DeployedPacks` follows from it.
`DeployedWrappers`: what a run reports of each keyword is what it did, whatever
others do to the directory. `DeployedHarness` is `ConfigurationsSurvive` for any
hooks and any groups of them. Its invariant relates what the installer holds in
memory to the file it will truncate: while nobody has edited meanwhile, the text
it has read is the file's, and what it will write has the same foreign entries
(`RunIsFaithful`); before a cut, what the user put there is in the text that is
or will be written, and in the backup once there is one (`NothingIsLost`); and
after one cut it is in one of the two (`OneCutIsSurvived`). The lemmas about the
merge say that removing, replacing and appending ICG's entries changes no foreign
one, whatever the arrays hold.

**HookInvocationProofs.** `EngineIsSeverest` is about the engine alone: for any
packs, call, store and order of asking, the answer is never more than what the
matching rules demand, and it is the severest of them when every pattern can be
decided. So the order of a directory listing or of a hash map shows only through
patterns that cannot be decided. `SeverestAnswers`, `GatesKeepOrder` and
`RecordsHold` are the three properties of `hook_invocations`, for any number of
concurrent invocations. `JudgedWell` ties each invocation's decision to the marks
it read. `MarksHaveCauses`: a mark is one whose call was let through, was killed,
or is about to be let through, and what an invocation has seen is still set.
Marks are only ever added and only relax rules, so a call that was allowed on
some marks is allowed on more. `LogIsKept`: unless rotations have overlapped one
invocation rotates at a time into a slot that is free, so a record stays in the
log, in a slot, or was expired with the last slot. `CorpusIsKept`: who is about to
append has seen room for a new case, and unless writers have met the corpus is
distinct and within its limit.
`VerdictExecuted` and `CallsJudged` are about `CallReadings`, for any payloads. For the
first, `CallsInv` says what a call has come to at each stage: what the engine is
given comes from fields that are there (`SourceFits`), so the key of a rewrite is
the one field the tool acts with (`KeyIs`), and each envelope says what was decided
(`Says`, with a lemma per harness). The second is a loop invariant. In a patch without lines that read as a marker and
are none (`Unmistaken`) each line is taken for what it is (`TakenForWhatItIs`), and
`PatchIsRead` relates what was read of a patch to its text: whether a begin marker stands there,
that the files so far are those that the text names up to this line, each with its
lines, in order (`CoversBy`), and that the last line that names a file names the one
being read. `PlainLine`, `NamingLine` and `TextLine` say how one more line changes
that, `AllCovered` that at the end nothing is missing. A second begin
marker takes a patch out of the claim (`TwoBegins`).

**PackReleasesProofs.** `WeakeningReported`: over any run of releases that nobody
had to justify no rule is lost, and the report asks for a justification exactly
when the gate does. The gate compares two neighbours (`GateLosesNothing`);
`RunGrows` carries that to any two releases of the run, and `RunAges` to a run in
which an override has expired. `OverridesBound`: an exemption that a hook honours
was granted for its repository, release and day, names one deny rule that the
hook has loaded, and is listed. Its invariant is `FilesAreGranted`. `TelemetryTrue`
is about the telemetry document: its invariant (`TelemetryInvariant`) says that every
document, on the disk or in the memory of an invocation, says what its trail tells,
and each operation keeps that of the document it has loaded, so that it does not
matter who saves last. The parts of a document have a lemma each (`WindowKept`,
`MatchesKept`, `BypassesKept`, `ConfigurationKept`). The window is the difficult one:
that it drops an entry only when it is full is stated over its whole past
(`Length`: the least of the sizes it has had, each with the evaluations since), and
`LengthGrows` shows how that changes with one event.
`DenyRatesTrue` is arithmetic. Totals of sequences are linear and monotone
(`TotalOfCombination`, `TotalIsMonotone`), from which `OutlierIsBound`: among n
numbers one deviation d from the mean and the spread S satisfy
n d^2 <= (n - 1) S. If a condemned release did not exceed some other one, that
other one would lie as far above the mean, and its deviation alone would be more
than sigma spreads allow for n <= sigma^2 + 1 (`NoneIsAsHigh`). The volume half
rests on rates that do not change when both counts are doubled
(`TwiceIsTheSame`). `PackToolsTrue` is about a directory and its tools. Its
invariant `SetsInv` says that every pack the engine holds is that of a file it has
read, that an engine that still judges holds the pack of every file it has read
(`PacksAreRead`), that the index leads to the packs that name a program and no
other (`IndexFits`, kept by a replacement through `UnderIndexed`), and that an
answer is that of its tool to the directory as it is (`Answered`). The properties
of the tools follow from their definitions (`CatalogHolds`, `CoverageHolds`,
`ManifestHolds`, `DriftHolds`, `MergeHolds`, `SourceHolds`).

**RegressionSuitesProofs.** `RegressionSuitesTrue` is `RegressionSuitesHold` for
any packs, inputs, recorded cases, exemptions and limits. Two evaluators have to be
compared, and both are brought to one form: the first text that a pack denies, and
in it the first rule that denies. `ContentAnswer` and `CommandAnswer` say so of the
engine, through `SeesIs` (one pattern, one text), `VerdictOf` (the first denial
among results) and `FirstDenied`. For suites, `ContentDenied` and `CommandDenied`
show that the engine denies a case that was validated against the pack or against
the part of it that a release is reduced to. For verification, a suite has as many
cases as the pack has enabled rules and a case for each, so that ids of enabled
rules are unique by counting. For the gate, `AnswerSpares` says that a denial never
names an exempted rule, whatever else the pack holds. For curation, the rule that is
reached is the engine's (`ReachedIs`, where every step of the search is compared),
and `PrunedIs` says what is left of a file. The inductive invariant `SuitesInv` ties
the suite to the packs it was made of, the verdict to the suite and each corpus to
the recorded file.

What the theorem claims is confined to inputs that both evaluators read alike
(`ReadAlike`), and the proof needs each part of that: the suites split a command at
separators only; they split it also for a pack without keywords, which the engine
asks about the line as a whole; they do not look at the file a content goes to; a
safe pattern that asks for state is no expression to them; and a rule brings names
of programs along that only the engine follows.

Arguments by induction over a number (the first place that ends a scan, the
numbering of a finite set, the length of a filtered list) go through least
elements: the well-founded induction theorem `WFMin` takes a set, not an
operator (`Least`, `Numbered`, `RetainedIs`).

Only model-checked, and why:

- `EveryUpdateEnds`, as liveness and ENABLED are outside the prover's reach.
- `EveryCommandIsSeen` and `GuardsJudgeTheTarget`: they compare what a
  character-by-character reader makes of a text with what the text was built to
  mean, by recursion over its parts.
- `TextGatesHold`: it compares folds over a text with what the text was built to
  mean, where a proof needs induction over data.

The disagreements of section 3 are counterexamples and need no proof.

## 5. Not modelled

- Alerting, metrics, the monitoring loop and the health server: views of the
  stores and network output on which nothing the guard decides depends. An alert
  enters its cooldown before any back end has accepted it (`alerting.rs:526`).
- The binary skew report, the scaffolding of packs (a failed write leaves a
  partial file), the corpus replay tool, the OpenCode plugin and the scripts:
  reports, generators and glue that change no state the guard reads.
- The timing of generated inputs in `regex_safety.rs`, which depends on the clock
  and the regex library. What an expression matches is data everywhere.
- The loss of the state store, which lives in a cache directory
  (`state_store.rs:711`): its counters start again below
  `last_processed_rollback_count`, and new rollbacks are ignored until they have
  caught up. No document says what reconciliation owes in that case.
- A failing `stat` in the stores with a lock: `Path::exists` takes it for a missing
  file, so the store would be started anew (`state_store.rs:734` and 771,
  `health.rs:1061`, `fail_closed.rs:598` and 623). `DurableFiles` assumes that the
  owner of a cache directory can look into it.
- The heartbeat, uptime figures, crash classification and the monitor's own start
  in the health document; channel pointers, pointers without a time stamp, a
  disabled rollback reaction; ownership and modes of files; an unreadable
  `/proc`.
- Floating point: `DenyRates` is exact, so a verdict at the very threshold may
  differ from the binary's.
- `icg telemetry status` and the other reports, which only read.

## 6. Plan

What would add most from here:

1. `TelemetryFile` as an instance of the telemetry plan of `DurableFiles`, so
   that lineage and file protocol are one refinement.
2. A loss of the state store in `FailClosedPolicy`, once the repository says what
   reconciliation should do.
3. Patches with a line that reads as a marker: which files are still judged, up to
   that line, as a part of `CallsAreJudged`.
