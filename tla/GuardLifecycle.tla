--------------------------- MODULE GuardLifecycle ---------------------------
(***************************************************************************)
(* The run marker by which one guard invocation learns that an earlier     *)
(* one disappeared (src/src/health.rs), and the path on which that         *)
(* evidence reaches the store the fail-closed policy is reconciled from    *)
(* (recovered_guard_crash_requires_halt in src/src/main.rs).               *)
(*                                                                         *)
(* A run is one `icg hook` or PATH-wrapper process.  Runs start when an    *)
(* agent calls a tool, so any number are alive together.  They share ONE   *)
(* marker in health-state.json.  Every HealthStore operation holds the     *)
(* flock from load to rename, so it is one action here; a process killed   *)
(* inside it leaves the previous document, as if the operation had not     *)
(* begun.  A process can be killed between any two of them, and each of    *)
(* them can return an I/O error that its caller only logs: before the      *)
(* rename, which leaves the previous document, or after it, when only the  *)
(* sync of the directory failed and the new document is in place.  The     *)
(* evidence counter has a second writer, the check of the trust pointer's  *)
(* directory, which notes every standing violation of it as well.          *)
(***************************************************************************)
EXTENDS Naturals, Sequences, FiniteSets

CONSTANTS
    Runs,            \* guard invocations that may start, one process each
    Wrappers,        \* the runs that are PATH wrappers; the others are hooks
    PracticeRuns,    \* the runs in practice mode, where a denial is only reported
    PidOf,           \* the pid the kernel gives each run's process
    ClosedRuns,      \* the runs whose Engine::new read a Fail-Closed policy
    MaxCrashHistory, \* HealthConfig::max_crash_history
    NoRun,           \* no run marker in the document
    NoCrash,         \* a start that recovered nothing
    Violations,      \* crash ids of the conditions the directory may violate
    Standing,        \* those of them that stand when each run looks
    MaxFaults        \* bound: store operations that return an I/O error

ASSUME RunsAssumption ==
    /\ Wrappers \subseteq Runs
    /\ PracticeRuns \subseteq Runs
    /\ ClosedRuns \subseteq Runs
    /\ NoRun \notin Runs
ASSUME PidAssumption == DOMAIN PidOf = Runs
ASSUME LimitAssumption ==
    /\ MaxCrashHistory \in Nat
    /\ MaxFaults \in Nat

CrashKinds == {"unknown", "error", "panic"}
CrashRecord == [run : Runs, kind : CrashKinds]
ASSUME CrashAssumption ==
    /\ NoCrash \notin CrashRecord
    /\ Violations \cap CrashRecord = {}
    /\ Standing \in [Runs -> SUBSET Violations]

VARIABLES
    pc,           \* where each run is in main()
    tracked,      \* runs holding a GuardLifecycle: their start was persisted
    finished,     \* GuardLifecycle::finished of each run
    engineFailed, \* runs whose Engine::fail_open flag is set
    startupCrash, \* GuardLifecycle::startup_crash of each run
    marker,       \* HealthState::current_run_*: the run named by the marker
    totalCrashes, \* HealthState::total_crashes
    cleanRuns,    \* HealthState::consecutive_clean_runs
    crashHistory, \* HealthState::crash_history
    crashCount,   \* SessionState::guard_crash.crash_count, in the state store
    lastCrashId,  \* SessionState::guard_crash.last_crash_id
    checked,      \* violations each run's check has come to, as <<run, id>>
    faults,       \* I/O errors so far
    closed,       \* history: runs whose own last transaction was persisted
    recovered,    \* history: runs a later start counted as a crash
    reported,     \* history: crash records that reached the state store
    noted,        \* history: the members of checked that reached it
    errored,      \* history: runs recorded as an error or a panic of their own
    execFailed,   \* history: wrappers whose exec of the real tool returned
    overlapped    \* history: runs alive together with another run

health == <<marker, totalCrashes, cleanRuns, crashHistory>>
evidence == <<crashCount, lastCrashId, checked, reported, noted>>
vars == <<pc, tracked, finished, startupCrash, engineFailed, health, evidence,
          faults, closed, recovered, errored, execFailed, overlapped>>

(* A wrapper that execs the real tool keeps its pid while the tool runs.   *)
GuardStates == {"started", "judged", "answered", "failedOver", "unmatched",
                "denied", "released", "exec"}
LiveStates == GuardStates \cup {"tool"}
Live(r) == pc[r] \in LiveStates
PidAlive(pid) == \E r \in Runs : Live(r) /\ PidOf[r] = pid

TypeOK ==
    /\ pc \in [Runs -> LiveStates \cup {"idle", "done", "killed", "panicked"}]
    /\ tracked \in [Runs -> BOOLEAN]
    /\ finished \in [Runs -> BOOLEAN]
    /\ startupCrash \in [Runs -> CrashRecord \cup {NoCrash}]
    /\ marker \in Runs \cup {NoRun}
    /\ totalCrashes \in Nat
    /\ cleanRuns \in Nat
    /\ crashHistory \in Seq(CrashRecord)
    /\ crashCount \in Nat
    /\ lastCrashId \in CrashRecord \cup Violations \cup {NoCrash}
    /\ faults \in Nat
    /\ closed \subseteq Runs
    /\ recovered \subseteq Runs
    /\ reported \subseteq CrashRecord
    /\ checked \subseteq Runs \X Violations
    /\ noted \subseteq checked
    /\ errored \subseteq Runs
    /\ engineFailed \subseteq Runs
    /\ execFailed \subseteq Runs
    /\ overlapped \subseteq Runs

Init ==
    /\ pc = [r \in Runs |-> "idle"]
    /\ tracked = [r \in Runs |-> FALSE]
    /\ finished = [r \in Runs |-> FALSE]
    /\ startupCrash = [r \in Runs |-> NoCrash]
    /\ marker = NoRun
    /\ totalCrashes = 0
    /\ cleanRuns = 0
    /\ crashHistory = <<>>
    /\ crashCount = 0
    /\ lastCrashId = NoCrash
    /\ faults = 0
    /\ closed = {}
    /\ recovered = {}
    /\ reported = {}
    /\ checked = {}
    /\ noted = {}
    /\ errored = {}
    /\ engineFailed = {}
    /\ execFailed = {}
    /\ overlapped = {}

-----------------------------------------------------------------------------
(* The mutations of the health document.                                   *)

(* HealthState::record_crash keeps the newest MaxCrashHistory records.     *)
Remember(crash) ==
    LET longer == Append(crashHistory, crash)
    IN  IF Len(longer) > MaxCrashHistory THEN Tail(longer) ELSE longer

(* Mutant: a crash takes one run off the clean streak instead of resetting.*)
RecordCrashMutant(r, kind) ==
    /\ totalCrashes' = totalCrashes + 1
    /\ cleanRuns' = cleanRuns - 1
    /\ crashHistory' = Remember([run |-> r, kind |-> kind])
    /\ marker' = NoRun
    /\ errored' = errored \cup {r}

(* HealthState::record_crash clears the marker, whoever it names.          *)
RecordCrash(r, kind) ==
    /\ totalCrashes' = totalCrashes + 1
    /\ cleanRuns' = 0
    /\ crashHistory' = Remember([run |-> r, kind |-> kind])
    /\ marker' = NoRun
    /\ errored' = errored \cup {r}

(* HealthState::mark_clean_exit clears the marker, whoever it names.       *)
MarkCleanExit ==
    /\ cleanRuns' = cleanRuns + 1
    /\ marker' = NoRun
    /\ UNCHANGED <<totalCrashes, crashHistory, errored>>

(* Mutant: every marker found at a start is taken for a dead run's.        *)
MarkerIsStaleMutant(pid) == marker # NoRun /\ PidOf[marker] # pid

(* The marker names a run whose process is gone.                           *)
MarkerIsStale(pid) ==
    marker # NoRun /\ PidOf[marker] # pid /\ ~PidAlive(PidOf[marker])

(* Mutant: the new marker is written before the old one is looked at.      *)
StartRunBlind(r) ==
    /\ marker' = r
    /\ UNCHANGED <<totalCrashes, cleanRuns, crashHistory, recovered>>

(* The document a start leaves.  The starter's own pid exists under /proc, *)
(* so a marker that carries it is taken for a live run as well.            *)
StartRun(r) ==
    IF MarkerIsStale(PidOf[r])
    THEN /\ totalCrashes' = totalCrashes + 1
         /\ cleanRuns' = 0
         /\ crashHistory' = Remember([run |-> marker, kind |-> "unknown"])
         /\ recovered' = recovered \cup {marker}
         /\ marker' = r
    ELSE /\ marker' = r
         /\ UNCHANGED <<totalCrashes, cleanRuns, crashHistory, recovered>>

Newest(history) == IF history = <<>> THEN NoCrash ELSE history[Len(history)]

(* Mutant: the newest crash in the history is returned by every start.     *)
RecoveredByStale(r) ==
    Newest(IF MarkerIsStale(PidOf[r])
           THEN Remember([run |-> marker, kind |-> "unknown"]) ELSE crashHistory)

(* The crash a start returns: the history's newest, if it has pushed one.  *)
RecoveredBy(r) ==
    IF MarkerIsStale(PidOf[r])
    THEN Newest(Remember([run |-> marker, kind |-> "unknown"]))
    ELSE NoCrash

(* A store operation returns an error.                                     *)
StoreErrs ==
    /\ faults < MaxFaults
    /\ faults' = faults + 1

(* A finish_* call: nothing without a lifecycle or once finished; when the *)
(* transaction errs `finished` stays FALSE and the error is only logged.   *)
Finish(r, transaction) ==
    \/ /\ ~tracked[r] \/ finished[r]
       /\ UNCHANGED <<health, finished, closed, errored, faults>>
    \/ /\ tracked[r] /\ ~finished[r]
       /\ transaction
       /\ closed' = closed \cup {r}
       /\ \/ finished' = [finished EXCEPT ![r] = TRUE] /\ UNCHANGED faults
          \/ UNCHANGED finished /\ StoreErrs
    \/ /\ tracked[r] /\ ~finished[r]
       /\ StoreErrs
       /\ UNCHANGED <<health, finished, closed, errored>>

FinishClean(r) == Finish(r, MarkCleanExit)
FinishError(r) == Finish(r, RecordCrash(r, "error"))
FinishNothing == UNCHANGED <<health, finished, closed, errored, faults>>

(* The panic hook records the crash whatever `finished` says, best effort. *)
PanicHook(r) ==
    /\ tracked[r]
    /\ \/ /\ RecordCrash(r, "panic")
          /\ closed' = closed \cup {r}
          /\ UNCHANGED faults \/ StoreErrs
       \/ /\ StoreErrs
          /\ UNCHANGED <<health, closed, errored>>

(* recovered_guard_crash_requires_halt returns true.                       *)
Halted(r) == r \in ClosedRuns /\ startupCrash[r] # NoCrash

-----------------------------------------------------------------------------
(* One invocation, in the order of main().                                 *)

NoteOverlap(r) ==
    LET others == {q \in Runs : Live(q) /\ q # r}
    IN  overlapped' = overlapped \cup others \cup
                      (IF others = {} THEN {} ELSE {r})

CanStart(r) == pc[r] = "idle" /\ ~PidAlive(PidOf[r])

(* GuardLifecycle::start                                                   *)
Start(r) ==
    /\ CanStart(r)
    /\ StartRun(r)
    /\ startupCrash' = [startupCrash EXCEPT ![r] = RecoveredBy(r)]
    /\ pc' = [pc EXCEPT ![r] = "started"]
    /\ tracked' = [tracked EXCEPT ![r] = TRUE]
    /\ NoteOverlap(r)
    /\ UNCHANGED <<finished, engineFailed, evidence, faults, closed, errored,
                   execFailed>>

(* A start that errs is logged; the run goes on without a lifecycle, and   *)
(* without the crash its document may have recovered.                      *)
StartFails(r) ==
    /\ CanStart(r)
    /\ StoreErrs
    /\ StartRun(r) \/ UNCHANGED <<health, recovered>>
    /\ pc' = [pc EXCEPT ![r] = "started"]
    /\ NoteOverlap(r)
    /\ UNCHANGED <<tracked, finished, startupCrash, engineFailed, evidence,
                   closed, errored, execFailed>>

(* What the steps between the start and the end of a run leave alone.      *)
StartOnly == <<tracked, startupCrash, recovered, overlapped>>

(* A hook whose adapter or override is refused returns Err before the      *)
(* recovered crash is looked at: main() finishes with the error.           *)
SetupFails(r) ==
    /\ pc[r] = "started"
    /\ r \notin Wrappers
    /\ FinishError(r)
    /\ pc' = [pc EXCEPT ![r] = "done"]
    /\ UNCHANGED <<StartOnly, engineFailed, evidence, execFailed>>

(* Loading a pack fails inside catch_unwind: the engine keeps a flag.  If  *)
(* the failure was a panic, the panic hook has run by then and recorded a  *)
(* crash, although the process goes on.                                    *)
LoadFails(r) ==
    /\ pc[r] = "started"
    /\ r \notin engineFailed
    /\ engineFailed' = engineFailed \cup {r}
    /\ PanicHook(r) \/ UNCHANGED <<health, closed, errored, faults>>
    /\ UNCHANGED <<StartOnly, pc, finished, evidence, execFailed>>

(* StateStore::record_guard_crash.                                         *)
RecordGuardCrash(id) ==
    /\ crashCount' = crashCount + 1
    /\ lastCrashId' = id

(* Mutant: a run that is about to halt does not record why.                *)
ReportRecoveredMutant(r) ==
    /\ pc[r] = "started"
    /\ pc' = [pc EXCEPT ![r] = "judged"]
    /\ UNCHANGED <<evidence, faults>>
    /\ UNCHANGED <<StartOnly, finished, engineFailed, health, closed, errored,
                   execFailed>>

(* recovered_guard_crash_requires_halt: best effort into the state store.  *)
ReportRecovered(r) ==
    /\ pc[r] = "started"
    /\ pc' = [pc EXCEPT ![r] = "judged"]
    /\ \/ /\ startupCrash[r] = NoCrash
          /\ UNCHANGED <<crashCount, lastCrashId, reported, faults>>
       \/ /\ startupCrash[r] # NoCrash
          /\ RecordGuardCrash(startupCrash[r])
          /\ reported' = reported \cup {startupCrash[r]}
          /\ UNCHANGED faults \/ StoreErrs
       \/ /\ startupCrash[r] # NoCrash
          /\ StoreErrs
          /\ UNCHANGED <<crashCount, lastCrashId, reported>>
    /\ UNCHANGED <<StartOnly, finished, engineFailed, health, checked, noted,
                   closed, errored, execFailed>>

(* record_artifact_dir_violations, which check_and_rollback calls once a   *)
(* verdict is there: each violation that stands is recorded, best effort.  *)
RecordViolation(r, v) ==
    /\ pc[r] \in {"answered", "failedOver"}
    /\ v \in Standing[r]
    /\ <<r, v>> \notin checked
    /\ checked' = checked \cup {<<r, v>>}
    /\ \/ /\ RecordGuardCrash(v)
          /\ noted' = noted \cup {<<r, v>>}
          /\ UNCHANGED faults \/ StoreErrs
       \/ /\ StoreErrs
          /\ UNCHANGED <<crashCount, lastCrashId, noted>>
    /\ UNCHANGED <<StartOnly, pc, finished, engineFailed, health, reported,
                   closed, errored, execFailed>>

(* The verdict is computed; record_engine_guard_failure closes a run whose *)
(* engine failed.                                                          *)
Evaluate(r) ==
    /\ pc[r] = "judged"
    /\ pc' = [pc EXCEPT ![r] = "answered"]
    /\ IF r \in engineFailed THEN FinishError(r) ELSE FinishNothing
    /\ UNCHANGED <<StartOnly, engineFailed, evidence, execFailed>>

(* A panic inside evaluation is caught and becomes a guard-failure verdict,*)
(* but the panic hook has recorded it, and the engine's flag stays unset.  *)
EvaluationPanics(r) ==
    /\ pc[r] = "judged"
    /\ ~Halted(r)
    /\ r \notin engineFailed
    /\ pc' = [pc EXCEPT ![r] = "failedOver"]
    /\ IF tracked[r] THEN PanicHook(r)
                     ELSE UNCHANGED <<health, closed, errored, faults>>
    /\ UNCHANGED <<StartOnly, finished, engineFailed, evidence, execFailed>>

(* A tool the hook does not know is answered without evaluation, and       *)
(* without the check of the directory.                                     *)
AnswerUnknownTool(r) ==
    /\ pc[r] = "judged"
    /\ r \notin Wrappers
    /\ pc' = [pc EXCEPT ![r] = "unmatched"]
    /\ FinishNothing
    /\ UNCHANGED <<StartOnly, engineFailed, evidence, execFailed>>

(* A hook that printed its answer, allow or deny, returns Ok.              *)
HookReturns(r) ==
    /\ pc[r] \in {"answered", "failedOver", "unmatched"}
    /\ r \notin Wrappers
    /\ pc' = [pc EXCEPT ![r] = "done"]
    /\ FinishClean(r)
    /\ UNCHANGED <<StartOnly, engineFailed, evidence, execFailed>>

(* Any Err main() sees: an unreadable payload, no real binary in PATH, or  *)
(* the bail! of a wrapper that denied.                                     *)
ReturnsErr(r) ==
    /\ \/ pc[r] = "judged" /\ r \notin Wrappers
       \/ pc[r] \in {"answered", "failedOver", "denied", "released"}
    /\ pc' = [pc EXCEPT ![r] = "done"]
    /\ FinishError(r)
    /\ UNCHANGED <<StartOnly, engineFailed, evidence, execFailed>>

(* The guard's own failure is the verdict: a denial under Fail-Closed.     *)
DeniesForFailure(r) ==
    r \in ClosedRuns /\ (pc[r] = "failedOver" \/ r \in engineFailed)

(* A wrapper that denies closes its run before it bails: cleanly, unless   *)
(* the denial comes from the halt or from a failed pack load.              *)
WrapperDenies(r) ==
    /\ \/ pc[r] = "answered"
       \/ pc[r] = "failedOver" /\ r \in ClosedRuns
    /\ r \in Wrappers \ PracticeRuns
    /\ pc' = [pc EXCEPT ![r] = "denied"]
    /\ IF Halted(r) \/ r \in engineFailed THEN FinishError(r) ELSE FinishClean(r)
    /\ UNCHANGED <<StartOnly, engineFailed, evidence, execFailed>>

(* Only practice mode turns the halt's denial into a run of the tool; the  *)
(* run is closed with an error first.                                      *)
ReleaseHalted(r) ==
    /\ pc[r] = "answered"
    /\ r \in Wrappers \cap PracticeRuns
    /\ Halted(r)
    /\ pc' = [pc EXCEPT ![r] = "released"]
    /\ FinishError(r)
    /\ UNCHANGED <<StartOnly, engineFailed, evidence, execFailed>>

(* Mutant: the wrapper forgets the halt when the engine itself allowed.    *)
PrepareExecMutant(r) ==
    /\ \/ pc[r] = "released"
       \/ /\ pc[r] \in {"answered", "failedOver"}
          /\ r \in Wrappers
          /\ DeniesForFailure(r) => r \in PracticeRuns
    /\ pc' = [pc EXCEPT ![r] = "exec"]
    /\ FinishClean(r)
    /\ UNCHANGED <<StartOnly, engineFailed, evidence, execFailed>>

(* exec replaces the process, so a wrapper closes its run first.           *)
PrepareExec(r) ==
    /\ \/ pc[r] = "released"
       \/ /\ pc[r] \in {"answered", "failedOver"}
          /\ r \in Wrappers
          /\ ~Halted(r)
          /\ DeniesForFailure(r) => r \in PracticeRuns
    /\ pc' = [pc EXCEPT ![r] = "exec"]
    /\ FinishClean(r)
    /\ UNCHANGED <<StartOnly, engineFailed, evidence, execFailed>>

ExecSucceeds(r) ==
    /\ pc[r] = "exec"
    /\ pc' = [pc EXCEPT ![r] = "tool"]
    /\ FinishNothing
    /\ UNCHANGED <<StartOnly, engineFailed, evidence, execFailed>>

(* exec() returned: run_shadowed_tool bails and main() calls finish_error. *)
ExecFails(r) ==
    /\ pc[r] = "exec"
    /\ pc' = [pc EXCEPT ![r] = "done"]
    /\ execFailed' = execFailed \cup {r}
    /\ FinishError(r)
    /\ UNCHANGED <<StartOnly, engineFailed, evidence>>

ToolExits(r) ==
    /\ pc[r] = "tool"
    /\ pc' = [pc EXCEPT ![r] = "done"]
    /\ FinishNothing
    /\ UNCHANGED <<StartOnly, engineFailed, evidence, execFailed>>

(* SIGKILL, the OOM killer, a segfault or a harness timeout.               *)
Kill(r) ==
    /\ pc[r] \in GuardStates
    /\ pc' = [pc EXCEPT ![r] = "killed"]
    /\ FinishNothing
    /\ UNCHANGED <<StartOnly, engineFailed, evidence, execFailed>>

(* A panic nobody catches; without a lifecycle no hook is installed.       *)
Panic(r) ==
    /\ pc[r] \in GuardStates
    /\ pc' = [pc EXCEPT ![r] = "panicked"]
    /\ IF tracked[r] THEN PanicHook(r)
                     ELSE UNCHANGED <<health, closed, errored, faults>>
    /\ UNCHANGED <<StartOnly, finished, engineFailed, evidence, execFailed>>

RunStep(r) ==
    \/ Start(r) \/ StartFails(r) \/ SetupFails(r) \/ ReportRecovered(r)
    \/ LoadFails(r) \/ Evaluate(r) \/ EvaluationPanics(r) \/ AnswerUnknownTool(r)
    \/ HookReturns(r) \/ ReturnsErr(r) \/ WrapperDenies(r) \/ ReleaseHalted(r)
    \/ PrepareExec(r) \/ ExecSucceeds(r) \/ ExecFails(r) \/ ToolExits(r)
    \/ Kill(r) \/ Panic(r)
    \/ \E v \in Violations : RecordViolation(r, v)

Next == \E r \in Runs : RunStep(r)

Spec == Init /\ [][Next]_vars

-----------------------------------------------------------------------------
(* A run that still works, or whose own clean exit, error or panic reached *)
(* the health document, is never counted as a crash by a later start: the  *)
(* start documentation's "is not falsely counted as a crash", with any     *)
(* number of concurrent invocations and with failing stores.               *)
NoFalseCrash ==
    \A r \in recovered : pc[r] \in {"done", "killed", "panicked"} /\ r \notin closed

(* A run that vanished without a persisted end is still named by the       *)
(* marker, or was counted, or ran together with another run, or its pid    *)
(* was given out again: nothing else loses the crash.                      *)
PidReused(r) == \E q \in Runs \ {r} : PidOf[q] = PidOf[r] /\ pc[q] # "idle"
LossNeedsOverlap ==
    \A r \in Runs :
        pc[r] = "killed" /\ tracked[r] /\ r \notin closed =>
            marker = r \/ r \in recovered \/ r \in overlapped \/ PidReused(r)

(* A crash that a start recovered is missing from the state store only if  *)
(* the recovering run is on its way there, vanished or failed itself, or a *)
(* store returned an error.                                                *)
RecoveredIsReported ==
    \A r \in Runs :
        startupCrash[r] # NoCrash /\ startupCrash[r] \notin reported =>
            pc[r] \in {"started", "killed"} \/ r \in errored \/ faults > 0

(* What the evidence counter that reconciliation compares stands for: the  *)
(* recovered crashes it was told of, each once however many runs overlap   *)
(* and whichever saves err, and besides them one for each run that noted a *)
(* standing violation of the trust pointer's directory.  So the counter is *)
(* not a number of crashes: a violation adds to it on every guarded call.  *)
(* The id kept beside it is one of those recorded.                         *)
EvidenceIsExact ==
    /\ crashCount = Cardinality(reported) + Cardinality(noted)
    /\ {crash.run : crash \in reported} \subseteq recovered
    /\ lastCrashId \in IF crashCount = 0 THEN {NoCrash}
                       ELSE reported \cup {note[2] : note \in noted}

(* Under a Fail-Closed policy the run that recovered a crash never hands   *)
(* control to the real tool outside practice mode.                         *)
HaltPreventsExec ==
    \A r \in ClosedRuns \ PracticeRuns :
        startupCrash[r] # NoCrash => pc[r] \notin {"exec", "tool"}

-----------------------------------------------------------------------------
(* src/src/main.rs:1353: "A failure to exec is still reported by the       *)
(* caller as an abnormal guard exit."  A wrapper whose exec of the real    *)
(* tool returned has an error on record.                                   *)
FailedExecIsRecorded ==
    faults = 0 => \A r \in execFailed : r \in errored
=============================================================================
