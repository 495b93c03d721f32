-------------------------- MODULE FailClosedPolicy --------------------------
(***************************************************************************)
(* The durable fail-closed policy (src/src/fail_closed.rs): the state      *)
(* machine of PolicyState, the operator commands that change it, and       *)
(* `icg policy reconcile`, which turns release-health evidence into its    *)
(* transitions.                                                            *)
(*                                                                         *)
(* All writers hold the flock of the policy file, so an operator command   *)
(* is one action.  Reconciliation is not: it holds that lock, but reads    *)
(* the state store, the trust pointer and the telemetry one after another, *)
(* while hooks go on recording rollbacks, crashes and evaluations and the  *)
(* operator moves the pointer.  What a read of the telemetry says about a  *)
(* release is an input of the step that reads it.                          *)
(***************************************************************************)
EXTENDS Naturals, Sequences, FiniteSets

CONSTANTS
    Releases,      \* release references
    NoRelease,     \* no trust pointer exists
    CrashIds,      \* identifiers under which guard crashes are recorded
    NoRef,         \* no poison-pill event was consumed yet
    Thresholds,    \* graduation thresholds an operator may configure
    Default,       \* DEFAULT_GRADUATION_THRESHOLD
    MaxCounted,    \* MAX_COUNTED_RELEASES
    MaxEvents,     \* MAX_POLICY_EVENTS
    MaxGeneration, \* bound: policy transitions
    MaxRollbacks,  \* bound: rollbacks recorded by hooks
    MaxCrashes     \* bound: guard crashes recorded by hooks

ASSUME ThresholdAssumption ==
    /\ Thresholds \subseteq Nat \ {0}
    /\ Default \in Nat \ {0}
ASSUME LimitAssumption ==
    /\ MaxCounted \in Nat \ {0}
    /\ MaxEvents \in Nat \ {0}
    /\ MaxGeneration \in Nat
    /\ MaxRollbacks \in Nat
    /\ MaxCrashes \in Nat
ASSUME ReleaseAssumption ==
    /\ NoRelease \notin Releases
    /\ NoRef \notin {"rollback"} \X Nat

VARIABLES
    policy,        \* the PolicyState in the policy file
    rollbackCount, \* RollbackState::rollback_count in the state store
    crashCount,    \* GuardCrashState::crash_count in the state store
    lastCrashId,   \* GuardCrashState::last_crash_id
    trusted,       \* the release the trust pointer names
    detectorOn,    \* PoisonPillConfig::enabled in the telemetry configuration
    stage,         \* where reconciliation is; it holds the lock from "locked" on
    armed,         \* the `enabled` reconciliation read, before it had the lock
    release,       \* the release it read from the trust pointer
    health,        \* what it read about that release
    outcome,       \* the ReconcileOutcome of the last reconciliation
    rollbacksRead, \* history: the rollback count it read
    basis,         \* history: that count, for each release when it was counted
    qualified      \* history: the releases counted into the present streak

evidence == <<rollbackCount, crashCount, lastCrashId, trusted, detectorOn>>
reading == <<stage, armed, release, health, outcome, rollbacksRead>>
history == <<basis, qualified>>
vars == <<policy, evidence, reading, history>>

Modes == {"fail_open", "fail_closed"}
EventTypes == {"clean_release", "graduated", "manual_graduation", "poison_pill",
               "invalidated", "demotion", "threshold_changed"}
PoisonRefs == ({"rollback"} \X Nat) \cup ({"guard-crash"} \X (CrashIds \cup {NoRef}))
              \cup ({"deviation"} \X Releases)
Reasons == Releases \cup {"detector disabled", "operator"}
Events == [type : EventTypes, about : Reasons \cup PoisonRefs, generation : Nat,
           mode : Modes, streak : Nat, threshold : Nat]
PolicyState == [generation : Nat, mode : Modes, threshold : Nat \ {0},
                streak : Nat, counted : Seq(Releases),
                poison : PoisonRefs \cup {NoRef},
                seenRollbacks : Nat, seenCrashes : Nat, events : Seq(Events)]

(* What the telemetry can say of a release, in the order it is examined.   *)
Healths == {"short", "no baseline", "overrun", "concerning", "clean"}
Stages == {"idle", "configured", "locked", "rollbacks", "crashes", "pointer",
           "deviation"}
Outcomes == {"none", "pending", "clean", "poison_pill", "invalidated", "no_change"}

TypeOK ==
    /\ policy \in PolicyState
    /\ rollbackCount \in Nat /\ crashCount \in Nat
    /\ lastCrashId \in CrashIds \cup {NoRef}
    /\ trusted \in Releases \cup {NoRelease}
    /\ detectorOn \in BOOLEAN /\ armed \in BOOLEAN
    /\ stage \in Stages
    /\ release \in Releases \cup {NoRelease}
    /\ stage \in {"pointer", "deviation"} => release \in Releases
    /\ health \in Healths
    /\ outcome \in Outcomes
    /\ rollbacksRead \in Nat
    /\ basis \in [Releases -> Nat]
    /\ qualified \subseteq Releases

Init ==
    /\ policy = [generation |-> 0, mode |-> "fail_open", threshold |-> Default,
                 streak |-> 0, counted |-> <<>>, poison |-> NoRef,
                 seenRollbacks |-> 0, seenCrashes |-> 0, events |-> <<>>]
    /\ rollbackCount = 0 /\ crashCount = 0
    /\ lastCrashId = NoRef
    /\ trusted \in Releases \cup {NoRelease}
    /\ detectorOn \in BOOLEAN
    /\ stage = "idle"
    /\ armed = FALSE
    /\ release = NoRelease
    /\ health = "short"
    /\ outcome = "none"
    /\ rollbacksRead = 0
    /\ basis = [r \in Releases |-> 0]
    /\ qualified = {}

-----------------------------------------------------------------------------
(* The methods of PolicyState, as functions of the state they are called   *)
(* on.  A result equal to the argument is PolicyTransition::NoChange.      *)

Counted(p) == {p.counted[i] : i \in DOMAIN p.counted}
LastEvent(p) == p.events[Len(p.events)]

Newest(s, limit) == IF Len(s) > limit THEN Tail(s) ELSE s

Transition(p, type, about) ==
    LET event == [type |-> type, about |-> about, generation |-> p.generation + 1,
                  mode |-> p.mode, streak |-> p.streak, threshold |-> p.threshold]
    IN  [p EXCEPT !.generation = p.generation + 1,
                  !.events = Newest(Append(p.events, event), MaxEvents)]

(* Mutant: the audit event is written before the state it describes.       *)
RecordCleanReleaseEarlyEvent(p, r) ==
    IF r \in Counted(p) \/ p.mode = "fail_closed" THEN p
    ELSE IF p.streak + 1 >= p.threshold
         THEN [Transition(p, "graduated", r) EXCEPT
                  !.counted = Newest(Append(p.counted, r), MaxCounted),
                  !.streak = p.streak + 1, !.mode = "fail_closed"]
         ELSE [Transition(p, "clean_release", r) EXCEPT
                  !.counted = Newest(Append(p.counted, r), MaxCounted),
                  !.streak = p.streak + 1]

(* Mutant: a release that was counted already is counted again.            *)
RecordCleanReleaseRecount(p, r) ==
    LET q == [p EXCEPT !.counted = Newest(Append(p.counted, r), MaxCounted),
                       !.streak = p.streak + 1]
    IN  IF p.mode = "fail_closed" THEN p
        ELSE IF q.streak >= q.threshold
             THEN Transition([q EXCEPT !.mode = "fail_closed"], "graduated", r)
             ELSE Transition(q, "clean_release", r)

RecordCleanRelease(p, r) ==
    LET q == [p EXCEPT !.counted = Newest(Append(p.counted, r), MaxCounted),
                       !.streak = p.streak + 1]
    IN  IF r \in Counted(p) \/ p.mode = "fail_closed" THEN p
        ELSE IF q.streak >= q.threshold
             THEN Transition([q EXCEPT !.mode = "fail_closed"], "graduated", r)
             ELSE Transition(q, "clean_release", r)

(* Qualification starts again, unless the policy already graduated.        *)
Requalify(p) ==
    IF p.mode = "fail_closed" THEN p
    ELSE [p EXCEPT !.streak = 0, !.counted = <<>>]

(* Mutant: a poison pill reopens a graduated policy.                       *)
RecordPoisonPillReopens(p, ref) ==
    IF p.poison = ref THEN p
    ELSE Transition([p EXCEPT !.poison = ref, !.mode = "fail_open",
                              !.streak = 0, !.counted = <<>>], "poison_pill", ref)

(* Mutant: the streak is reset, the counted releases are not.              *)
RecordPoisonPillKeepsCounted(p, ref) ==
    IF p.poison = ref THEN p
    ELSE Transition([p EXCEPT !.poison = ref,
                              !.streak = IF p.mode = "fail_closed" THEN p.streak
                                         ELSE 0],
                    "poison_pill", ref)

RecordPoisonPill(p, ref) ==
    IF p.poison = ref THEN p
    ELSE Transition(Requalify([p EXCEPT !.poison = ref]), "poison_pill", ref)

(* Repeating the last transition's reason is recognised in either mode.    *)
InvalidateQualification(p, why) ==
    IF /\ p.events # <<>>
       /\ LastEvent(p).type = "invalidated" /\ LastEvent(p).about = why
    THEN p
    ELSE Transition(Requalify(p), "invalidated", why)

Demoted(p) ==
    Transition([p EXCEPT !.mode = "fail_open", !.streak = 0, !.counted = <<>>],
               "demotion", "operator")

ForceGraduated(p) ==
    Transition([p EXCEPT !.mode = "fail_closed"], "manual_graduation", "operator")

WithThreshold(p, n) ==
    Transition([p EXCEPT !.threshold = n, !.streak = 0, !.counted = <<>>],
               "threshold_changed", "operator")

-----------------------------------------------------------------------------
(* What the rest of the system does to the evidence, at any moment.        *)

RecordRollback ==
    /\ rollbackCount < MaxRollbacks
    /\ rollbackCount' = rollbackCount + 1
    /\ UNCHANGED <<policy, crashCount, lastCrashId, trusted, detectorOn, reading,
                   history>>

(* A recovered run has an identifier of its own; a violation of the        *)
(* artifact directory is recorded by every guarded run under the same one. *)
RecordGuardCrash ==
    /\ crashCount < MaxCrashes
    /\ crashCount' = crashCount + 1
    /\ lastCrashId' \in CrashIds
    /\ UNCHANGED <<policy, rollbackCount, trusted, detectorOn, reading, history>>

TrustRelease ==
    /\ trusted' \in Releases
    /\ UNCHANGED <<policy, rollbackCount, crashCount, lastCrashId, detectorOn,
                   reading, history>>

ConfigureTelemetry ==
    /\ detectorOn' = ~detectorOn
    /\ UNCHANGED <<policy, rollbackCount, crashCount, lastCrashId, trusted,
                   reading, history>>

-----------------------------------------------------------------------------
(* `icg policy demote`, `force-revert`, `force-graduate` and `configure`   *)
(* wait for the lock a reconciliation may hold.                            *)

CanCommit == policy.generation < MaxGeneration

(* The policy becomes p, in which a streak of 0 begins a new qualification.*)
Becomes(p) ==
    /\ policy' = p
    /\ qualified' = IF p.streak = 0 THEN {} ELSE qualified

Unlocked == stage \in {"idle", "configured"}

EmergencyDemote ==
    /\ Unlocked /\ CanCommit
    /\ Becomes(Demoted(policy))
    /\ UNCHANGED <<evidence, reading, basis>>

ForceGraduate ==
    /\ Unlocked /\ CanCommit
    /\ policy.mode = "fail_open"
    /\ Becomes(ForceGraduated(policy))
    /\ UNCHANGED <<evidence, reading, basis>>

SetThreshold(n) ==
    /\ Unlocked /\ CanCommit
    /\ n # policy.threshold
    /\ policy.mode = "fail_open"
    /\ Becomes(WithThreshold(policy, n))
    /\ UNCHANGED <<evidence, reading, basis>>

-----------------------------------------------------------------------------
(* PolicyStore::reconcile_release_health                                   *)

(* The configuration is an argument: it is read before the lock is taken.  *)
ReadConfiguration ==
    /\ stage = "idle"
    /\ stage' = "configured"
    /\ armed' = detectorOn
    /\ outcome' = "none"
    /\ UNCHANGED <<policy, evidence, release, health, rollbacksRead, history>>

TakeLock ==
    /\ stage = "configured"
    /\ CanCommit
    /\ stage' = "locked"
    /\ UNCHANGED <<policy, evidence, armed, release, health, outcome,
                   rollbacksRead, history>>

(* The command ends: the lock is released and what it read is forgotten.   *)
Return(result) ==
    /\ stage' = "idle"
    /\ armed' = FALSE
    /\ release' = NoRelease
    /\ health' = "short"
    /\ outcome' = result
    /\ rollbacksRead' = 0

(* The rename has taken place when only the sync of the directory fails:   *)
(* the policy is saved and the command ends with an error all the same.    *)
Commit(p, result) == Becomes(p) /\ (Return(result) \/ Return("none"))

Pending == Return("pending") /\ UNCHANGED <<policy, evidence, history>>

ReadRollbacks ==
    /\ stage = "locked"
    /\ IF rollbackCount > policy.seenRollbacks
       THEN Commit(RecordPoisonPill([policy EXCEPT !.seenRollbacks = rollbackCount],
                                    <<"rollback", rollbackCount>>),
                   "poison_pill")
       ELSE /\ stage' = "rollbacks"
            /\ rollbacksRead' = rollbackCount
            /\ UNCHANGED <<policy, qualified, armed, release, health, outcome>>
    /\ UNCHANGED <<evidence, basis>>

ReadGuardCrashes ==
    /\ stage = "rollbacks"
    /\ IF crashCount > policy.seenCrashes
       THEN Commit(RecordPoisonPill([policy EXCEPT !.seenCrashes = crashCount],
                                    <<"guard-crash", lastCrashId>>),
                   "poison_pill")
       ELSE /\ stage' = "crashes"
            /\ UNCHANGED <<policy, qualified, armed, release, health, outcome,
                           rollbacksRead>>
    /\ UNCHANGED <<evidence, basis>>

(* Mutant: a missing trust pointer is not noticed.                         *)
ReadPointerAlways ==
    /\ stage = "crashes"
    /\ release' = trusted
    /\ stage' = "pointer"
    /\ UNCHANGED <<policy, evidence, armed, health, outcome, rollbacksRead, history>>

ReadPointer ==
    /\ stage = "crashes"
    /\ \/ trusted = NoRelease /\ Pending
       \/ /\ trusted # NoRelease
          /\ release' = trusted
          /\ stage' = "pointer"
          /\ UNCHANGED <<policy, evidence, armed, health, outcome, rollbacksRead,
                         history>>

(* deny_rate_deviation_for: no record of the release, or what it says.     *)
ReadDeviation ==
    /\ stage = "pointer"
    /\ \/ Pending
       \/ /\ health' \in Healths
          /\ stage' = "deviation"
          /\ UNCHANGED <<policy, evidence, armed, release, outcome, rollbacksRead,
                         history>>

(* release_observation_is_fresh: the record began before the release was   *)
(* adopted.                                                                *)
ObservationIsStale ==
    /\ stage = "deviation"
    /\ Pending

ObservationIsIncomplete ==
    /\ stage = "deviation"
    /\ armed
    /\ health \in {"short", "no baseline"}
    /\ Pending

Invalidate ==
    /\ stage = "deviation"
    /\ ~armed \/ health = "overrun"
    /\ LET p == InvalidateQualification(
                    policy, IF armed THEN release ELSE "detector disabled")
       IN  Commit(p, IF p = policy THEN "no_change" ELSE "invalidated")
    /\ UNCHANGED <<evidence, basis>>

RecordDeviation ==
    /\ stage = "deviation"
    /\ armed
    /\ health = "concerning"
    /\ Commit(RecordPoisonPill(policy, <<"deviation", release>>), "poison_pill")
    /\ UNCHANGED <<evidence, basis>>

CountCleanRelease ==
    /\ stage = "deviation"
    /\ armed
    /\ health = "clean"
    /\ LET p == RecordCleanRelease(policy, release)
       IN  \/ /\ p = policy
              /\ Return("no_change") \/ Return("none")
              /\ UNCHANGED <<policy, history>>
           \/ /\ p # policy
              /\ policy' = p
              /\ Return("clean") \/ Return("none")
              /\ basis' = [basis EXCEPT ![release] = rollbacksRead]
              /\ qualified' = qualified \cup {release}
    /\ UNCHANGED evidence

(* An unreadable store, a full disk, a kill, before anything is renamed.   *)
ReconcileFails ==
    /\ stage # "idle"
    /\ Return("none")
    /\ UNCHANGED <<policy, evidence, history>>

Reconcile ==
    \/ ReadConfiguration \/ TakeLock \/ ReadRollbacks \/ ReadGuardCrashes
    \/ ReadPointer \/ ReadDeviation \/ ObservationIsStale
    \/ ObservationIsIncomplete \/ Invalidate \/ RecordDeviation
    \/ CountCleanRelease \/ ReconcileFails

Next ==
    \/ RecordRollback \/ RecordGuardCrash \/ TrustRelease \/ ConfigureTelemetry
    \/ EmergencyDemote \/ ForceGraduate \/ (\E n \in Thresholds : SetThreshold(n))
    \/ Reconcile

Spec == Init /\ [][Next]_vars

-----------------------------------------------------------------------------
(* The releases retained as counted are distinct and are the newest        *)
(* MaxCounted of the streak, and a streak below the threshold never closes *)
(* the policy by itself.  The streak is the number of different releases   *)
(* counted into it, and so a graduation rests on as many as the threshold, *)
(* only up to MaxCounted + 1: a longer streak may count a release again    *)
(* that the list no longer holds, and is only sure to rest on              *)
(* MaxCounted + 1 different ones.  This is so however reconciliations,     *)
(* resets, repeats and operator commands alternate.                        *)
QualificationIsExact ==
    /\ \A i, j \in DOMAIN policy.counted :
          policy.counted[i] = policy.counted[j] => i = j
    /\ Len(policy.counted) =
          IF policy.streak <= MaxCounted THEN policy.streak ELSE MaxCounted
    /\ Counted(policy) \subseteq qualified
    /\ Cardinality(qualified) \in
          (IF policy.streak <= MaxCounted THEN policy.streak ELSE MaxCounted + 1)
              .. policy.streak
    /\ policy.mode = "fail_open" => policy.streak < policy.threshold
    /\ policy.events # <<>> /\ LastEvent(policy).type = "graduated" =>
          policy.streak = policy.threshold

(* No release counted before a rollback survives the consumption of that   *)
(* rollback in an open policy: every counted release was judged by a       *)
(* reconciliation that had already read as many rollbacks as are consumed. *)
CountedAfterRollbacks ==
    policy.mode = "fail_open" =>
        \A r \in Counted(policy) : basis[r] = policy.seenRollbacks

(* The event tail alone tells an auditor the state: its last event carries *)
(* the current mode, streak and threshold, and generations have no gap.    *)
(* After an invalidation it tells of an empty qualification, so that       *)
(* recognising a repeated reason never keeps a streak alive.               *)
AuditMatchesState ==
    /\ Len(policy.events) <= MaxEvents
    /\ policy.events = <<>> => policy.generation = 0
    /\ policy.events # <<>> =>
          /\ LastEvent(policy).mode = policy.mode
          /\ LastEvent(policy).streak = policy.streak
          /\ LastEvent(policy).threshold = policy.threshold
    /\ \A i \in DOMAIN policy.events :
          policy.events[i].generation + Len(policy.events) = policy.generation + i
    /\ (policy.mode = "fail_open" /\ policy.events # <<>>
          /\ LastEvent(policy).type = "invalidated") => policy.streak = 0

(* No evidence, and no command but a demotion, weakens a policy that is    *)
(* Fail-Closed or touches the qualification it graduated on.               *)
StaysClosed ==
    \/ policy'.mode = "fail_closed"
       /\ policy'.streak = policy.streak
       /\ policy'.counted = policy.counted
       /\ policy'.threshold = policy.threshold
    \/ policy' = Demoted(policy)
FailClosedIsSticky == [][policy.mode = "fail_closed" => StaysClosed]_vars

-----------------------------------------------------------------------------
(* src/src/fail_closed.rs:500, of ReconcileOutcome::PoisonPill: "A         *)
(* poison-pill signal reset qualification or was consumed while already    *)
(* Fail-Closed."  So nothing is counted when a reconciliation has just     *)
(* answered PoisonPill under an open policy.                               *)
PoisonPillResets ==
    [][stage # "idle" /\ outcome' = "poison_pill" /\ policy'.mode = "fail_open" =>
           policy'.streak = 0]_vars
=============================================================================
