------------------------ MODULE GuardLifecycleProofs ------------------------
(***************************************************************************)
(* The safety properties of GuardLifecycle for every set of runs, every    *)
(* assignment of pids, every history limit and every number of failing     *)
(* store operations: no run is counted as a crash falsely, a crash is lost *)
(* only to an overlap, and what a start recovered halts the run, is        *)
(* reported, and is reported once.                                         *)
(***************************************************************************)
EXTENDS GuardLifecycle, SequenceTheorems, FiniteSetTheorems, TLAPS

(* Pushing on a bounded history leaves a history of the same elements.     *)
LEMMA PushType ==
    ASSUME NEW S, NEW history \in Seq(S), NEW e \in S
    PROVE  /\ Append(history, e) \in Seq(S)
           /\ Tail(Append(history, e)) \in Seq(S)
<1>1. Append(history, e) \in Seq(S) /\ Append(history, e) # <<>>
  BY AppendProperties
<1> QED
  BY <1>1, HeadTailProperties

LEMMA RememberType ==
    ASSUME crashHistory \in Seq(CrashRecord), NEW crash \in CrashRecord
    PROVE  Remember(crash) \in Seq(CrashRecord)
BY PushType DEF Remember

(* The newest entry of a non-empty history is a record.                    *)
LEMMA NewestType ==
    ASSUME NEW S, NEW history \in Seq(S), history # <<>>
    PROVE  history[Len(history)] \in S
OBVIOUS

(* The transactions on the health document, and with them every call that  *)
(* closes a run, keep the variables they write well-typed.                 *)
LEMMA RecordCrashType ==
    ASSUME TypeOK, NEW r \in Runs, NEW kind \in CrashKinds, RecordCrash(r, kind)
    PROVE  /\ marker' \in Runs \cup {NoRun}
           /\ totalCrashes' \in Nat
           /\ cleanRuns' \in Nat
           /\ crashHistory' \in Seq(CrashRecord)
           /\ errored' \subseteq Runs
<1>1. [run |-> r, kind |-> kind] \in CrashRecord
  BY DEF CrashRecord
<1> QED
  BY <1>1, RememberType DEF RecordCrash, TypeOK

(* What a call that may close run r leaves well-typed.                     *)
ClosingTypeOK ==
    /\ finished' \in [Runs -> BOOLEAN]
    /\ marker' \in Runs \cup {NoRun}
    /\ totalCrashes' \in Nat
    /\ cleanRuns' \in Nat
    /\ crashHistory' \in Seq(CrashRecord)
    /\ faults' \in Nat
    /\ closed' \subseteq Runs
    /\ errored' \subseteq Runs

LEMMA ClosingType ==
    ASSUME TypeOK, NEW r \in Runs,
           \/ FinishClean(r) \/ FinishError(r) \/ FinishNothing
           \/ PanicHook(r) /\ UNCHANGED finished
    PROVE  ClosingTypeOK
<1>1. CASE FinishClean(r)
  <2>1. CASE /\ MarkCleanExit /\ closed' = closed \cup {r}
             /\ finished' \in {finished, [finished EXCEPT ![r] = TRUE]}
             /\ faults' \in Nat
    <3>1. finished' \in [Runs -> BOOLEAN]
      BY <2>1 DEF TypeOK
    <3> QED
      BY <2>1, <3>1 DEF MarkCleanExit, TypeOK, ClosingTypeOK
  <2>2. CASE UNCHANGED <<health, finished, closed, errored>> /\ faults' \in Nat
    BY <2>2 DEF TypeOK, ClosingTypeOK, health
  <2> QED
    BY <1>1, <2>1, <2>2 DEF FinishClean, Finish, StoreErrs, TypeOK
<1>2. CASE FinishError(r)
  <2>1. CASE /\ RecordCrash(r, "error") /\ closed' = closed \cup {r}
             /\ finished' \in {finished, [finished EXCEPT ![r] = TRUE]}
             /\ faults' \in Nat
    BY <2>1, RecordCrashType DEF TypeOK, ClosingTypeOK, CrashKinds
  <2>2. CASE UNCHANGED <<health, finished, closed, errored>> /\ faults' \in Nat
    BY <2>2 DEF TypeOK, ClosingTypeOK, health
  <2> QED
    BY <1>2, <2>1, <2>2 DEF FinishError, Finish, StoreErrs, TypeOK
<1>3. CASE FinishNothing
  BY <1>3 DEF FinishNothing, TypeOK, ClosingTypeOK, health
<1>4. CASE PanicHook(r) /\ UNCHANGED finished
  <2>1. CASE RecordCrash(r, "panic") /\ closed' = closed \cup {r} /\ faults' \in Nat
    BY <1>4, <2>1, RecordCrashType DEF TypeOK, ClosingTypeOK, CrashKinds
  <2>2. CASE UNCHANGED <<health, closed, errored>> /\ faults' \in Nat
    BY <1>4, <2>2 DEF TypeOK, ClosingTypeOK, health
  <2> QED
    BY <1>4, <2>1, <2>2 DEF PanicHook, StoreErrs, TypeOK
<1> QED
  BY <1>1, <1>2, <1>3, <1>4

(* What a start finds stale is a run's marker, and the record it pushes is *)
(* a crash record.                                                         *)
LEMMA StaleIsRun ==
    ASSUME TypeOK, NEW r \in Runs, MarkerIsStale(PidOf[r])
    PROVE  /\ marker \in Runs
           /\ [run |-> marker, kind |-> "unknown"] \in CrashRecord
BY DEF MarkerIsStale, TypeOK, CrashRecord, CrashKinds

(* The document of a start, whether or not its caller is told, and what it *)
(* returns are well-typed.                                                 *)
LEMMA StartRunType ==
    ASSUME TypeOK, NEW r \in Runs, StartRun(r)
    PROVE  /\ marker' \in Runs \cup {NoRun}
           /\ totalCrashes' \in Nat
           /\ cleanRuns' \in Nat
           /\ crashHistory' \in Seq(CrashRecord)
           /\ recovered' \subseteq Runs
<1>1. CASE MarkerIsStale(PidOf[r])
  <2>1. Remember([run |-> marker, kind |-> "unknown"]) \in Seq(CrashRecord)
    BY <1>1, StaleIsRun, RememberType DEF TypeOK
  <2> QED
    BY <1>1, <2>1, StaleIsRun DEF StartRun, TypeOK
<1>2. CASE ~MarkerIsStale(PidOf[r])
  BY <1>2 DEF StartRun, TypeOK
<1> QED
  BY <1>1, <1>2

(* So is the crash a start returns.                                        *)
LEMMA RecoveredByType ==
    ASSUME TypeOK, NEW r \in Runs
    PROVE  RecoveredBy(r) \in CrashRecord \cup {NoCrash}
<1>1. CASE MarkerIsStale(PidOf[r])
  <2> DEFINE history == Remember([run |-> marker, kind |-> "unknown"])
  <2>1. history \in Seq(CrashRecord)
    BY <1>1, StaleIsRun, RememberType DEF TypeOK
  <2>2. RecoveredBy(r) = Newest(history)
    BY <1>1 DEF RecoveredBy
  <2> HIDE DEF history
  <2> QED
    BY <2>1, <2>2, NewestType DEF Newest
<1>2. CASE ~MarkerIsStale(PidOf[r])
  BY <1>2 DEF RecoveredBy
<1> QED
  BY <1>1, <1>2

-----------------------------------------------------------------------------
(* Every variable of GuardLifecycle keeps its type, whatever the constants *)
(* (all actions of main() and of the stores behind it).                    *)
THEOREM TypeCorrect == Spec => []TypeOK
<1>1. Init => TypeOK
  BY DEF Init, TypeOK
<1>2. TypeOK /\ [Next]_vars => TypeOK'
  <2> SUFFICES ASSUME TypeOK, [Next]_vars PROVE TypeOK'
    OBVIOUS
  <2>1. CASE UNCHANGED vars
    BY <2>1 DEF vars, health, evidence, TypeOK
  <2> SUFFICES ASSUME NEW r \in Runs, RunStep(r) PROVE TypeOK'
    BY <2>1 DEF Next
  <2> USE DEF StartOnly, evidence, GuardStates, LiveStates
  <2>2. CASE Start(r)
    BY <2>2, StartRunType, RecoveredByType DEF Start, NoteOverlap, TypeOK
  <2>3. CASE StartFails(r)
    <3>1. /\ marker' \in Runs \cup {NoRun}
          /\ totalCrashes' \in Nat
          /\ cleanRuns' \in Nat
          /\ crashHistory' \in Seq(CrashRecord)
          /\ recovered' \subseteq Runs
      BY <2>3, StartRunType DEF StartFails, health, TypeOK
    <3> QED
      BY <2>3, <3>1 DEF StartFails, StoreErrs, NoteOverlap, TypeOK
  <2>4. CASE SetupFails(r)
    BY <2>4, ClosingType DEF SetupFails, TypeOK, ClosingTypeOK
  <2>5. CASE LoadFails(r)
    <3>1. ClosingTypeOK
      BY <2>5, ClosingType DEF LoadFails, FinishNothing
    <3> QED
      BY <2>5, <3>1 DEF LoadFails, TypeOK, ClosingTypeOK
  <2>6. CASE ReportRecovered(r)
    BY <2>6 DEF ReportRecovered, RecordGuardCrash, StoreErrs, TypeOK, health
  <2>7. CASE Evaluate(r)
    BY <2>7, ClosingType DEF Evaluate, TypeOK, ClosingTypeOK
  <2>8. CASE AnswerUnknownTool(r)
    BY <2>8, ClosingType DEF AnswerUnknownTool, TypeOK, ClosingTypeOK
  <2>9. CASE HookReturns(r)
    BY <2>9, ClosingType DEF HookReturns, TypeOK, ClosingTypeOK
  <2>10. CASE ReturnsErr(r)
    BY <2>10, ClosingType DEF ReturnsErr, TypeOK, ClosingTypeOK
  <2>11. CASE WrapperDenies(r)
    BY <2>11, ClosingType DEF WrapperDenies, TypeOK, ClosingTypeOK
  <2>12. CASE ReleaseHalted(r)
    BY <2>12, ClosingType DEF ReleaseHalted, TypeOK, ClosingTypeOK
  <2>13. CASE PrepareExec(r)
    BY <2>13, ClosingType DEF PrepareExec, TypeOK, ClosingTypeOK
  <2>14. CASE ExecSucceeds(r)
    BY <2>14, ClosingType DEF ExecSucceeds, TypeOK, ClosingTypeOK
  <2>15. CASE ExecFails(r)
    BY <2>15, ClosingType DEF ExecFails, TypeOK, ClosingTypeOK
  <2>16. CASE ToolExits(r)
    BY <2>16, ClosingType DEF ToolExits, TypeOK, ClosingTypeOK
  <2>17. CASE Kill(r)
    BY <2>17, ClosingType DEF Kill, TypeOK, ClosingTypeOK
  <2>18. CASE Panic(r)
    <3>1. ClosingTypeOK
      BY <2>18, ClosingType DEF Panic, FinishNothing
    <3> QED
      BY <2>18, <3>1 DEF Panic, TypeOK, ClosingTypeOK
  <2>19. CASE EvaluationPanics(r)
    <3>1. ClosingTypeOK
      BY <2>19, ClosingType DEF EvaluationPanics, FinishNothing
    <3> QED
      BY <2>19, <3>1 DEF EvaluationPanics, TypeOK, ClosingTypeOK
  <2>20. ASSUME NEW v \in Violations, RecordViolation(r, v) PROVE TypeOK'
    BY <2>20 DEF RecordViolation, RecordGuardCrash, StoreErrs, TypeOK, health
  <2> QED
    BY <2>2, <2>3, <2>4, <2>5, <2>6, <2>7, <2>8, <2>9, <2>10, <2>11, <2>12,
       <2>13, <2>14, <2>15, <2>16, <2>17, <2>18, <2>19, <2>20 DEF RunStep
<1> QED
  BY <1>1, <1>2, PTL DEF Spec

-----------------------------------------------------------------------------
(* A start leaves its document, whether or not the caller learns of it, or *)
(* nothing.                                                                *)
OpensRun(r) ==
    /\ pc[r] = "idle" /\ pc' = [pc EXCEPT ![r] = "started"]
    /\ StartRun(r) /\ NoteOverlap(r)
    /\ tracked' \in {tracked, [tracked EXCEPT ![r] = TRUE]}
    /\ UNCHANGED <<closed, finished, evidence, errored>>
    /\ faults' \in Nat /\ faults' >= faults
SkipsStart(r) ==
    /\ pc[r] = "idle" /\ pc' = [pc EXCEPT ![r] = "started"]
    /\ NoteOverlap(r)
    /\ UNCHANGED <<health, recovered, startupCrash, tracked, closed, finished,
                   evidence, errored>>
    /\ faults' \in Nat /\ faults' >= faults

(* Both ways a start can end are one of the two.                           *)
LEMMA StartShape ==
    ASSUME TypeOK, NEW r \in Runs
    PROVE  /\ Start(r) => OpensRun(r)
           /\ StartFails(r) => \/ OpensRun(r) /\ UNCHANGED <<tracked, startupCrash>>
                              \/ SkipsStart(r)
BY DEF Start, StartFails, CanStart, StoreErrs, OpensRun, SkipsStart, TypeOK

(* A step of run r other than a start either leaves the marker and the set *)
(* of closed runs alone, or clears the marker and closes r.                *)
ClosesOrKeeps(r) ==
    \/ UNCHANGED <<marker, closed>>
    \/ tracked[r] /\ marker' = NoRun /\ closed' = closed \cup {r}

LEMMA ClosingEffect ==
    ASSUME NEW r \in Runs,
           \/ FinishClean(r) \/ FinishError(r) \/ FinishNothing \/ PanicHook(r)
    PROVE  ClosesOrKeeps(r)
BY DEF FinishClean, FinishError, Finish, FinishNothing, PanicHook,
       MarkCleanExit, RecordCrash, health, ClosesOrKeeps

(* What a step of a started run does to the state the two safety theorems  *)
(* are about: it moves r between two states of a started process.          *)
RunsOn(r) ==
    /\ pc[r] \in LiveStates
    /\ pc' = [pc EXCEPT ![r] = pc'[r]]
    /\ pc'[r] \in LiveStates \cup {"done", "killed", "panicked"}
    /\ pc'[r] \in GuardStates \cup {"killed"} => pc[r] \in GuardStates
    /\ ClosesOrKeeps(r)
    /\ UNCHANGED <<tracked, recovered, overlapped>>

LEMMA StepShape ==
    ASSUME TypeOK, NEW r \in Runs, RunStep(r)
    PROVE  Start(r) \/ StartFails(r) \/ RunsOn(r)
<1> USE DEF RunsOn, StartOnly, GuardStates, LiveStates
<1>1. CASE SetupFails(r)
  BY <1>1, ClosingEffect DEF SetupFails, TypeOK
<1>2. CASE LoadFails(r)
  <2>1. ClosesOrKeeps(r)
    BY <1>2, ClosingEffect DEF LoadFails, ClosesOrKeeps, health
  <2> QED
    BY <1>2, <2>1 DEF LoadFails, TypeOK
<1>3. CASE ReportRecovered(r)
  BY <1>3 DEF ReportRecovered, TypeOK, ClosesOrKeeps, health
<1>4. CASE Evaluate(r) \/ AnswerUnknownTool(r)
  BY <1>4, ClosingEffect DEF Evaluate, AnswerUnknownTool, TypeOK
<1>5. CASE HookReturns(r) \/ ReturnsErr(r)
  BY <1>5, ClosingEffect DEF HookReturns, ReturnsErr, TypeOK
<1>6. CASE WrapperDenies(r) \/ ReleaseHalted(r) \/ PrepareExec(r)
  BY <1>6, ClosingEffect DEF WrapperDenies, ReleaseHalted, PrepareExec, TypeOK
<1>7. CASE ExecSucceeds(r) \/ ExecFails(r) \/ ToolExits(r)
  BY <1>7, ClosingEffect DEF ExecSucceeds, ExecFails, ToolExits, TypeOK
<1>8. CASE Kill(r)
  BY <1>8, ClosingEffect DEF Kill, TypeOK
<1>9. CASE Panic(r)
  <2>1. ClosesOrKeeps(r)
    BY <1>9, ClosingEffect DEF Panic, ClosesOrKeeps, health
  <2> QED
    BY <1>9, <2>1 DEF Panic, TypeOK
<1>10. CASE EvaluationPanics(r)
  <2>1. ClosesOrKeeps(r)
    BY <1>10, ClosingEffect DEF EvaluationPanics, ClosesOrKeeps, health
  <2> QED
    BY <1>10, <2>1 DEF EvaluationPanics, TypeOK
<1>11. ASSUME NEW v \in Violations, RecordViolation(r, v) PROVE RunsOn(r)
  BY <1>11 DEF RecordViolation, TypeOK, ClosesOrKeeps, health
<1> QED
  BY <1>1, <1>2, <1>3, <1>4, <1>5, <1>6, <1>7, <1>8, <1>9, <1>10, <1>11 DEF RunStep

(* The inductive invariant behind NoFalseCrash: the marker names a run     *)
(* that did start and whose own end is not on record.                      *)
MarkerInv ==
    /\ \A r \in closed : pc[r] # "idle"
    /\ marker # NoRun => pc[marker] # "idle" /\ marker \notin closed
    /\ NoFalseCrash

(* The marker never names a run that has not started or is closed.         *)
LEMMA MarkerCorrect == Spec => []MarkerInv
<1>1. Init => MarkerInv
  BY DEF Init, MarkerInv, NoFalseCrash
<1>2. TypeOK /\ MarkerInv /\ [Next]_vars => MarkerInv'
  <2> SUFFICES ASSUME TypeOK, MarkerInv, [Next]_vars PROVE MarkerInv'
    OBVIOUS
  <2>1. CASE UNCHANGED vars
    BY <2>1 DEF vars, health, MarkerInv, NoFalseCrash
  <2> SUFFICES ASSUME NEW r \in Runs, RunStep(r) PROVE MarkerInv'
    BY <2>1 DEF Next
  <2>2. CASE OpensRun(r)
    <3>1. /\ pc[r] = "idle" /\ pc' = [pc EXCEPT ![r] = "started"]
          /\ marker' = r /\ closed' = closed
      BY <2>2 DEF OpensRun, StartRun
    <3>2. \/ recovered' = recovered
          \/ /\ recovered' = recovered \cup {marker}
             /\ marker \in Runs /\ ~PidAlive(PidOf[marker])
      BY <2>2 DEF OpensRun, StartRun, MarkerIsStale, TypeOK
    <3>3. ASSUME marker \in Runs, ~PidAlive(PidOf[marker])
          PROVE  pc[marker] \in {"done", "killed", "panicked"} /\ marker \notin closed
      BY <3>3, RunsAssumption DEF MarkerInv, PidAlive, Live, LiveStates, TypeOK
    <3> QED
      BY <3>1, <3>2, <3>3 DEF MarkerInv, NoFalseCrash, TypeOK
  <2>3. CASE SkipsStart(r)
    BY <2>3 DEF SkipsStart, MarkerInv, NoFalseCrash, TypeOK, health
  <2>4. CASE RunsOn(r)
    BY <2>4, RunsAssumption
    DEF RunsOn, ClosesOrKeeps, MarkerInv, NoFalseCrash, TypeOK, GuardStates,
        LiveStates
  <2> QED
    BY <2>2, <2>3, <2>4, StepShape, StartShape
<1> QED
  BY <1>1, <1>2, TypeCorrect, PTL DEF Spec

(* No live run, and no run whose end was recorded, is ever counted as a    *)
(* crash by another run's start (start_run_with_detection).                *)
THEOREM NeverFalseCrash == Spec => []NoFalseCrash
<1>1. MarkerInv => NoFalseCrash
  BY DEF MarkerInv
<1> QED
  BY <1>1, MarkerCorrect, PTL

-----------------------------------------------------------------------------
(* The inductive invariant behind LossNeedsOverlap.  A run that is alive   *)
(* with another has overlapped; a run still to be closed owns the marker   *)
(* unless one of the excuses holds; and while the marker names a vanished  *)
(* run that never overlapped, no live run holds a lifecycle, so none can   *)
(* clear it.                                                               *)
Excused(r) == r \in overlapped \/ PidReused(r)
LossInv ==
    /\ \A r \in Runs : pc[r] = "idle" => ~tracked[r]
    /\ \A r \in Runs : \A q \in Runs :
           Live(r) /\ Live(q) /\ r # q => r \in overlapped
    /\ \A r \in Runs :
           pc[r] \in GuardStates \cup {"killed"} /\ tracked[r] /\ r \notin closed =>
               marker = r \/ (pc[r] = "killed" /\ r \in recovered) \/ Excused(r)
    /\ \A r \in Runs : \A q \in Runs :
           pc[r] = "killed" /\ marker = r /\ ~Excused(r) /\ Live(q) => ~tracked[q]

(* A crash is lost only to a run that was alive at the same time or got    *)
(* the same pid: the exact reach of the detection by a single marker.      *)
THEOREM LossOnlyByOverlap == Spec => []LossNeedsOverlap
<1>1. Init => LossInv
  BY DEF Init, LossInv, Live, LiveStates, GuardStates
<1>2. TypeOK /\ LossInv /\ [Next]_vars => LossInv'
  <2> SUFFICES ASSUME TypeOK, LossInv, [Next]_vars PROVE LossInv'
    OBVIOUS
  <2>1. CASE UNCHANGED vars
    BY <2>1 DEF vars, health, LossInv, Excused, PidReused, Live
  <2> SUFFICES ASSUME NEW r \in Runs, RunStep(r) PROVE LossInv'
    BY <2>1 DEF Next
  <2>2. CASE OpensRun(r)
    <3>1. /\ pc[r] = "idle" /\ pc' = [pc EXCEPT ![r] = "started"]
          /\ marker' = r /\ closed' = closed
          /\ \A q \in Runs : q # r => tracked'[q] = tracked[q]
          /\ recovered \subseteq recovered'
          /\ \A q \in Runs : Live(q) /\ q # r => {q, r} \subseteq overlapped'
          /\ overlapped \subseteq overlapped'
      BY <2>2 DEF OpensRun, StartRun, NoteOverlap, TypeOK
    <3>2. ASSUME NEW k \in Runs, pc[k] = "killed", marker = k
          PROVE  k \in recovered' \/ PidReused(k)'
      <4>1. CASE MarkerIsStale(PidOf[r])
        BY <4>1, <3>2, <2>2 DEF OpensRun, StartRun
      <4>2. CASE PidOf[k] = PidOf[r]
        BY <4>2, <3>1, <3>2 DEF PidReused, TypeOK
      <4>3. CASE PidAlive(PidOf[k])
        BY <4>3, <3>1, <3>2 DEF PidReused, PidAlive, Live, LiveStates, GuardStates, TypeOK
      <4> QED
        BY <4>1, <4>2, <4>3, <3>2, RunsAssumption DEF MarkerIsStale
    <3>3. \A k \in Runs : PidReused(k) => PidReused(k)'
      BY <3>1 DEF PidReused, TypeOK
    <3> QED
      BY <3>1, <3>2, <3>3
      DEF LossInv, Excused, Live, LiveStates, GuardStates, TypeOK
  <2>3. CASE SkipsStart(r)
    <3>1. /\ pc[r] = "idle" /\ pc' = [pc EXCEPT ![r] = "started"]
          /\ UNCHANGED <<marker, closed, tracked, recovered>>
          /\ \A q \in Runs : Live(q) /\ q # r => {q, r} \subseteq overlapped'
          /\ overlapped \subseteq overlapped'
      BY <2>3 DEF SkipsStart, NoteOverlap, health
    <3>2. \A k \in Runs : PidReused(k) => PidReused(k)'
      BY <3>1 DEF PidReused, TypeOK
    <3>3. ~tracked[r]
      BY <3>1 DEF LossInv
    <3> QED
      BY <3>1, <3>2, <3>3
      DEF LossInv, Excused, Live, LiveStates, GuardStates, TypeOK
  <2>4. CASE RunsOn(r)
    <3>1. \A k \in Runs : PidReused(k) => PidReused(k)'
      BY <2>4 DEF RunsOn, PidReused, TypeOK, LiveStates, GuardStates
    <3> QED
      BY <2>4, <3>1, RunsAssumption
      DEF RunsOn, ClosesOrKeeps, LossInv, Excused, Live, LiveStates,
          GuardStates, TypeOK
  <2> QED
    BY <2>2, <2>3, <2>4, StepShape, StartShape
<1>3. LossInv => LossNeedsOverlap
  BY DEF LossInv, LossNeedsOverlap, Excused, GuardStates
<1> QED
  BY <1>1, <1>2, <1>3, TypeCorrect, PTL DEF Spec

-----------------------------------------------------------------------------
(* What a step other than a start or a report does to the state the last   *)
(* three theorems are about.  A run that leaves its set-up without having  *)
(* reported leaves an error on record, or a store has failed.              *)
EvidenceKept(r) ==
    /\ pc' = [pc EXCEPT ![r] = pc'[r]]
    /\ pc[r] \notin {"idle", "killed"} /\ pc'[r] # "idle"
    /\ pc'[r] = "started" => pc[r] = "started" /\ finished' = finished
    /\ finished' = [finished EXCEPT ![r] = finished'[r]]
    /\ errored \subseteq errored'
    /\ faults' \in Nat /\ faults' >= faults
    /\ pc[r] = "started" /\ pc'[r] \notin {"started", "killed"} /\ tracked[r] /\ ~finished[r]
         => r \in errored' \/ faults' > 0
    /\ marker' \in {marker, NoRun}
    /\ UNCHANGED <<tracked, startupCrash, recovered, evidence>>

(* The calls that may close a run add to the errors on record, or nothing. *)
LEMMA ClosingKeeps ==
    ASSUME TypeOK, NEW r \in Runs,
           \/ FinishClean(r) \/ FinishError(r) \/ FinishNothing
           \/ PanicHook(r) /\ UNCHANGED finished
    PROVE  /\ finished' = [finished EXCEPT ![r] = finished'[r]]
           /\ errored \subseteq errored'
           /\ faults' \in Nat /\ faults' >= faults
           /\ marker' \in {marker, NoRun}
BY DEF FinishClean, FinishError, Finish, FinishNothing, PanicHook,
       StoreErrs, MarkCleanExit, RecordCrash, health, TypeOK

(* One that records an error of an open run does so, or the store fails.   *)
LEMMA ErrorIsRecorded ==
    ASSUME TypeOK, NEW r \in Runs, tracked[r], ~finished[r],
           FinishError(r) \/ PanicHook(r)
    PROVE  r \in errored' \/ faults' > 0
BY DEF FinishError, Finish, PanicHook, StoreErrs, RecordCrash, TypeOK

LEMMA StepEvidence ==
    ASSUME TypeOK, NEW r \in Runs, RunStep(r)
    PROVE  \/ Start(r) \/ StartFails(r) \/ ReportRecovered(r) \/ EvidenceKept(r)
           \/ \E v \in Violations : RecordViolation(r, v)
<1> USE DEF EvidenceKept, StartOnly, GuardStates
<1>1. CASE SetupFails(r)
  BY <1>1, ClosingKeeps, ErrorIsRecorded DEF SetupFails, TypeOK
<1>2. CASE LoadFails(r)
  <2>1. /\ finished' = [finished EXCEPT ![r] = finished'[r]]
        /\ errored \subseteq errored' /\ faults' \in Nat /\ faults' >= faults /\ marker' \in {marker, NoRun}
    BY <1>2, ClosingKeeps DEF LoadFails, FinishNothing
  <2> QED
    BY <1>2, <2>1 DEF LoadFails, TypeOK
<1>3. CASE Evaluate(r) \/ AnswerUnknownTool(r) \/ HookReturns(r) \/ ReturnsErr(r)
  BY <1>3, ClosingKeeps DEF Evaluate, AnswerUnknownTool, HookReturns, ReturnsErr, TypeOK
<1>4. CASE WrapperDenies(r) \/ ReleaseHalted(r) \/ PrepareExec(r)
  BY <1>4, ClosingKeeps DEF WrapperDenies, ReleaseHalted, PrepareExec, TypeOK
<1>5. CASE ExecSucceeds(r) \/ ExecFails(r) \/ ToolExits(r) \/ Kill(r)
  BY <1>5, ClosingKeeps DEF ExecSucceeds, ExecFails, ToolExits, Kill, TypeOK
<1>6. CASE Panic(r)
  <2>1. /\ finished' = [finished EXCEPT ![r] = finished'[r]]
        /\ errored \subseteq errored' /\ faults' \in Nat /\ faults' >= faults /\ marker' \in {marker, NoRun}
    BY <1>6, ClosingKeeps DEF Panic, FinishNothing
  <2> QED
    BY <1>6, <2>1, ErrorIsRecorded DEF Panic, TypeOK
<1>7. CASE EvaluationPanics(r)
  <2>1. /\ finished' = [finished EXCEPT ![r] = finished'[r]]
        /\ errored \subseteq errored' /\ faults' \in Nat /\ faults' >= faults /\ marker' \in {marker, NoRun}
    BY <1>7, ClosingKeeps DEF EvaluationPanics, FinishNothing
  <2> QED
    BY <1>7, <2>1 DEF EvaluationPanics, TypeOK
<1> QED
  BY <1>1, <1>2, <1>3, <1>4, <1>5, <1>6, <1>7 DEF RunStep

-----------------------------------------------------------------------------
(* The invariant behind HaltPreventsExec: only practice mode releases a    *)
(* run that halts.                                                         *)
HaltInv ==
    /\ HaltPreventsExec
    /\ \A r \in Runs : pc[r] = "released" => r \in PracticeRuns

(* Whatever happens between the recovery of a crash and the exec, failed   *)
(* loads, caught panics and failed stores included, a Fail-Closed run that *)
(* recovered a crash runs no tool (main.rs, run_shadowed_tool).            *)
THEOREM HaltHolds == Spec => []HaltPreventsExec
<1>1. Init => HaltInv
  BY RunsAssumption DEF Init, HaltInv, HaltPreventsExec
<1>2. TypeOK /\ HaltInv /\ [Next]_vars => HaltInv'
  <2> SUFFICES ASSUME TypeOK, HaltInv, [Next]_vars PROVE HaltInv'
    OBVIOUS
  <2>1. CASE UNCHANGED vars
    BY <2>1 DEF vars, HaltInv, HaltPreventsExec
  <2> SUFFICES ASSUME NEW r \in Runs, RunStep(r) PROVE HaltInv'
    BY <2>1 DEF Next
  <2> USE RunsAssumption DEF HaltInv, HaltPreventsExec, StartOnly, TypeOK
  <2>2. CASE Start(r)
    <3>1. /\ pc' = [pc EXCEPT ![r] = "started"]
          /\ \A q \in Runs : q # r => startupCrash'[q] = startupCrash[q]
      BY <2>2 DEF Start
    <3> QED
      BY <3>1
  <2>3. CASE StartFails(r) \/ SetupFails(r) \/ LoadFails(r) \/ ReportRecovered(r)
    BY <2>3 DEF StartFails, SetupFails, LoadFails, ReportRecovered
  <2>4. CASE Evaluate(r) \/ EvaluationPanics(r) \/ AnswerUnknownTool(r)
    BY <2>4 DEF Evaluate, EvaluationPanics, AnswerUnknownTool
  <2>5. CASE HookReturns(r) \/ ReturnsErr(r) \/ WrapperDenies(r) \/ ReleaseHalted(r)
    BY <2>5 DEF HookReturns, ReturnsErr, WrapperDenies, ReleaseHalted
  <2>6. CASE PrepareExec(r)
    BY <2>6 DEF PrepareExec, Halted
  <2>7. CASE ExecSucceeds(r) \/ ExecFails(r) \/ ToolExits(r) \/ Kill(r) \/ Panic(r)
    BY <2>7 DEF ExecSucceeds, ExecFails, ToolExits, Kill, Panic
  <2>8. ASSUME NEW v \in Violations, RecordViolation(r, v) PROVE HaltInv'
    BY <2>8 DEF RecordViolation
  <2> QED
    BY <2>2, <2>3, <2>4, <2>5, <2>6, <2>7, <2>8 DEF RunStep
<1>3. HaltInv => HaltPreventsExec
  BY DEF HaltInv
<1> QED
  BY <1>1, <1>2, <1>3, TypeCorrect, PTL DEF Spec

-----------------------------------------------------------------------------
(* The invariant behind RecoveredIsReported: who recovered a crash holds a *)
(* lifecycle, and has not finished it while it is still setting up.        *)
ReportInv ==
    /\ RecoveredIsReported
    /\ \A r \in Runs : startupCrash[r] # NoCrash => tracked[r]
    /\ \A r \in Runs : pc[r] \in {"idle", "started"} => ~finished[r]

(* A recovered crash reaches the state store, or the run that recovered it *)
(* died on the way or left an error of its own, or a store failed          *)
(* (recovered_guard_crash_requires_halt and the error paths before it).    *)
THEOREM RecoveredReported == Spec => []RecoveredIsReported
<1>1. Init => ReportInv
  BY DEF Init, ReportInv, RecoveredIsReported
<1>2. TypeOK /\ ReportInv /\ [Next]_vars => ReportInv'
  <2> SUFFICES ASSUME TypeOK, ReportInv, [Next]_vars PROVE ReportInv'
    OBVIOUS
  <2>1. CASE UNCHANGED vars
    BY <2>1 DEF vars, evidence, ReportInv, RecoveredIsReported
  <2> SUFFICES ASSUME NEW r \in Runs, RunStep(r) PROVE ReportInv'
    BY <2>1 DEF Next
  <2>2. CASE Start(r)
    <3>1. /\ pc[r] = "idle" /\ pc' = [pc EXCEPT ![r] = "started"]
          /\ tracked' = [tracked EXCEPT ![r] = TRUE]
          /\ \A q \in Runs : q # r => startupCrash'[q] = startupCrash[q]
      BY <2>2 DEF Start, CanStart, TypeOK
    <3>2. UNCHANGED <<finished, reported, errored, faults>>
      BY <2>2 DEF Start, evidence
    <3> QED
      BY <3>1, <3>2 DEF ReportInv, RecoveredIsReported, TypeOK
  <2>3. CASE StartFails(r)
    BY <2>3 DEF StartFails, CanStart, StoreErrs, evidence, ReportInv,
                RecoveredIsReported, TypeOK
  <2>4. CASE ReportRecovered(r)
    <3>1. /\ pc[r] = "started" /\ pc' = [pc EXCEPT ![r] = "judged"]
          /\ UNCHANGED <<startupCrash, tracked, finished, errored>>
          /\ reported \subseteq reported' /\ faults' \in Nat /\ faults' >= faults
          /\ startupCrash[r] = NoCrash \/ startupCrash[r] \in reported' \/ faults' > 0
      BY <2>4 DEF ReportRecovered, StoreErrs, StartOnly, evidence, TypeOK
    <3>2. ASSUME NEW q \in Runs, startupCrash[q] # NoCrash, startupCrash[q] \notin reported'
          PROVE  pc'[q] \in {"started", "killed"} \/ q \in errored' \/ faults' > 0
      BY <3>1, <3>2 DEF ReportInv, RecoveredIsReported, TypeOK
    <3>3. RecoveredIsReported'
      BY <3>1, <3>2 DEF RecoveredIsReported
    <3>4. \A q \in Runs : pc'[q] \in {"idle", "started"} => ~finished'[q]
      BY <3>1 DEF ReportInv, TypeOK
    <3> QED
      BY <3>1, <3>3, <3>4 DEF ReportInv
  <2>5. CASE EvidenceKept(r)
    <3> USE <2>5 DEF EvidenceKept, evidence
    <3>1. ASSUME NEW q \in Runs, startupCrash[q] # NoCrash, startupCrash[q] \notin reported
          PROVE  pc'[q] \in {"started", "killed"} \/ q \in errored' \/ faults' > 0
      <4>1. CASE q = r /\ pc[r] = "started"
        <5>1. tracked[r] /\ ~finished[r]
          BY <3>1, <4>1 DEF ReportInv
        <5> QED
          BY <4>1, <5>1
      <4>2. CASE q = r /\ pc[r] = "killed"
        BY <3>1, <4>2 DEF ReportInv, TypeOK
      <4>3. CASE q # r \/ pc[q] \notin {"started", "killed"}
        BY <3>1, <4>3 DEF ReportInv, RecoveredIsReported, TypeOK
      <4> QED
        BY <4>1, <4>2, <4>3
    <3>2. RecoveredIsReported'
      BY <3>1 DEF RecoveredIsReported
    <3>3. \A q \in Runs : pc'[q] \in {"idle", "started"} => ~finished'[q]
      BY DEF ReportInv, TypeOK
    <3> QED
      BY <3>2, <3>3 DEF ReportInv
  <2>6. ASSUME NEW v \in Violations, RecordViolation(r, v) PROVE ReportInv'
    BY <2>6 DEF RecordViolation, StoreErrs, StartOnly, ReportInv,
                RecoveredIsReported, TypeOK
  <2> QED
    BY <2>2, <2>3, <2>4, <2>5, <2>6, StepEvidence
<1>3. ReportInv => RecoveredIsReported
  BY DEF ReportInv
<1> QED
  BY <1>1, <1>2, <1>3, TypeCorrect, PTL DEF Spec

-----------------------------------------------------------------------------
(* The invariant behind EvidenceIsExact.  A run is recovered once, since a *)
(* start takes its marker away; so no two starts recover the same crash,   *)
(* and a crash in the store was reported by a run that is past reporting.  *)
(* A violation is noted by a run whose check had not come to it before.    *)
CountInv ==
    /\ crashCount = Cardinality(reported) + Cardinality(noted)
    /\ IsFiniteSet(reported) /\ IsFiniteSet(noted)
    /\ lastCrashId \in IF crashCount = 0 THEN {NoCrash}
                       ELSE reported \cup {note[2] : note \in noted}
OnceInv ==
    /\ marker \notin recovered
    /\ \A r \in Runs : startupCrash[r] # NoCrash => startupCrash[r].run \in recovered
    /\ \A r \in Runs : \A q \in Runs :
           r # q /\ startupCrash[r] # NoCrash /\ startupCrash[q] # NoCrash =>
               startupCrash[r] # startupCrash[q]
    /\ \A crash \in reported : \E q \in Runs :
           pc[q] \notin {"idle", "started"} /\ startupCrash[q] = crash
ExactInv == CountInv /\ OnceInv

(* The record a start returns is the one it has just pushed, if any.       *)
LEMMA NewestIsPushed ==
    ASSUME TypeOK, NEW crash \in CrashRecord, Remember(crash) # <<>>
    PROVE  Remember(crash)[Len(Remember(crash))] = crash
BY DEF Remember, TypeOK

(* What a start recovers nobody has recovered before.                      *)
LEMMA OpensFresh ==
    ASSUME TypeOK, MarkerInv, OnceInv, NEW r \in Runs, OpensRun(r)
    PROVE  /\ marker' = r /\ r \notin recovered' /\ recovered \subseteq recovered'
           /\ \/ RecoveredBy(r) = NoCrash
              \/ RecoveredBy(r).run \in recovered' \ recovered
<1>1. marker' = r /\ r \notin recovered /\ r # marker
  BY RunsAssumption DEF OpensRun, StartRun, MarkerInv, NoFalseCrash, TypeOK
<1>2. CASE MarkerIsStale(PidOf[r])
  <2> DEFINE crash == [run |-> marker, kind |-> "unknown"]
             history == Remember(crash)
  <2>1. crash \in CrashRecord /\ crash.run = marker
    BY <1>2, StaleIsRun
  <2>2. history # <<>> => history[Len(history)] = crash
    BY <2>1, NewestIsPushed
  <2>3. RecoveredBy(r) = Newest(history)
    BY <1>2 DEF RecoveredBy
  <2>4. recovered' = recovered \cup {marker}
    BY <1>2 DEF OpensRun, StartRun
  <2> HIDE DEF crash, history
  <2> QED
    BY <1>1, <2>1, <2>2, <2>3, <2>4 DEF Newest, OnceInv
<1>3. CASE ~MarkerIsStale(PidOf[r])
  BY <1>1, <1>3 DEF OpensRun, StartRun, RecoveredBy
<1> QED
  BY <1>2, <1>3

(* One more record, reported or noted, is one more in the counter.         *)
LEMMA OneMore ==
    ASSUME TypeOK, CountInv, NEW id, RecordGuardCrash(id),
           \/ /\ id \notin reported /\ reported' = reported \cup {id}
              /\ noted' = noted
           \/ /\ reported' = reported
              /\ \E r \in Runs : /\ <<r, id>> \notin noted
                                 /\ noted' = noted \cup {<<r, id>>}
    PROVE  CountInv'
<1>1. crashCount' = crashCount + 1 /\ lastCrashId' = id /\ crashCount \in Nat
  BY DEF RecordGuardCrash, TypeOK
<1>2. Cardinality(reported) \in Nat /\ Cardinality(noted) \in Nat
  BY FS_CardinalityType DEF CountInv
<1>3. CASE /\ id \notin reported /\ reported' = reported \cup {id} /\ noted' = noted
  <2>1. IsFiniteSet(reported') /\ Cardinality(reported') = Cardinality(reported) + 1
    BY <1>3, FS_AddElement DEF CountInv
  <2> QED
    BY <1>1, <1>2, <1>3, <2>1 DEF CountInv
<1>4. CASE \E r \in Runs : /\ <<r, id>> \notin noted
                           /\ noted' = noted \cup {<<r, id>>}
                           /\ reported' = reported
  <2>1. PICK r \in Runs : /\ <<r, id>> \notin noted
                          /\ noted' = noted \cup {<<r, id>>}
                          /\ reported' = reported
    BY <1>4
  <2>2. IsFiniteSet(noted') /\ Cardinality(noted') = Cardinality(noted) + 1
    BY <2>1, FS_AddElement DEF CountInv
  <2>3. id \in {note[2] : note \in noted'}
    BY <2>1
  <2> QED
    BY <1>1, <1>2, <2>1, <2>2, <2>3 DEF CountInv
<1> QED
  BY <1>3, <1>4

(* The counter that reconciliation compares is the number of the recovered *)
(* crashes it was told of, each once, and of the violations of the trust   *)
(* pointer's directory that runs noted, one for each run (state_store.rs,  *)
(* record_guard_crash), whatever runs overlap, whichever saves err before  *)
(* or after their rename, and however short the history is.                *)
THEOREM EvidenceExact == Spec => []EvidenceIsExact
<1>1. Init => ExactInv
  BY FS_EmptySet, RunsAssumption DEF Init, ExactInv, CountInv, OnceInv
<1>2. TypeOK /\ MarkerInv /\ ExactInv /\ [Next]_vars => ExactInv'
  <2> SUFFICES ASSUME TypeOK, MarkerInv, ExactInv, [Next]_vars PROVE ExactInv'
    OBVIOUS
  <2>1. CASE UNCHANGED vars
    BY <2>1 DEF vars, health, evidence, ExactInv, CountInv, OnceInv
  <2> SUFFICES ASSUME NEW r \in Runs, RunStep(r) PROVE ExactInv'
    BY <2>1 DEF Next
  <2> USE DEF ExactInv
  <2>2. CASE Start(r)
    <3>1. OpensRun(r)
      BY <2>2, StartShape
    <3>2. CountInv'
      BY <2>2 DEF Start, evidence, CountInv
    <3>3. /\ marker' = r /\ r \notin recovered' /\ recovered \subseteq recovered'
          /\ RecoveredBy(r) = NoCrash \/ RecoveredBy(r).run \in recovered' \ recovered
      BY <3>1, OpensFresh
    <3>4. /\ startupCrash' = [startupCrash EXCEPT ![r] = RecoveredBy(r)]
          /\ pc[r] = "idle" /\ pc' = [pc EXCEPT ![r] = "started"]
          /\ reported' = reported
      BY <2>2 DEF Start, CanStart, evidence
    <3>5. OnceInv'
      BY <3>3, <3>4 DEF OnceInv, TypeOK
    <3> QED
      BY <3>2, <3>5
  <2>3. CASE StartFails(r)
    <3>1. CountInv'
      BY <2>3 DEF StartFails, evidence, CountInv
    <3>2. /\ startupCrash' = startupCrash /\ reported' = reported
          /\ pc[r] = "idle" /\ pc' = [pc EXCEPT ![r] = "started"]
      BY <2>3 DEF StartFails, CanStart, evidence
    <3>3. CASE OpensRun(r)
      <4>1. marker' = r /\ r \notin recovered' /\ recovered \subseteq recovered'
        BY <3>3, OpensFresh
      <4> QED
        BY <3>1, <3>2, <4>1 DEF OnceInv, TypeOK
    <3>4. CASE SkipsStart(r)
      BY <3>1, <3>2, <3>4 DEF SkipsStart, health, OnceInv, TypeOK
    <3> QED
      BY <2>3, <3>3, <3>4, StartShape
  <2>4. CASE ReportRecovered(r)
    <3>1. /\ pc[r] = "started" /\ pc' = [pc EXCEPT ![r] = "judged"]
          /\ UNCHANGED <<startupCrash, recovered, marker, noted>>
      BY <2>4 DEF ReportRecovered, StartOnly, health
    <3>2. CASE UNCHANGED <<crashCount, lastCrashId, reported>>
      BY <3>1, <3>2 DEF CountInv, OnceInv, TypeOK
    <3>3. CASE /\ startupCrash[r] # NoCrash
               /\ RecordGuardCrash(startupCrash[r])
               /\ reported' = reported \cup {startupCrash[r]}
      <4>1. startupCrash[r] \notin reported
        BY <3>1, <3>3 DEF OnceInv
      <4>2. CountInv'
        BY <3>1, <3>3, <4>1, OneMore
      <4>3. OnceInv'
        BY <3>1, <3>3 DEF OnceInv, TypeOK
      <4> QED
        BY <4>2, <4>3
    <3> QED
      BY <2>4, <3>2, <3>3 DEF ReportRecovered
  <2>5. CASE EvidenceKept(r)
    <3>1. NoRun \notin recovered
      BY RunsAssumption DEF TypeOK
    <3> QED
      BY <2>5, <3>1 DEF EvidenceKept, CountInv, OnceInv, evidence, TypeOK
  <2>6. ASSUME NEW v \in Violations, RecordViolation(r, v) PROVE ExactInv'
    <3>1. OnceInv'
      BY <2>6 DEF RecordViolation, StartOnly, health, OnceInv
    <3>2. CASE UNCHANGED <<crashCount, lastCrashId, noted>>
      BY <2>6, <3>1, <3>2 DEF RecordViolation, CountInv
    <3>3. CASE RecordGuardCrash(v) /\ noted' = noted \cup {<<r, v>>}
      <4>1. <<r, v>> \notin noted /\ reported' = reported
        BY <2>6 DEF RecordViolation, TypeOK
      <4> QED
        BY <3>1, <3>3, <4>1, OneMore
    <3> QED
      BY <2>6, <3>2, <3>3 DEF RecordViolation
  <2> QED
    BY <2>2, <2>3, <2>4, <2>5, <2>6, StepEvidence
<1>3. TypeOK /\ ExactInv => EvidenceIsExact
  BY CrashAssumption DEF ExactInv, CountInv, OnceInv, EvidenceIsExact, TypeOK
<1> QED
  BY <1>1, <1>2, <1>3, TypeCorrect, MarkerCorrect, PTL DEF Spec
=============================================================================
