--------------------------- MODULE HookInvocation ---------------------------
(***************************************************************************)
(* Guarded invocations, which an agent runs one after the other or at      *)
(* once: each is a process that judges one call with the rule engine, sets *)
(* the marks that later calls rely on, records a denial, and answers its   *)
(* harness or executes the tool.  They share the marks of the state store, *)
(* the regression corpus and the denial log; neither of the files has a    *)
(* lock between processes.                                                 *)
(*                                                                         *)
(* The packs are loaded when an invocation starts (PackDirectory); here    *)
(* the load has succeeded or failed.                                       *)
(***************************************************************************)
EXTENDS RuleEngine, FiniteSets

CONSTANTS
    Invocations,    \* processes, each of which serves one call
    Calls, Call,    \* what an agent may ask for: names, and name -> call
    CorpusLimit,    \* cases recorded per pack
    LogLimit,       \* denials after which the log is rotated
    MaxRotated,     \* rotated logs that are kept
    MaxTroubles     \* bound: kills, failed loads and failed writes together

ASSUME CallsAssumption ==
    \A c \in Calls : /\ Call[c].front \in {"hook", "wrapper"}
                     /\ Call[c].kind \in {"command", "content", "batch", "unsupported"}
                     /\ Call[c].units \in Seq(ToSet(Call[c].units)) \ {<<>>}
ASSUME LimitsAssumption == {CorpusLimit, LogLimit, MaxRotated} \subseteq Nat \ {0}

VARIABLES
    posture,   \* "open", "closed", "practice" (and open) or "bypass"
    marks,     \* the marks of the state store
    corpus,    \* pack -> its recorded cases
    log,       \* the denials in the log
    rotated,   \* the denials in each rotated log; {} is a free slot
    pc,        \* each invocation's next step
    call,      \* what it was asked
    health,    \* "healthy", "faulty" (a pack failed to load), "blind" (the
               \* store cannot be read) or "halted" (a crash was recovered)
    saw,       \* the marks it has judged with
    result,    \* what it has decided
    case,      \* the case it would record
    counted,   \* evaluations it has added to its release's counters
    seen,      \* the corpus it has read
    slot,      \* the rotated log it is about to fill
    pruning,   \* the corpus an operator's prune has read
    troubles,
    granted,   \* history: marks whose calls were let through
    vanished,  \* history: marks whose calls were killed before an answer
    recorded,  \* history: denials written to the log, the older ones included
    expired,   \* history: denials removed because every slot was taken
    raced      \* history: files on which two processes have overlapped

shared == <<posture, marks, corpus, log, rotated>>
locals == <<call, health, saw, result, case, counted, seen, slot>>
history == <<granted, vanished, recorded, expired, raced>>
vars == <<shared, pc, locals, pruning, troubles, history>>

Steps == {"idle", "judge", "mark", "corpus", "append", "check", "slot", "remove", "rename",
          "write", "answer", "ran", "rewrote", "blocked", "done"}
Answered == {"ran", "rewrote", "blocked"}
InFlight == Steps \ (Answered \cup {"idle", "done"})
Rotating == {"slot", "remove", "rename"}
ResultPacks == Packs \cup {"fail-closed", "write-guard"}
NoCase == <<"none", "none", 0>>
MarkNames == {"pull", "flush"}
Healths == {"healthy", "faulty", "blind", "halted"}
NoPrune == [pack |-> "none", read |-> <<>>]

Init ==
    /\ posture \in {"open", "closed", "practice", "bypass"}
    /\ marks \in SUBSET MarkNames /\ granted = marks
    /\ corpus = [p \in ResultPacks |-> <<>>]
    /\ log \in {{}, {<<"older", 0>>}}
    /\ \E full \in 0..MaxRotated :
         rotated = [k \in 1..MaxRotated |-> IF k <= full THEN {<<"older", k>>} ELSE {}]
    /\ pc = [i \in Invocations |-> "idle"]
    /\ call = [i \in Invocations |-> "none"]
    /\ health = [i \in Invocations |-> "healthy"]
    /\ saw = [i \in Invocations |-> {}]
    /\ result = [i \in Invocations |-> Allowed]
    /\ case = [i \in Invocations |-> NoCase]
    /\ counted = [i \in Invocations |-> 0]
    /\ seen = [i \in Invocations |-> <<>>]
    /\ slot = [i \in Invocations |-> 0]
    /\ pruning = NoPrune /\ troubles = 0
    /\ recorded = log \cup UNION {rotated[k] : k \in 1..MaxRotated}
    /\ vanished = {} /\ expired = {} /\ raced = {}

Goto(i, from, to) == pc[i] = from /\ pc' = [pc EXCEPT ![i] = to]
Trouble == troubles < MaxTroubles /\ troubles' = troubles + 1

-----------------------------------------------------------------------------
(* Judging.                                                                *)

(* An invocation reads its call; an emergency bypass answers without it.   *)
(* Only under fail-closed does a recovered crash halt the next invocation. *)
Start(i, c) ==
    /\ Goto(i, "idle", IF posture = "bypass" THEN "answer" ELSE "judge")
    /\ call' = [call EXCEPT ![i] = c]
    /\ \/ UNCHANGED <<health, troubles>>
       \/ posture # "bypass" /\ Trouble
          /\ \E h \in {"faulty", "blind"} \cup (IF posture = "closed" THEN {"halted"} ELSE {}) :
               health' = [health EXCEPT ![i] = h]
    /\ UNCHANGED <<shared, saw, result, case, counted, seen, slot, pruning, history>>

Store(h, m) == [readable |-> h # "blind", marks |-> m]
Orders == {o \in [1..Cardinality(Packs) -> Packs] : \A p \in Packs : \E k \in DOMAIN o : o[k] = p}

(* What an invocation judges: a call, the state of packs and store, the    *)
(* marks, and whether the policy is fail-closed.                           *)
Situations == [call : Calls, health : Healths, marks : SUBSET MarkNames, closed : BOOLEAN]
StoreIn(s) == Store(s.health, s.marks)

Decision(s, order) ==
    IF s.health = "halted" THEN GuardCrash
    ELSE Evaluate(Call[s.call], order, StoreIn(s), s.health = "faulty", s.closed)

(* The file of a denied batch that is recorded: record_hook_batch_denial   *)
(* evaluates the files one by one until the same rule denies; 0 if none    *)
(* does, and then the first is recorded.                                   *)
DeniedFile(s, order) ==
    LET units == Call[s.call].units
        same == {k \in DOMAIN units :
                   EvaluateContent(units[k], order, StoreIn(s), s.health = "faulty", s.closed)
                     = Decision(s, order)}
    IN IF Call[s.call].kind # "batch" \/ same = {} THEN 0 ELSE Min(same)

(* What processes may decide, each with its own order of packs.            *)
Decisions ==
    [s \in Situations |->
        {[result |-> Decision(s, order), file |-> DeniedFile(s, order)] : order \in Orders}]

(* What record_telemetry_result adds for one invocation: its decision, and *)
(* the files of a denied batch that are evaluated again.                   *)
Count(c, h, d) ==
    (IF h = "halted" \/ Call[c].kind = "unsupported" THEN 0 ELSE 1)
    + (IF Call[c].kind # "batch" \/ d.result.channel # "deny" THEN 0
       ELSE IF d.file = 0 THEN Len(Call[c].units) ELSE d.file)

(* Mutant: a call is marked unless it is denied, before it is judged.      *)
AfterJudgingMarkAll(c, r) ==
    IF MarksOf(Call[c]) # {} THEN "mark"
    ELSE IF r.channel = "deny" THEN (IF Call[c].front = "hook" THEN "corpus" ELSE "check")
    ELSE "answer"

(* Where the invocation goes: only a plain allow marks; only the hook      *)
(* records cases; a call of an unsupported tool records nothing at all.    *)
AfterJudging(c, r) ==
    IF Call[c].kind = "unsupported" THEN "answer"
    ELSE IF r.channel = "deny" THEN (IF Call[c].front = "hook" THEN "corpus" ELSE "check")
    ELSE IF r = Allowed /\ MarksOf(Call[c]) # {} THEN "mark"
    ELSE "answer"

Situation(i, m) ==
    [call |-> call[i], health |-> health[i], marks |-> m, closed |-> posture = "closed"]

Judge(i) ==
    /\ pc[i] = "judge"
    /\ \E d \in Decisions[Situation(i, marks)] :
         /\ Goto(i, "judge", AfterJudging(call[i], d.result))
         /\ result' = [result EXCEPT ![i] = d.result]
         /\ case' = [case EXCEPT ![i] =
                       IF d.result.channel # "deny" THEN NoCase
                       ELSE <<d.result.rule, call[i], IF d.file = 0 THEN 1 ELSE d.file>>]
         /\ counted' = [counted EXCEPT ![i] = Count(call[i], health[i], d)]
    /\ saw' = [saw EXCEPT ![i] = marks]
    /\ UNCHANGED <<shared, call, health, seen, slot, pruning, troubles, history>>

(* mark_command_state_if_needed; a store that cannot be written is only    *)
(* warned about.                                                           *)
Mark(i) ==
    /\ Goto(i, "mark", "answer")
    /\ \/ /\ health[i] # "blind"
          /\ marks' = marks \cup MarksOf(Call[call[i]])
          /\ UNCHANGED troubles
       \/ health[i] = "blind" /\ UNCHANGED <<marks, troubles>>
       \/ Trouble /\ UNCHANGED marks
    /\ UNCHANGED <<posture, corpus, log, rotated, locals, pruning, history>>

-----------------------------------------------------------------------------
(* Recording: the regression corpus of the denying pack.                   *)

(* record_denial_as_test_with_limit: a known case is not recorded again,   *)
(* nor is any once the corpus is full.                                     *)
ReadCorpus(i) ==
    LET cases == corpus[result[i].pack]
    IN /\ Goto(i, "corpus", IF case[i] \in ToSet(cases) \/ Len(cases) >= CorpusLimit
                            THEN "check" ELSE "append")
       /\ seen' = [seen EXCEPT ![i] = cases]
       /\ UNCHANGED <<shared, call, health, saw, result, case, counted, slot, pruning, troubles, history>>

AppendCase(i) ==
    LET p == result[i].pack
    IN /\ Goto(i, "append", "check")
       /\ corpus' = [corpus EXCEPT ![p] = Append(@, case[i])]
       /\ raced' = IF corpus[p] = seen[i] THEN raced ELSE raced \cup {"corpus"}
       /\ UNCHANGED <<posture, marks, log, rotated, locals, pruning, troubles,
                      granted, vanished, recorded, expired>>

(* `icg regression-prune` reads a corpus, and rewrites it when it holds    *)
(* duplicates or too many cases: the first of each, up to the limit.       *)
Firsts(cases) ==
    LET places == {k \in DOMAIN cases : \A j \in 1..(k - 1) : cases[j] # cases[k]}
    IN [n \in 1..Cardinality(places) |->
          cases[CHOOSE k \in places : Cardinality(places \cap (1..k)) = n]]
Kept(cases) == SubSeq(Firsts(cases), 1, IF Len(Firsts(cases)) > CorpusLimit THEN CorpusLimit
                                        ELSE Len(Firsts(cases)))

PruneRead(p) ==
    /\ pruning = NoPrune
    /\ Kept(corpus[p]) # corpus[p]
    /\ pruning' = [pack |-> p, read |-> corpus[p]]
    /\ UNCHANGED <<shared, pc, locals, troubles, history>>

PruneWrite ==
    LET p == pruning.pack
    IN /\ pruning # NoPrune
       /\ corpus' = [corpus EXCEPT ![p] = Kept(pruning.read)]
       /\ raced' = IF corpus[p] = pruning.read THEN raced ELSE raced \cup {"corpus"}
       /\ pruning' = NoPrune
       /\ UNCHANGED <<posture, marks, log, rotated, pc, locals, troubles,
                      granted, vanished, recorded, expired>>

-----------------------------------------------------------------------------
(* Recording: the denial log.                                              *)

recordingVars == <<posture, marks, corpus, call, health, saw, result, case, counted, seen,
                   pruning>>

(* needs_rotation looks at the size of the log, if there is one.           *)
CheckLog(i) ==
    LET rotates == Cardinality(log) >= LogLimit
    IN /\ Goto(i, "check", IF rotates THEN "slot" ELSE "write")
       /\ raced' = IF rotates /\ \E j \in Invocations \ {i} : pc[j] \in Rotating
                   THEN raced \cup {"log"} ELSE raced
       /\ UNCHANGED <<recordingVars, log, rotated, slot, troubles, granted, vanished, recorded, expired>>

(* Mutant: the log is renamed to the first name, free or not.              *)
FindSlotFirst(i) ==
    /\ Goto(i, "slot", "rename")
    /\ slot' = [slot EXCEPT ![i] = 1]
    /\ UNCHANGED <<recordingVars, log, rotated, troubles, history>>

(* The first free slot; when there is none, the last one is removed.  A    *)
(* log that somebody else has rotated by now needs no slot.                *)
FindSlot(i) ==
    LET free == {k \in 1..MaxRotated : rotated[k] = {}}
    IN /\ Goto(i, "slot", IF log = {} THEN "write"
                          ELSE IF free = {} THEN "remove" ELSE "rename")
       /\ slot' = [slot EXCEPT ![i] = IF log = {} THEN 0
                                      ELSE IF free = {} THEN MaxRotated
                                      ELSE CHOOSE k \in free : \A j \in free : k <= j]
       /\ UNCHANGED <<recordingVars, log, rotated, troubles, history>>

RemoveLast(i) ==
    /\ Goto(i, "remove", "rename")
    /\ rotated' = [rotated EXCEPT ![MaxRotated] = {}]
    /\ expired' = expired \cup rotated[MaxRotated]
    /\ UNCHANGED <<recordingVars, log, slot, troubles, granted, vanished, recorded, raced>>

(* rename(2) replaces what has taken the slot meanwhile; without a log it  *)
(* fails, and the denial is not recorded.                                  *)
Rename(i) ==
    /\ Goto(i, "rename", IF log = {} THEN "answer" ELSE "write")
    /\ IF log = {} THEN UNCHANGED <<log, rotated>>
       ELSE rotated' = [rotated EXCEPT ![slot[i]] = log] /\ log' = {}
    /\ slot' = [slot EXCEPT ![i] = 0]
    /\ UNCHANGED <<recordingVars, troubles, history>>

WriteDenial(i) ==
    /\ Goto(i, "write", "answer")
    /\ log' = log \cup {i}
    /\ recorded' = recorded \cup {i}
    /\ UNCHANGED <<recordingVars, rotated, slot, troubles, granted, vanished, expired, raced>>

(* A recorder that fails is reported on stderr and changes no answer.      *)
RecordingFails(i) ==
    /\ \/ Goto(i, "append", "check")
       \/ \E from \in Rotating \cup {"check", "write"} : Goto(i, from, "answer")
    /\ Trouble
    /\ slot' = [slot EXCEPT ![i] = 0]
    /\ UNCHANGED <<recordingVars, log, rotated, history>>

-----------------------------------------------------------------------------
(* Answering.                                                              *)

(* Which harnesses can replace the input of a call (Capabilities), and the *)
(* wrapper, which executes the tool with other arguments.                  *)
UpdatesInput == [claude |-> TRUE, codex |-> FALSE, gemini |-> TRUE, cursor |-> TRUE,
                 cursorShell |-> FALSE, opencode |-> TRUE, wrapper |-> TRUE]
Harnesses(front) == IF front = "wrapper" THEN {"wrapper"} ELSE DOMAIN UpdatesInput \ {"wrapper"}

(* What the rendered response, or the wrapper, does with the call: where   *)
(* the input cannot be replaced a rewrite becomes a denial.                *)
Effect(r, harness) ==
    IF r.channel = "deny" THEN "blocked"
    ELSE IF r.channel # "rewrite" THEN "ran"
    ELSE IF UpdatesInput[harness] THEN "rewrote" ELSE "blocked"

(* In practice mode a denial is shown, and the call allowed.               *)
Enforced(r) == IF posture = "practice" /\ r.channel = "deny" THEN Allowed ELSE r

Answer(i) ==
    /\ pc[i] = "answer"
    /\ \E harness \in Harnesses(Call[call[i]].front) :
         Goto(i, "answer", Effect(Enforced(result[i]), harness))
    /\ granted' = IF result[i] = Allowed THEN granted \cup (MarksOf(Call[call[i]]) \cap marks)
                  ELSE granted
    /\ seen' = [seen EXCEPT ![i] = <<>>]
    /\ UNCHANGED <<shared, call, health, saw, result, case, counted, slot, pruning, troubles,
                   vanished, recorded, expired, raced>>

(* The process is gone, answered or killed.                                *)
Gone(i) ==
    /\ pc' = [pc EXCEPT ![i] = "done"]
    /\ call' = [call EXCEPT ![i] = "none"] /\ health' = [health EXCEPT ![i] = "healthy"]
    /\ saw' = [saw EXCEPT ![i] = {}] /\ result' = [result EXCEPT ![i] = Allowed]
    /\ case' = [case EXCEPT ![i] = NoCase] /\ counted' = [counted EXCEPT ![i] = 0]
    /\ seen' = [seen EXCEPT ![i] = <<>>] /\ slot' = [slot EXCEPT ![i] = 0]

Exit(i) ==
    /\ pc[i] \in Answered
    /\ Gone(i)
    /\ UNCHANGED <<shared, pruning, troubles, history>>

Kill(i) ==
    /\ pc[i] \in InFlight
    /\ Trouble
    /\ Gone(i)
    /\ vanished' = IF pc[i] = "answer" /\ result[i] = Allowed
                   THEN vanished \cup (MarksOf(Call[call[i]]) \cap marks) ELSE vanished
    /\ UNCHANGED <<shared, pruning, granted, recorded, expired, raced>>

Next ==
    \/ \E i \in Invocations :
         \/ \E c \in Calls : Start(i, c)
         \/ Judge(i) \/ Mark(i)
         \/ ReadCorpus(i) \/ AppendCase(i)
         \/ CheckLog(i) \/ FindSlot(i) \/ RemoveLast(i) \/ Rename(i) \/ WriteDenial(i)
         \/ RecordingFails(i)
         \/ Answer(i) \/ Exit(i) \/ Kill(i)
    \/ \E p \in ResultPacks : PruneRead(p)
    \/ PruneWrite

Spec == Init /\ [][Next]_vars

-----------------------------------------------------------------------------
(* Properties.                                                             *)

(* What a call's rules demand, with the marks that are set.                *)
Demanded ==
    [q \in [call : Calls, readable : BOOLEAN, marks : SUBSET MarkNames] |->
        LET store == [readable |-> q.readable, marks |-> q.marks]
        IN [severest |-> Severest(Call[q.call], store),
            undecided |-> Undecided(Call[q.call], store)]]

(* Whatever order a process asks its packs in, a call ends as its severest *)
(* matching rule demands; a check that cannot be decided, a failed load    *)
(* and a recovered crash may weaken that only as the posture says, and     *)
(* never make a call worse than its rules do (engine.rs, adapter.rs).      *)
ResponseIsSeverest ==
    \A i \in Invocations : pc[i] \in Answered /\ posture \in {"open", "closed"} =>
        LET c == Call[call[i]]
            demanded == Demanded[[call |-> call[i], readable |-> health[i] # "blind", marks |-> saw[i]]]
        IN /\ health[i] = "halted" => pc[i] = "blocked"
           /\ health[i] = "faulty" /\ c.kind # "unsupported" =>
                pc[i] = IF posture = "closed" \/ BuiltinGuarded(c) THEN "blocked" ELSE "ran"
           /\ health[i] \in {"healthy", "blind"} =>
                /\ pc[i] \in {"blocked", "rewrote"} => demanded.severest \in {"deny", "rewrite"}
                /\ ~demanded.undecided =>
                     /\ demanded.severest = "deny" => pc[i] = "blocked"
                     /\ demanded.severest = "rewrite" => pc[i] \in {"rewrote", "blocked"}

(* The marks without which a rule denies the call.                         *)
Needed ==
    [c \in Calls |->
        {StatePredicate[g.check].mark :
           g \in {d \in Demands(Call[c], Store("healthy", {})) :
                    d.channel = "deny" /\ d.check \in DOMAIN StatePredicate}}]

(* A call that needs a flush or a pull first is let through only if such a *)
(* call was let through before, or was killed or is on its way after it    *)
(* had set the mark: the mark is set before the tool runs (engine.rs:1514).*)
GateOrderHolds ==
    \A i \in Invocations :
        pc[i] = "ran" /\ posture \in {"open", "closed"} /\ health[i] = "healthy" =>
        LET coming == UNION {MarksOf(Call[call[j]]) :
                               j \in {k \in Invocations \ {i} : pc[k] = "answer" /\ result[k] = Allowed}}
        IN ~Demanded[[call |-> call[i], readable |-> TRUE, marks |-> {}]].undecided =>
             Needed[call[i]] \subseteq granted \cup vanished \cup coming

(* What the invocations write down is right, unless two of them met on the *)
(* same file.  A denial is in the log or a rotated log when its answer is  *)
(* given, unless the recorder failed, and stays there until every slot is  *)
(* taken (denial_log.rs, rotate_log).  A corpus holds each case once and   *)
(* no more than its limit (regression.rs).  And an invocation adds one     *)
(* evaluation to its release's counters, which the deny rate is computed   *)
(* from; only a denied batch adds more, because the recorder evaluates its *)
(* files again (main.rs, record_hook_batch_denial).                        *)
RecordsAreKept ==
    /\ "log" \notin raced =>
         /\ recorded \subseteq log \cup expired \cup UNION {rotated[k] : k \in 1..MaxRotated}
         /\ troubles = 0 => \A i \in Invocations :
              pc[i] \in Answered /\ result[i].channel = "deny" => i \in recorded
    /\ "corpus" \notin raced => \A p \in ResultPacks :
         /\ Len(corpus[p]) <= CorpusLimit
         /\ Cardinality(ToSet(corpus[p])) = Len(corpus[p])
    /\ \A i \in Invocations : pc[i] \in Answered /\ posture # "bypass" =>
         /\ counted[i] <= 1 + Len(Call[call[i]].units)
         /\ counted[i] # 1 => \/ health[i] = "halted"
                              \/ Call[call[i]].kind = "unsupported"
                              \/ Call[call[i]].kind = "batch" /\ result[i].channel = "deny"
=============================================================================
