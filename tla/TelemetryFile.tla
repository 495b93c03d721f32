---------------------------- MODULE TelemetryFile ----------------------------
(***************************************************************************)
(* The runtime telemetry document and those who write it: a hook loads it  *)
(* at its start, counts in memory and saves it at its end; an emergency    *)
(* bypass, the health tracker and the operator's configure and reset load, *)
(* change and save it whole.  No lock spans a load and its save, so the    *)
(* last writer wins.  How a save reaches the disk is DurableFiles.         *)
(***************************************************************************)
EXTENDS Naturals, SequencesExt, FiniteSetsExt

CONSTANTS
    Processes,
    DefaultSize,   \* TelemetryConfig::default().window_size
    Sizes,         \* sizes an operator may configure, 0 among them
    BypassLimit,   \* EMERGENCY_BYPASS_EVENT_CAPACITY
    MaxRuns,       \* bound: invocations
    MaxEvaluations \* bound: evaluations of one hook

(* Sizes and limits are numbers, and the audit and the default window have *)
(* room.                                                                   *)
LimitsAreNumbers ==
    /\ DefaultSize \in Nat \ {0} /\ Sizes \subseteq Nat
    /\ BypassLimit \in Nat \ {0}

VARIABLES
    file,     \* <<the document>>, or <<>> when there is none
    torn,     \* the file does not parse
    held,     \* the document in the memory of each process
    runs,     \* invocations so far
    panics    \* history: the documents whose push panicked

telemetryVars == <<file, torn, held, runs, panics>>

(* TelemetryStore::with_config.  The trail is history: the invocations and *)
(* evaluations, oldest first, that the document descends from.             *)
New(size, settings) ==
    [window |-> <<>>, capacity |-> size, size |-> size, settings |-> settings, matches |-> 0,
     bypasses |-> <<>>, health |-> 0, trail |-> <<>>]

TelemetryInit ==
    /\ file = <<>> /\ torn = FALSE /\ runs = 0 /\ panics = {}
    /\ held = [p \in Processes |-> <<>>]

Newest(s, n) == SubSeq(s, (IF Len(s) > n THEN Len(s) - n ELSE 0) + 1, Len(s))

(* EvaluationWindow::push.  A window of size 0 is at capacity when it is   *)
(* empty, and nothing can be removed from it.                              *)
PushPanics(doc) == doc.capacity = 0 /\ doc.window = <<>>
Push(doc, run) ==
    [doc EXCEPT !.window = Append(IF Len(@) = doc.capacity THEN Tail(@) ELSE @, run)]

Event(kind, run, size, matched) == [kind |-> kind, run |-> run, size |-> size, matched |-> matched]

(* Begins an invocation that holds doc once it has noted what it did.      *)
Hold(p, kind, size, doc) ==
    /\ held' = [held EXCEPT ![p] = <<[doc EXCEPT !.trail = Append(@, Event(kind, runs + 1, size, FALSE))]>>]
    /\ UNCHANGED panics

Begin(p) == held[p] = <<>> /\ runs < MaxRuns /\ runs' = runs + 1 /\ UNCHANGED <<file, torn>>

(* TelemetryStore::load_or_create; of a document that does not parse it is *)
(* an error.                                                               *)
Current == IF file = <<>> THEN New(DefaultSize, 0) ELSE file[1]

(* load_runtime_telemetry_store: a hook goes on without the document.      *)
StartHook(p) ==
    /\ Begin(p)
    /\ Hold(p, "hook", 0, IF torn THEN New(DefaultSize, 0) ELSE Current)

(* record_evaluation_for_rule.  The panic is outside catch_unwind and ends *)
(* the hook before it has answered.                                        *)
Evaluate(p, matched) ==
    /\ held[p] # <<>> /\ Last(held[p][1].trail).kind \in {"hook", "evaluation"}
    /\ LET doc == held[p][1]
           run == Last(doc.trail).run
       IN /\ Cardinality({i \in DOMAIN doc.trail : doc.trail[i].run = run}) <= MaxEvaluations
          /\ IF PushPanics(doc)
             THEN held' = [held EXCEPT ![p] = <<>>] /\ panics' = panics \cup {doc}
             ELSE /\ held' = [held EXCEPT ![p] =
                                <<[Push(doc, run) EXCEPT !.matches = @ + (IF matched THEN 1 ELSE 0),
                                                         !.trail = Append(@, Event("evaluation", run, 0, matched))]>>]
                  /\ UNCHANGED panics
    /\ UNCHANGED <<file, torn, runs>>

(* record_activation, record_emergency_bypass                              *)
RecordBypass(p) ==
    /\ ~torn /\ Begin(p)
    /\ Hold(p, "bypass", 0,
            [Current EXCEPT !.bypasses = Append(Newest(@, BypassLimit - 1), runs + 1)])

(* sync_telemetry_best_effort                                              *)
SyncHealth(p) ==
    /\ ~torn /\ Begin(p)
    /\ Hold(p, "health", 0, [Current EXCEPT !.health = runs + 1])

(* icg telemetry reset                                                     *)
Reset(p) ==
    /\ ~torn /\ Begin(p)
    /\ Hold(p, "reset", 0, [Current EXCEPT !.window = <<>>, !.matches = 0, !.bypasses = <<>>])

(* icg telemetry configure: a new document, into which the records, the    *)
(* counters of the rules and the bypasses of the old one are put.          *)
(* Mutant: the bypasses are left behind.                                   *)
RebuiltWithoutBypasses(old, size, run) ==
    [New(size, run) EXCEPT !.window = Newest(old.window, size), !.matches = old.matches, !.trail = old.trail]

Rebuilt(old, size, run) ==
    [New(size, run) EXCEPT !.window = Newest(old.window, size), !.matches = old.matches,
                           !.bypasses = Newest(old.bypasses, BypassLimit), !.trail = old.trail]

(* A size of 0 is refused by a panic, unless there is nothing to push.     *)
(* Where none is given the old one stays (TelemetryNext).                  *)
Configure(p, size) ==
    /\ ~torn /\ Begin(p)
    /\ ~(size = 0 /\ Current.window # <<>>)
    /\ Hold(p, "configure", size, Rebuilt(Current, size, runs + 1))

(* persist                                                                 *)
Save(p) ==
    /\ held[p] # <<>>
    /\ file' = held[p] /\ torn' = FALSE
    /\ held' = [held EXCEPT ![p] = <<>>]
    /\ UNCHANGED <<runs, panics>>

(* The save fails, or the process is killed.                               *)
LeaveUnsaved(p) ==
    /\ held[p] # <<>>
    /\ held' = [held EXCEPT ![p] = <<>>]
    /\ UNCHANGED <<file, torn, runs, panics>>

(* The machine stops before the renamed file is on the disk.               *)
MachineStops ==
    /\ file # <<>> /\ ~torn
    /\ torn' = TRUE
    /\ held' = [p \in Processes |-> <<>>]
    /\ UNCHANGED <<file, runs, panics>>

TelemetryNext ==
    \/ \E p \in Processes :
        \/ StartHook(p) \/ RecordBypass(p) \/ SyncHealth(p) \/ Reset(p)
        \/ \E matched \in BOOLEAN : Evaluate(p, matched)
        \/ \E size \in Sizes \cup {Current.size} : Configure(p, size)
        \/ Save(p)
        \/ LeaveUnsaved(p)
    \/ MachineStops

-----------------------------------------------------------------------------
(* Properties.                                                             *)

(* The places in a trail of a kind of event, and those after the last one  *)
(* of another kind.                                                        *)
Of(trail, kind) == {i \in DOMAIN trail : trail[i].kind = kind}
LastOf(trail, kind) == Max({0} \cup Of(trail, kind))
Since(trail, kind, ended) == {i \in Of(trail, kind) : i > LastOf(trail, ended)}

(* The size that is configured at a place.                                 *)
SizeAt(trail, t) ==
    LET set == {i \in Of(trail, "configure") : i <= t}
    IN IF set = {} THEN DefaultSize ELSE trail[Max(set)].size
SizeOf(trail) == SizeAt(trail, Len(trail))

(* A list tells the newest of some events, the last one at its end.        *)
Tells(list, trail, places) ==
    /\ Len(list) <= Cardinality(places)
    /\ \A i \in places :
         LET later == Cardinality({k \in places : k > i})
         IN later < Len(list) => list[Len(list) - later] = trail[i].run

(* The window forgets an entry only when it is full: it is as long as the  *)
(* smallest size it has had, with what came after that size, allows.       *)
Length(trail) ==
    LET after(t) == Cardinality({i \in Of(trail, "evaluation") : i > t})
        reset == LastOf(trail, "reset")
    IN Min({after(reset)} \cup {SizeAt(trail, t) + after(t) : t \in reset..Len(trail)})

(* What the last of some events was, as a run.                             *)
LastRun(trail, places) == IF places = {} THEN 0 ELSE trail[Max(places)].run

(* Whoever wrote it last, the document says what the runs it descends from *)
(* have done: the window holds their newest evaluations since a reset and  *)
(* drops none that fits; the counters of the rules, the audit of the       *)
(* bypasses and the configuration outlive configure, and the configuration *)
(* and the health copy outlive reset; and the window is as large as the    *)
(* configuration says (telemetry.rs, persist).                             *)
IsItsTrail(doc) ==
    LET evaluations == Since(doc.trail, "evaluation", "reset")
        bypasses == Since(doc.trail, "bypass", "reset")
    IN /\ Tells(doc.window, doc.trail, evaluations) /\ Len(doc.window) = Length(doc.trail)
       /\ doc.matches = Cardinality({i \in evaluations : doc.trail[i].matched})
       /\ Tells(doc.bypasses, doc.trail, bypasses)
       /\ Len(doc.bypasses) = Min({Cardinality(bypasses), BypassLimit})
       /\ doc.settings = LastRun(doc.trail, Of(doc.trail, "configure"))
       /\ doc.health = LastRun(doc.trail, Since(doc.trail, "health", "configure"))
       /\ doc.capacity = SizeOf(doc.trail) /\ doc.size = doc.capacity

(* Telemetry ends a hook only after an operator has configured a window of *)
(* no size (telemetry.rs, EvaluationWindow::push).                         *)
PanicsAreConfigured ==
    \A doc \in panics : \E i \in Of(doc.trail, "configure") : doc.trail[i].size = 0 /\ SizeOf(doc.trail) = 0

TelemetryIsItsTrail ==
    /\ (file # <<>> /\ ~torn) => IsItsTrail(file[1])
    /\ PanicsAreConfigured
=============================================================================
