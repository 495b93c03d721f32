---------------------------- MODULE ReleaseTrust ----------------------------
(***************************************************************************)
(* The trusted release and its automatic rollback (src/src/rollback.rs),   *)
(* over the trust pointer file and the release part of the state store     *)
(* (src/src/state_store.rs).                                               *)
(*                                                                         *)
(* Every guarded invocation loads the pointer, notes it in the state store *)
(* (which keeps the reference before it), counts its evaluation for that   *)
(* release, and then runs check_and_rollback, which reads the pointer and  *)
(* the store again and again and finally writes three things: the pointer, *)
(* its note, and the rollback count.  A store update is atomic, under the  *)
(* store's lock; nothing spans two of them, the pointer file has no lock   *)
(* at all, and an operator moves the pointer whenever he likes.            *)
(*                                                                         *)
(* A pointer gets its time when it is made (TrustPointer::new), not when   *)
(* it is written: whoever is held up between the two writes a pointer that *)
(* claims an earlier adoption than one already written.                    *)
(*                                                                         *)
(* Deny counts are abstracted to the releases whose deny rate spikes, and  *)
(* wall-clock time to the number of pointers made, which is all that the   *)
(* comparison of first_seen_at with updated_at tells apart.                *)
(***************************************************************************)
EXTENDS Integers, FiniteSets, SequencesExt

CONSTANTS
    Releases,   \* release references
    NoRelease,  \* no pointer, no note, no previous reference
    Hooks,      \* guarded invocations that run at the same time
    Spiking,    \* releases with a concerning deny rate
    MinCurrent, \* minimum_current_evaluations
    MaxCurrent, \* max_current_evaluations, the early observation window
    MinPrior,   \* minimum_baseline_releases
    MaxRecords, \* max_release_telemetry
    MaxSets,    \* bound: `icg trust set` commands
    MaxClock    \* bound: pointers made

ASSUME HookAssumption == IsFiniteSet(Hooks)
ASSUME ReleaseAssumption ==
    /\ NoRelease \notin Releases
    /\ Spiking \subseteq Releases
ASSUME LimitAssumption ==
    /\ MinCurrent \in Nat /\ MaxCurrent \in Nat /\ MinPrior \in Nat
    /\ MaxRecords \in Nat \ {0}
    /\ MaxSets \in Nat /\ MaxClock \in Nat

VARIABLES
    pointer,       \* the trust pointer file: a release and when it was adopted
    clock,         \* the time: pointers made so far
    note,          \* TrustPointerState in the state store
    records,       \* release_telemetry, the least recently seen record first
    rollbackCount, \* RollbackState::rollback_count
    cooling,       \* the last recorded rollback is younger than the cooldown
    pc,            \* where each invocation is
    mine,          \* the release it loaded at its start and evaluates for
    judged,        \* the pointer its check_and_rollback loaded, and the evidence
    target,        \* the previous reference it read, then the pointer it made of it
    admin,         \* where `icg trust set` is, and the pointer it made or loaded back
    sets,          \* `icg trust set` commands so far
    before,        \* history: the release the pointer named before this one
    latest,        \* history: the latest adoption time written
    late,          \* history: those written after a later one
    disturbed,     \* history: a note was stale, failed, or came too late
    moves,         \* history: automatic moves of the pointer
    unrecorded,    \* history: those of invocations that ended too early
    convictions,   \* history: adoption and evidence of each release moved away from
    condemned      \* history: the releases among them no operator trusted again

store == <<note, records, rollbackCount, cooling>>
hook == <<pc, mine, judged, target>>
operator == <<admin, sets>>
history == <<before, latest, late, disturbed, moves, unrecorded, convictions, condemned>>
vars == <<pointer, clock, store, hook, operator, history>>

Known == Releases \cup {NoRelease}
Pointers == [ref : Known, at : Nat]
Judged == [ref : Known, at : Nat, first : Nat]
Records == [ref : Releases, first : Nat, count : Nat]
Places == {"idle", "loaded", "noted", "counted", "judging", "deviating", "fresh",
           "cool", "aiming", "stamped", "moved", "written"}
AdminPlaces == {"idle", "stamped", "set", "loaded"}

TypeOK ==
    /\ pointer \in Pointers /\ clock \in Nat
    /\ note \in [ref : Known, previous : Known]
    /\ note.ref # NoRelease => note.previous # note.ref
    /\ records \in Seq(Records) /\ Len(records) <= MaxRecords
    /\ \A i, j \in DOMAIN records : records[i].ref = records[j].ref => i = j
    /\ rollbackCount \in Nat /\ cooling \in BOOLEAN
    /\ pc \in [Hooks -> Places]
    /\ mine \in [Hooks -> Known]
    /\ judged \in [Hooks -> Judged]
    /\ target \in [Hooks -> Pointers]
    /\ admin \in [place : AdminPlaces, pointer : Pointers]
    /\ sets \in 0 .. MaxSets
    /\ before \in Known /\ disturbed \in BOOLEAN
    /\ latest \in Nat /\ late \in SUBSET Nat
    /\ moves \in Nat /\ unrecorded \in Nat
    /\ convictions \in [Releases -> SUBSET (Nat \X Nat)]
    /\ condemned \in SUBSET Releases

NotJudged == [ref |-> NoRelease, at |-> 0, first |-> 0]
NoPointer == [ref |-> NoRelease, at |-> 0]

Init ==
    /\ pointer \in [ref : Known, at : {0}]
    /\ clock = 0
    /\ note = [ref |-> NoRelease, previous |-> NoRelease]
    /\ records = <<>>
    /\ rollbackCount = 0 /\ cooling = FALSE
    /\ pc = [h \in Hooks |-> "idle"]
    /\ mine = [h \in Hooks |-> NoRelease]
    /\ judged = [h \in Hooks |-> NotJudged]
    /\ target = [h \in Hooks |-> NoPointer]
    /\ admin = [place |-> "idle", pointer |-> NoPointer]
    /\ sets = 0
    /\ before = NoRelease /\ disturbed = FALSE
    /\ latest = 0 /\ late = {}
    /\ moves = 0 /\ unrecorded = 0
    /\ convictions = [r \in Releases |-> {}] /\ condemned = {}

-----------------------------------------------------------------------------
(* Mutant: a repeated note makes the release its own predecessor.          *)
NotedAgain(n, r) == [ref |-> r, previous |-> n.ref]

(* Mutant: a repeated note forgets the previous reference.                 *)
NotedAfresh(n, r) ==
    [ref |-> r, previous |-> IF n.ref = r THEN NoRelease ELSE n.ref]

(* SessionState::set_trust_pointer: the previous reference survives a note *)
(* of the same release.                                                    *)
Noted(n, r) ==
    [ref |-> r, previous |-> IF n.ref = r THEN n.previous ELSE n.ref]

(* TrustPointer::new: a pointer carries the time at which it was made.     *)
Stamped(r) == [ref |-> r, at |-> clock + 1]

Tick == clock < MaxClock /\ clock' = clock + 1

(* TrustPointerStore::save writes the pointer it is given over whatever is *)
(* there.  Adopting another release makes the present one its predecessor; *)
(* it should have been noted by now.                                       *)
Adopt(p) ==
    /\ pointer' = p
    /\ latest' = IF p.at > latest THEN p.at ELSE latest
    /\ late' = IF p.at < latest THEN late \cup {p.at} ELSE late
    /\ IF p.ref = pointer.ref THEN UNCHANGED <<before, disturbed>>
       ELSE /\ before' = pointer.ref
            /\ disturbed' = (disturbed \/ note.ref # pointer.ref)

(* record_trust_pointer_observation: a failure is only reported.           *)
Note(r) ==
    \/ /\ note' = Noted(note, r)
       /\ disturbed' = (disturbed \/ r # pointer.ref)
    \/ UNCHANGED <<note, disturbed>>

Observed == {records[i].ref : i \in DOMAIN records}
IndexOf(r) == CHOOSE i \in DOMAIN records : records[i].ref = r
RecordOf(r) == records[IndexOf(r)]
Others(r) == IF r \in Observed THEN RemoveAt(records, IndexOf(r)) ELSE records

Newest(s) == IF Len(s) > MaxRecords THEN Tail(s) ELSE s

(* StateStore::record_release_evaluation; a count past the window says     *)
(* nothing more.                                                           *)
Evaluated(r) ==
    LET old == IF r \in Observed THEN RecordOf(r)
               ELSE [ref |-> r, first |-> clock, count |-> 0]
        count == IF old.count > MaxCurrent THEN old.count ELSE old.count + 1
    IN  Newest(Append(Others(r), [old EXCEPT !.count = count]))

(* DenyRateDeviation::is_concerning and the early observation window.      *)
Concerning(r) ==
    /\ r \in Spiking
    /\ RecordOf(r).count >= MinCurrent
    /\ RecordOf(r).count <= MaxCurrent
    /\ Len(records) > MinPrior

-----------------------------------------------------------------------------
(* A guarded invocation: the hook or the wrapper loads the pointer, notes  *)
(* it and counts its evaluation.  Without a pointer it does neither, and   *)
(* its check returns at once.                                              *)

Goto(h, place) == pc' = [pc EXCEPT ![h] = place]

(* The invocation ends, and what it read is forgotten.                     *)
Leave(h) ==
    /\ Goto(h, "idle")
    /\ mine' = [mine EXCEPT ![h] = NoRelease]
    /\ judged' = [judged EXCEPT ![h] = NotJudged]
    /\ target' = [target EXCEPT ![h] = NoPointer]

Load(h) ==
    /\ pc[h] = "idle"
    /\ pointer.ref # NoRelease
    /\ mine' = [mine EXCEPT ![h] = pointer.ref]
    /\ Goto(h, "loaded")
    /\ UNCHANGED <<pointer, clock, store, judged, target, operator, history>>

RecordObservation(h) ==
    /\ pc[h] = "loaded"
    /\ Note(mine[h])
    /\ Goto(h, "noted")
    /\ UNCHANGED <<pointer, clock, records, rollbackCount, cooling, mine, judged,
                   target, operator, before, latest, late, moves, unrecorded,
                   convictions, condemned>>

RecordEvaluation(h) ==
    /\ pc[h] = "noted"
    /\ records' = Evaluated(mine[h]) \/ UNCHANGED records
    /\ mine' = [mine EXCEPT ![h] = NoRelease]
    /\ Goto(h, "counted")
    /\ UNCHANGED <<pointer, clock, note, rollbackCount, cooling, judged, target,
                   operator, history>>

-----------------------------------------------------------------------------
(* check_and_rollback.                                                     *)

ReadPointer(h) ==
    /\ pc[h] = "counted"
    /\ judged' = [judged EXCEPT ![h] = [ref |-> pointer.ref, at |-> pointer.at, first |-> 0]]
    /\ Goto(h, "judging")
    /\ UNCHANGED <<pointer, clock, store, mine, target, operator, history>>

ReadDeviation(h) ==
    /\ pc[h] = "judging"
    /\ IF judged[h].ref \in Observed /\ Concerning(judged[h].ref)
       THEN Goto(h, "deviating") /\ UNCHANGED <<mine, judged, target>>
       ELSE Leave(h)
    /\ UNCHANGED <<pointer, clock, store, operator, history>>

(* Mutant: any retained record of the release is evidence against it.      *)
IsFreshAlways(p) == p.ref \in Observed

IsFresh(p) == p.ref \in Observed /\ RecordOf(p.ref).first >= p.at

ReadFreshness(h) ==
    /\ pc[h] = "deviating"
    /\ IF IsFresh(judged[h])
       THEN /\ Goto(h, "fresh")
            /\ judged' = [judged EXCEPT ![h].first = RecordOf(judged[h].ref).first]
            /\ UNCHANGED <<mine, target>>
       ELSE Leave(h)
    /\ UNCHANGED <<pointer, clock, store, operator, history>>

ReadCooldown(h) ==
    /\ pc[h] = "fresh"
    /\ IF cooling THEN Leave(h)
       ELSE Goto(h, "cool") /\ UNCHANGED <<mine, judged, target>>
    /\ UNCHANGED <<pointer, clock, store, operator, history>>

(* Mutant: the rollback is recorded before the pointer is written.         *)
ReadPreviousAndRecord(h) ==
    /\ pc[h] = "cool"
    /\ IF note.previous \in {NoRelease, judged[h].ref}
       THEN Leave(h) /\ UNCHANGED <<rollbackCount, cooling>>
       ELSE /\ target' = [target EXCEPT ![h].ref = note.previous]
            /\ Goto(h, "aiming")
            /\ rollbackCount' = rollbackCount + 1 /\ cooling' = TRUE
            /\ UNCHANGED <<mine, judged>>
    /\ UNCHANGED <<pointer, clock, note, records, operator, history>>

(* No previous reference, or the judged release itself, is an error.       *)
ReadPrevious(h) ==
    /\ pc[h] = "cool"
    /\ IF note.previous \in {NoRelease, judged[h].ref} THEN Leave(h)
       ELSE /\ target' = [target EXCEPT ![h].ref = note.previous]
            /\ Goto(h, "aiming")
            /\ UNCHANGED <<mine, judged>>
    /\ UNCHANGED <<pointer, clock, store, operator, history>>

(* TrustPointer::with_justification.                                       *)
MakePointer(h) ==
    /\ pc[h] = "aiming"
    /\ Tick
    /\ target' = [target EXCEPT ![h] = Stamped(target[h].ref)]
    /\ Goto(h, "stamped")
    /\ UNCHANGED <<pointer, store, mine, judged, operator, history>>

MovePointer(h) ==
    /\ pc[h] = "stamped"
    /\ Adopt(target[h])
    /\ moves' = moves + 1
    /\ IF pointer = [ref |-> judged[h].ref, at |-> judged[h].at]
       THEN /\ convictions' = [convictions EXCEPT ![pointer.ref] =
                                 @ \cup {<<pointer.at, judged[h].first>>}]
            /\ condemned' = condemned \cup {pointer.ref}
       ELSE UNCHANGED <<convictions, condemned>>
    /\ Goto(h, "moved")
    /\ judged' = [judged EXCEPT ![h] = NotJudged]
    /\ UNCHANGED <<clock, store, mine, target, operator, unrecorded>>

NoteMove(h) ==
    /\ pc[h] = "moved"
    /\ note' = Noted(note, target[h].ref)
    /\ disturbed' = (disturbed \/ target[h].ref # pointer.ref)
    /\ Goto(h, "written")
    /\ target' = [target EXCEPT ![h] = NoPointer]
    /\ UNCHANGED <<pointer, clock, records, rollbackCount, cooling, mine, judged,
                   operator, before, latest, late, moves, unrecorded,
                   convictions, condemned>>

RecordRollback(h) ==
    /\ pc[h] = "written"
    /\ rollbackCount' = rollbackCount + 1
    /\ cooling' = TRUE
    /\ Leave(h)
    /\ UNCHANGED <<pointer, clock, note, records, operator, history>>

(* The process is killed, or a write it cannot do without is refused.      *)
Fail(h) ==
    /\ pc[h] # "idle"
    /\ Leave(h)
    /\ unrecorded' = IF pc[h] \in {"moved", "written"} THEN unrecorded + 1
                     ELSE unrecorded
    /\ UNCHANGED <<pointer, clock, store, operator, before, latest, late, disturbed,
                   moves, convictions, condemned>>

CooldownElapses ==
    /\ cooling
    /\ cooling' = FALSE
    /\ UNCHANGED <<pointer, clock, note, records, rollbackCount, hook, operator,
                   history>>

-----------------------------------------------------------------------------
(* `icg trust set`: a pointer is made, written, loaded back and noted.     *)

OperatorGoto(place, p) == admin' = [place |-> place, pointer |-> p]

SetTrusted(r) ==
    /\ admin.place = "idle"
    /\ sets < MaxSets
    /\ sets' = sets + 1
    /\ Tick
    /\ OperatorGoto("stamped", Stamped(r))
    /\ UNCHANGED <<pointer, store, hook, history>>

SaveTrusted ==
    /\ admin.place = "stamped"
    /\ Adopt(admin.pointer)
    /\ condemned' = condemned \ {admin.pointer.ref}
    /\ OperatorGoto("set", NoPointer)
    /\ UNCHANGED <<clock, store, hook, sets, moves, unrecorded, convictions>>

LoadBack ==
    /\ admin.place = "set"
    /\ OperatorGoto("loaded", pointer)
    /\ UNCHANGED <<pointer, clock, store, hook, sets, history>>

NoteSet ==
    /\ admin.place = "loaded"
    /\ Note(admin.pointer.ref)
    /\ OperatorGoto("idle", NoPointer)
    /\ UNCHANGED <<pointer, clock, records, rollbackCount, cooling, hook, sets,
                   before, latest, late, moves, unrecorded, convictions,
                   condemned>>

HookStep(h) ==
    \/ Load(h) \/ RecordObservation(h) \/ RecordEvaluation(h)
    \/ ReadPointer(h) \/ ReadDeviation(h) \/ ReadFreshness(h) \/ ReadCooldown(h)
    \/ ReadPrevious(h) \/ MakePointer(h) \/ MovePointer(h) \/ NoteMove(h)
    \/ RecordRollback(h) \/ Fail(h)

Next ==
    \/ \E h \in Hooks : HookStep(h)
    \/ \E r \in Releases : SetTrusted(r)
    \/ SaveTrusted \/ LoadBack \/ NoteSet \/ CooldownElapses

Spec == Init /\ [][Next]_vars

-----------------------------------------------------------------------------
InFlight == {h \in Hooks : pc[h] \in {"moved", "written"}}

(* Every automatic move of the pointer is counted once, by the invocation  *)
(* that made it, unless that invocation ends between the two writes; and   *)
(* no rollback is counted that did not move the pointer.                   *)
RollbacksAreAccounted ==
    rollbackCount + Cardinality(InFlight) + unrecorded = moves

(* As long as every note is taken in time, the store knows the exact       *)
(* predecessor of the pointer: notes repeated by every invocation, of the  *)
(* same release, never lose it.                                            *)
PreviousIsExact ==
    ~disturbed => IF note.ref = pointer.ref THEN note.previous = before
                  ELSE note.ref = before

(* The observation of a release convicts it once: after it was moved away  *)
(* from and trusted again, by the next rollback or by an operator, what    *)
(* was seen of it before does not move the pointer again (release_is_fresh *)
(* compares the two times).  The exception is an adoption whose pointer    *)
(* was made before, and written after, a later one: its time can be older  *)
(* than the evidence on which its release has just been moved away from.   *)
ConvictedOnce ==
    \A r \in Releases : \A c, d \in convictions[r] :
        c[2] = d[2] /\ c # d => c[1] \in late \/ d[1] \in late

-----------------------------------------------------------------------------
Moves(h) == pc[h] = "stamped" /\ pc'[h] = "moved"

(* src/src/rollback.rs:5-6: the reaction "moves the trust pointer back to  *)
(* the exact previous reference".                                          *)
MovesToPrevious == [][\A h \in Hooks : Moves(h) => pointer'.ref = before]_vars

(* src/src/rollback.rs:247: the release rolled back "must not be promoted  *)
(* until investigated"; only an operator can have investigated it.         *)
CondemnedStaysOut ==
    [][\A h \in Hooks : Moves(h) => pointer'.ref \notin condemned]_vars
=============================================================================
