----------------------- MODULE FailClosedPolicyProofs -----------------------
(***************************************************************************)
(* FailClosedPolicy for every set of releases, every threshold, every      *)
(* retention limit and any number of rollbacks and crashes.                *)
(*                                                                         *)
(* The methods of PolicyState are functions, so most of the work is done   *)
(* once per method: GoodPolicy(p) collects what holds of every policy that *)
(* is ever saved, and each method is shown to return a good policy.  The   *)
(* steps then only say which method they commit.                           *)
(***************************************************************************)
EXTENDS FailClosedPolicy, SequenceTheorems, FiniteSetTheorems, TLAPS

Distinct(s) == \A i, j \in DOMAIN s : s[i] = s[j] => i = j

Numbered(events, generation) ==
    /\ Len(events) <= MaxEvents
    /\ events = <<>> => generation = 0
    /\ \A i \in DOMAIN events :
          events[i].generation + Len(events) = generation + i

(* A consumed rollback is never ahead of the count consumed so far.        *)
PoisonBehind(p) ==
    \A n \in Nat : p.poison = <<"rollback", n>> => n <= p.seenRollbacks

(* What a method has to establish before it appends its event ...          *)
Draft(p) ==
    /\ p \in PolicyState
    /\ Distinct(p.counted)
    /\ Len(p.counted) = IF p.streak <= MaxCounted THEN p.streak ELSE MaxCounted
    /\ p.mode = "fail_open" => p.streak < p.threshold
    /\ Numbered(p.events, p.generation)
    /\ PoisonBehind(p)

(* ... and what the event then says of the state it describes.             *)
Describes(event, p) ==
    /\ event.mode = p.mode
    /\ event.streak = p.streak
    /\ event.threshold = p.threshold
    /\ event.type = "graduated" => p.streak = p.threshold
    /\ p.mode = "fail_open" /\ event.type = "invalidated" => p.streak = 0

GoodPolicy(p) == Draft(p) /\ (p.events # <<>> => Describes(LastEvent(p), p))

-----------------------------------------------------------------------------
(* A bounded tail: its newest element is the one appended, and the others  *)
(* are those of the old tail, shifted by one when the oldest was dropped.  *)
LEMMA NewestAppend ==
    ASSUME NEW S, NEW s \in Seq(S), NEW e \in S, NEW limit \in Nat \ {0},
           Len(s) <= limit
    PROVE  LET t == Newest(Append(s, e), limit)
           IN  /\ t \in Seq(S)
               /\ Len(t) = IF Len(s) = limit THEN limit ELSE Len(s) + 1
               /\ t[Len(t)] = e
               /\ \A i \in 1 .. (Len(t) - 1) : t[i] = s[i + (Len(s) + 1 - Len(t))]
<1> DEFINE longer == Append(s, e)
           t == Newest(longer, limit)
<1>1. /\ longer \in Seq(S) /\ longer # <<>> /\ Len(longer) = Len(s) + 1
      /\ longer[Len(s) + 1] = e
      /\ \A i \in 1 .. Len(s) : longer[i] = s[i]
  BY AppendProperties
<1>2. /\ Tail(longer) \in Seq(S) /\ Len(Tail(longer)) = Len(longer) - 1
      /\ \A i \in 1 .. (Len(longer) - 1) : Tail(longer)[i] = longer[i + 1]
  BY <1>1, HeadTailProperties
<1>3. Len(s) \in Nat
  BY LenProperties
<1>4. t = IF Len(longer) > limit THEN Tail(longer) ELSE longer
  BY DEF Newest
<1> HIDE DEF longer
<1>5. CASE Len(s) = limit
  <2>1. t = Tail(longer)
    BY <1>1, <1>3, <1>4, <1>5
  <2>2. Len(t) = Len(s) /\ Len(s) # 0 /\ t \in Seq(S)
    BY <2>1, <1>1, <1>2, <1>3, <1>5
  <2>3. t[Len(t)] = e
    BY <2>1, <2>2, <1>1, <1>2, <1>3
  <2>4. \A i \in 1 .. (Len(t) - 1) : t[i] = s[i + (Len(s) + 1 - Len(t))]
    BY <2>1, <2>2, <1>1, <1>2, <1>3
  <2> QED
    BY <2>2, <2>3, <2>4, <1>5 DEF longer
<1>6. CASE Len(s) # limit
  <2>1. t = longer
    BY <1>1, <1>3, <1>4, <1>6
  <2> HIDE DEF t
  <2>2. t \in Seq(S) /\ Len(t) = Len(s) + 1 /\ t[Len(t)] = e
    BY <2>1, <1>1, <1>3
  <2>3. \A i \in 1 .. (Len(t) - 1) : t[i] = s[i + (Len(s) + 1 - Len(t))]
    BY <2>1, <2>2, <1>1, <1>3
  <2> QED
    BY <2>2, <2>3, <1>6 DEF t, longer
<1> QED
  BY <1>5, <1>6

(* The index of the old tail that an index of the new one comes from.      *)
LEMMA ShiftedIndex ==
    ASSUME NEW i \in Nat, NEW new \in Nat, NEW old \in Nat,
           1 <= i, i < new, new = old \/ new = old + 1
    PROVE  /\ i + (old + 1 - new) \in 1 .. old
           /\ \A g, k \in Nat : k + old = g + (i + (old + 1 - new)) =>
                                 k + new = (g + 1) + i
OBVIOUS

(* Appending the next generation to a bounded tail keeps it gapless.       *)
LEMMA NumberedNext ==
    ASSUME NEW events \in Seq(Events), NEW generation \in Nat,
           Numbered(events, generation),
           NEW event \in Events, event.generation = generation + 1
    PROVE  LET tail == Newest(Append(events, event), MaxEvents)
           IN  /\ tail \in Seq(Events) /\ tail # <<>> /\ tail[Len(tail)] = event
               /\ Numbered(tail, generation + 1)
<1> DEFINE tail == Newest(Append(events, event), MaxEvents)
           old == Len(events)
           new == Len(tail)
<1>1. old <= MaxEvents /\ MaxEvents \in Nat \ {0} /\ old \in Nat
  BY LimitAssumption, LenProperties DEF Numbered
<1>2. /\ tail \in Seq(Events)
      /\ new = IF old = MaxEvents THEN MaxEvents ELSE old + 1
      /\ tail[new] = event
      /\ \A i \in 1 .. (new - 1) : tail[i] = events[i + (old + 1 - new)]
  BY <1>1, NewestAppend
<1> HIDE DEF tail
<1>3. DOMAIN events = 1 .. old /\ DOMAIN tail = 1 .. new
  BY <1>2, LenProperties
<1>4. tail # <<>>
  BY <1>1, <1>2
<1> HIDE DEF old, new
<1>5. new \in Nat \ {0} /\ new <= MaxEvents /\ (new = old \/ new = old + 1)
  BY <1>1, <1>2
<1>6. \A i \in 1 .. old : /\ events[i].generation + old = generation + i
                           /\ events[i].generation \in Nat
  <2>1. \A i \in 1 .. old : events[i].generation + old = generation + i
    BY <1>3 DEF Numbered, old
  <2>2. \A i \in 1 .. old : events[i] \in Events
    BY <1>3, ElementOfSeq DEF old
  <2> QED
    BY <2>1, <2>2 DEF Events
<1>7. ASSUME NEW i \in 1 .. new
      PROVE  tail[i].generation + new = (generation + 1) + i
  <2>1. CASE i = new
    BY <2>1, <1>2, <1>5
  <2>2. CASE i # new
    <3> DEFINE j == i + (old + 1 - new)
    <3>1. /\ j \in 1 .. old
          /\ \A g, k \in Nat : k + old = g + j => k + new = (g + 1) + i
      BY <2>2, <1>1, <1>5, ShiftedIndex
    <3>2. tail[i] = events[j]
      BY <2>2, <1>2, <1>5
    <3> HIDE DEF j
    <3> QED
      BY <3>1, <3>2, <1>6
  <2> QED
    BY <2>1, <2>2
<1>8. Numbered(tail, generation + 1)
  BY <1>3, <1>4, <1>5, <1>7 DEF Numbered, new
<1> QED
  BY <1>2, <1>4, <1>8 DEF tail, new

(* Replacing one field by a value of its type keeps a PolicyState one.     *)
LEMMA FieldUpdate ==
    ASSUME NEW p \in PolicyState
    PROVE  /\ \A v \in Nat : [p EXCEPT !.generation = v] \in PolicyState
           /\ \A v \in Modes : [p EXCEPT !.mode = v] \in PolicyState
           /\ \A v \in Nat \ {0} : [p EXCEPT !.threshold = v] \in PolicyState
           /\ \A v \in Nat : [p EXCEPT !.streak = v] \in PolicyState
           /\ \A v \in Seq(Releases) : [p EXCEPT !.counted = v] \in PolicyState
           /\ \A v \in PoisonRefs : [p EXCEPT !.poison = v] \in PolicyState
           /\ \A v \in Nat : [p EXCEPT !.seenRollbacks = v] \in PolicyState
           /\ \A v \in Nat : [p EXCEPT !.seenCrashes = v] \in PolicyState
           /\ \A v \in Seq(Events) : [p EXCEPT !.events = v] \in PolicyState
<1>1. \A v \in Nat : [p EXCEPT !.generation = v] \in PolicyState
  BY DEF PolicyState
<1>2. \A v \in Modes : [p EXCEPT !.mode = v] \in PolicyState
  BY DEF PolicyState
<1>3. \A v \in Nat \ {0} : [p EXCEPT !.threshold = v] \in PolicyState
  BY DEF PolicyState
<1>4. \A v \in Nat : [p EXCEPT !.streak = v] \in PolicyState
  BY DEF PolicyState
<1>5. \A v \in Seq(Releases) : [p EXCEPT !.counted = v] \in PolicyState
  BY DEF PolicyState
<1>6. \A v \in PoisonRefs : [p EXCEPT !.poison = v] \in PolicyState
  BY DEF PolicyState
<1>7. \A v \in Nat : [p EXCEPT !.seenRollbacks = v] \in PolicyState
  BY DEF PolicyState
<1>8. \A v \in Nat : [p EXCEPT !.seenCrashes = v] \in PolicyState
  BY DEF PolicyState
<1>9. \A v \in Seq(Events) : [p EXCEPT !.events = v] \in PolicyState
  BY DEF PolicyState
<1> QED
  BY <1>1, <1>2, <1>3, <1>4, <1>5, <1>6, <1>7, <1>8, <1>9

(* PolicyState::transition turns a draft that its event describes into a   *)
(* good policy, and changes nothing but the generation and the events.     *)
LEMMA TransitionEffect ==
    ASSUME NEW p, Draft(p),
           NEW type \in EventTypes, NEW about \in Reasons \cup PoisonRefs,
           type = "graduated" => p.streak = p.threshold,
           p.mode = "fail_open" /\ type = "invalidated" => p.streak = 0
    PROVE  LET q == Transition(p, type, about)
           IN  /\ GoodPolicy(q)
               /\ q.mode = p.mode /\ q.streak = p.streak
               /\ q.counted = p.counted /\ q.threshold = p.threshold
               /\ q.poison = p.poison /\ q.seenRollbacks = p.seenRollbacks
<1> DEFINE event == [type |-> type, about |-> about, generation |-> p.generation + 1,
                     mode |-> p.mode, streak |-> p.streak, threshold |-> p.threshold]
           tail == Newest(Append(p.events, event), MaxEvents)
           next == [p EXCEPT !.generation = p.generation + 1]
           q == Transition(p, type, about)
<1>1. p \in PolicyState /\ Numbered(p.events, p.generation)
  BY DEF Draft
<1>2. /\ p.events \in Seq(Events) /\ p.generation \in Nat /\ p.mode \in Modes
      /\ p.streak \in Nat /\ p.threshold \in Nat \ {0}
  BY <1>1 DEF PolicyState
<1>3. event \in Events
  BY <1>2 DEF Events
<1>4. event.generation = p.generation + 1 /\ event.type = type
      /\ Describes(event, p)
  BY DEF Describes
<1>5. q = [p EXCEPT !.generation = p.generation + 1, !.events = tail]
  BY DEF Transition
<1>6. /\ tail \in Seq(Events) /\ tail # <<>> /\ tail[Len(tail)] = event
      /\ Numbered(tail, p.generation + 1)
  BY <1>1, <1>2, <1>3, <1>4, NumberedNext
<1> HIDE DEF event, tail
<1>7. q = [next EXCEPT !.events = tail]
  BY <1>1, <1>5
<1>8. next \in PolicyState
  <2>1. p.generation + 1 \in Nat
    BY <1>2
  <2>2. \A v \in Nat : [p EXCEPT !.generation = v] \in PolicyState
    BY <1>1, FieldUpdate
  <2> QED
    BY <2>1, <2>2, Zenon
<1>9. q \in PolicyState
  <2> HIDE DEF next
  <2> QED
    BY <1>6, <1>7, <1>8, FieldUpdate
<1>10. /\ q.events = tail /\ q.generation = p.generation + 1
       /\ q.mode = p.mode /\ q.streak = p.streak
       /\ q.counted = p.counted /\ q.threshold = p.threshold
       /\ q.poison = p.poison /\ q.seenRollbacks = p.seenRollbacks
  BY <1>1, <1>5 DEF PolicyState
<1> HIDE DEF q
<1>11. Draft(q)
  BY <1>6, <1>9, <1>10 DEF Draft, PoisonBehind
<1>12. Describes(LastEvent(q), q)
  BY <1>4, <1>6, <1>10 DEF Describes, LastEvent
<1> QED
  BY <1>10, <1>11, <1>12 DEF GoodPolicy, q

-----------------------------------------------------------------------------
(* One lemma per method of PolicyState: called on a good policy it returns *)
(* a good policy, it leaves a closed one closed, and it neither keeps a    *)
(* counted release across a newly consumed rollback nor adds one.          *)

StaysAsClosed(p, q) ==
    p.mode = "fail_closed" =>
        /\ q.mode = "fail_closed" /\ q.streak = p.streak
        /\ q.counted = p.counted /\ q.threshold = p.threshold

Carried(p, q) ==
    \/ q.mode = "fail_closed"
    \/ q.counted = <<>>
    \/ /\ p.mode = "fail_open"
       /\ q.counted = p.counted /\ q.seenRollbacks = p.seenRollbacks

(* Forgetting the streak and the counted releases.                         *)
LEMMA EmptyDraft ==
    ASSUME NEW p, Draft(p), NEW q \in PolicyState,
           q.streak = 0, q.counted = <<>>,
           q.generation = p.generation, q.events = p.events,
           q.poison = p.poison, q.seenRollbacks = p.seenRollbacks
    PROVE  Draft(q)
<1>1. q.threshold \in Nat \ {0}
  BY DEF PolicyState
<1>2. Distinct(q.counted) /\ Len(q.counted) = 0
  BY DEF Distinct
<1>3. Numbered(q.events, q.generation) /\ PoisonBehind(q)
  BY DEF Draft, PoisonBehind
<1> QED
  BY <1>1, <1>2, <1>3, LimitAssumption DEF Draft

LEMMA RequalifyEffect ==
    ASSUME NEW p, Draft(p)
    PROVE  LET q == Requalify(p)
           IN  /\ Draft(q)
               /\ q.mode = p.mode /\ q.threshold = p.threshold
               /\ q.generation = p.generation /\ q.events = p.events
               /\ q.poison = p.poison /\ q.seenRollbacks = p.seenRollbacks
               /\ p.mode = "fail_closed" => q = p
               /\ p.mode = "fail_open" => q.streak = 0 /\ q.counted = <<>>
<1> DEFINE q == Requalify(p)
<1>1. p \in PolicyState /\ p.mode \in Modes
  BY DEF Draft, PolicyState
<1>2. CASE p.mode = "fail_closed"
  BY <1>2 DEF Requalify
<1>3. CASE p.mode = "fail_open"
  <2> DEFINE fresh == [p EXCEPT !.streak = 0]
  <2>1. q = [p EXCEPT !.streak = 0, !.counted = <<>>]
    BY <1>3 DEF Requalify
  <2>2. q = [fresh EXCEPT !.counted = <<>>]
    BY <1>1, <2>1
  <2>3. fresh \in PolicyState
    BY <1>1, FieldUpdate
  <2>4. q \in PolicyState
    <3>1. \A v \in Seq(Releases) : [fresh EXCEPT !.counted = v] \in PolicyState
      BY <2>3, FieldUpdate
    <3>2. <<>> \in Seq(Releases)
      OBVIOUS
    <3> QED
      BY <2>2, <3>1, <3>2, Zenon
  <2>5. /\ q.streak = 0 /\ q.counted = <<>>
        /\ q.mode = p.mode /\ q.threshold = p.threshold
        /\ q.generation = p.generation /\ q.events = p.events
        /\ q.poison = p.poison /\ q.seenRollbacks = p.seenRollbacks
    BY <1>1, <2>1 DEF PolicyState
  <2> HIDE DEF q
  <2>6. Draft(q)
    BY <2>4, <2>5, EmptyDraft
  <2> QED
    BY <1>3, <2>5, <2>6 DEF q
<1> QED
  BY <1>1, <1>2, <1>3 DEF Modes
LEMMA PoisonPillEffect ==
    ASSUME NEW p, GoodPolicy(p), NEW ref \in PoisonRefs,
           \A n \in Nat : ref = <<"rollback", n>> => n <= p.seenRollbacks
    PROVE  LET q == RecordPoisonPill(p, ref)
           IN  /\ GoodPolicy(q)
               /\ StaysAsClosed(p, q)
               /\ q.seenRollbacks = p.seenRollbacks
               /\ q.mode = "fail_open" => p.mode = "fail_open"
               /\ \/ p.poison = ref /\ q = p
                  \/ q.mode = "fail_closed"
                  \/ q.counted = <<>>
<1> DEFINE q == RecordPoisonPill(p, ref)
           marked == [p EXCEPT !.poison = ref]
           reset == Requalify(marked)
<1>1. p \in PolicyState /\ Draft(p) /\ p.mode \in Modes
  BY DEF GoodPolicy, Draft, PolicyState
<1>2. CASE p.poison = ref
  BY <1>2, <1>1 DEF RecordPoisonPill, StaysAsClosed
<1>3. CASE p.poison # ref
  <2>1. q = Transition(reset, "poison_pill", ref)
    BY <1>3 DEF RecordPoisonPill
  <2>2. marked \in PolicyState
    BY <1>1, FieldUpdate
  <2>3. /\ marked.poison = ref /\ marked.counted = p.counted
        /\ marked.streak = p.streak /\ marked.threshold = p.threshold
        /\ marked.mode = p.mode /\ marked.seenRollbacks = p.seenRollbacks
        /\ marked.events = p.events /\ marked.generation = p.generation
    BY <1>1 DEF PolicyState
  <2> HIDE DEF marked
  <2>4. Draft(marked)
    BY <1>1, <2>2, <2>3 DEF Draft, PoisonBehind
  <2>5. /\ Draft(reset)
        /\ reset.mode = p.mode /\ reset.threshold = p.threshold
        /\ reset.seenRollbacks = p.seenRollbacks
        /\ p.mode = "fail_closed" => reset = marked
        /\ p.mode = "fail_open" => reset.counted = <<>>
    BY <2>3, <2>4, RequalifyEffect
  <2> HIDE DEF reset
  <2>6. /\ GoodPolicy(q)
        /\ q.mode = reset.mode /\ q.streak = reset.streak
        /\ q.counted = reset.counted /\ q.threshold = reset.threshold
        /\ q.seenRollbacks = reset.seenRollbacks
    BY <2>1, <2>5, TransitionEffect DEF EventTypes
  <2> HIDE DEF q
  <2> QED
    BY <1>1, <2>3, <2>5, <2>6 DEF StaysAsClosed, Modes, q
<1> QED
  BY <1>2, <1>3

(* Nothing but its caller sets the number of rollbacks consumed.           *)
LEMMA SeenRollbacksKept ==
    ASSUME NEW p \in PolicyState, NEW ref
    PROVE  RecordPoisonPill(p, ref).seenRollbacks = p.seenRollbacks
BY DEF RecordPoisonPill, Requalify, Transition, PolicyState

LEMMA InvalidateEffect ==
    ASSUME NEW p, GoodPolicy(p), NEW why \in Reasons
    PROVE  LET q == InvalidateQualification(p, why)
           IN  GoodPolicy(q) /\ StaysAsClosed(p, q) /\ Carried(p, q)
               /\ q.seenRollbacks = p.seenRollbacks
<1> DEFINE q == InvalidateQualification(p, why)
           reset == Requalify(p)
<1>1. p \in PolicyState /\ Draft(p) /\ p.mode \in Modes
  BY DEF GoodPolicy, Draft, PolicyState
<1>2. CASE q = p
  BY <1>1, <1>2 DEF StaysAsClosed, Carried, Modes
<1>3. CASE q # p
  <2>1. q = Transition(reset, "invalidated", why)
    BY <1>3 DEF InvalidateQualification
  <2>2. /\ Draft(reset)
        /\ reset.mode = p.mode /\ reset.threshold = p.threshold
        /\ reset.seenRollbacks = p.seenRollbacks
        /\ p.mode = "fail_closed" => reset = p
        /\ p.mode = "fail_open" => reset.streak = 0 /\ reset.counted = <<>>
    BY <1>1, RequalifyEffect
  <2> HIDE DEF reset
  <2>3. /\ GoodPolicy(q)
        /\ q.mode = reset.mode /\ q.streak = reset.streak
        /\ q.counted = reset.counted /\ q.threshold = reset.threshold
        /\ q.seenRollbacks = reset.seenRollbacks
    BY <2>1, <2>2, TransitionEffect DEF EventTypes
  <2> HIDE DEF q
  <2> QED
    BY <1>1, <2>2, <2>3 DEF StaysAsClosed, Carried, Modes, q
<1> QED
  BY <1>2, <1>3

LEMMA DemoteEffect ==
    ASSUME NEW p, GoodPolicy(p)
    PROVE  LET q == Demoted(p)
           IN  GoodPolicy(q) /\ Carried(p, q) /\ q.seenRollbacks = p.seenRollbacks
<1> DEFINE q == Demoted(p)
           opened == [p EXCEPT !.mode = "fail_open"]
           fresh == [opened EXCEPT !.streak = 0]
           reset == [fresh EXCEPT !.counted = <<>>]
<1>1. p \in PolicyState /\ Draft(p)
  BY DEF GoodPolicy, Draft
<1>2. reset = [p EXCEPT !.mode = "fail_open", !.streak = 0, !.counted = <<>>]
  BY <1>1
<1>3. q = Transition(reset, "demotion", "operator")
  BY <1>2 DEF Demoted
<1>4. opened \in PolicyState
  BY <1>1, FieldUpdate DEF Modes
<1>5. fresh \in PolicyState
  <2> HIDE DEF opened
  <2> QED
    BY <1>4, FieldUpdate
<1>6. reset \in PolicyState
  <2> HIDE DEF fresh
  <2>1. <<>> \in Seq(Releases)
    OBVIOUS
  <2>2. \A v \in Seq(Releases) : [fresh EXCEPT !.counted = v] \in PolicyState
    BY <1>5, FieldUpdate
  <2> QED
    BY <2>1, <2>2, Zenon
<1>7. /\ reset.mode = "fail_open" /\ reset.streak = 0 /\ reset.counted = <<>>
      /\ reset.generation = p.generation /\ reset.events = p.events
      /\ reset.poison = p.poison /\ reset.seenRollbacks = p.seenRollbacks
  BY <1>1, <1>2 DEF PolicyState
<1> HIDE DEF reset
<1>8. Draft(reset)
  BY <1>1, <1>6, <1>7, EmptyDraft
<1>9. "demotion" \in EventTypes /\ "operator" \in Reasons
  BY DEF EventTypes, Reasons
<1>10. GoodPolicy(q) /\ q.counted = <<>> /\ q.seenRollbacks = p.seenRollbacks
  BY <1>3, <1>7, <1>8, <1>9, TransitionEffect
<1> QED
  BY <1>10 DEF Carried
LEMMA ForceGraduateEffect ==
    ASSUME NEW p, GoodPolicy(p)
    PROVE  LET q == ForceGraduated(p)
           IN  GoodPolicy(q) /\ Carried(p, q) /\ q.seenRollbacks = p.seenRollbacks
<1> DEFINE q == ForceGraduated(p)
           closed == [p EXCEPT !.mode = "fail_closed"]
<1>1. p \in PolicyState /\ Draft(p)
  BY DEF GoodPolicy, Draft
<1>2. q = Transition(closed, "manual_graduation", "operator")
  BY DEF ForceGraduated
<1>3. closed \in PolicyState
  BY <1>1, FieldUpdate DEF Modes
<1>4. /\ closed.mode = "fail_closed" /\ closed.streak = p.streak
      /\ closed.counted = p.counted /\ closed.threshold = p.threshold
      /\ closed.generation = p.generation /\ closed.events = p.events
      /\ closed.poison = p.poison /\ closed.seenRollbacks = p.seenRollbacks
  BY <1>1 DEF PolicyState
<1> HIDE DEF closed
<1>5. Draft(closed)
  BY <1>1, <1>3, <1>4 DEF Draft, PoisonBehind
<1>6. "manual_graduation" \in EventTypes /\ "operator" \in Reasons
  BY DEF EventTypes, Reasons
<1>7. GoodPolicy(q) /\ q.mode = "fail_closed" /\ q.seenRollbacks = p.seenRollbacks
  BY <1>2, <1>4, <1>5, <1>6, TransitionEffect
<1> QED
  BY <1>7 DEF Carried

LEMMA ThresholdEffect ==
    ASSUME NEW p, GoodPolicy(p), NEW n \in Thresholds
    PROVE  LET q == WithThreshold(p, n)
           IN  GoodPolicy(q) /\ Carried(p, q) /\ q.seenRollbacks = p.seenRollbacks
<1> DEFINE q == WithThreshold(p, n)
           moved == [p EXCEPT !.threshold = n]
           fresh == [moved EXCEPT !.streak = 0]
           reset == [fresh EXCEPT !.counted = <<>>]
<1>1. p \in PolicyState /\ Draft(p) /\ n \in Nat \ {0}
  BY ThresholdAssumption DEF GoodPolicy, Draft
<1>2. reset = [p EXCEPT !.threshold = n, !.streak = 0, !.counted = <<>>]
  BY <1>1
<1>3. q = Transition(reset, "threshold_changed", "operator")
  BY <1>2 DEF WithThreshold
<1>4. moved \in PolicyState
  BY <1>1, FieldUpdate
<1>5. fresh \in PolicyState
  <2> HIDE DEF moved
  <2> QED
    BY <1>4, FieldUpdate
<1>6. reset \in PolicyState
  <2> HIDE DEF fresh
  <2>1. <<>> \in Seq(Releases)
    OBVIOUS
  <2>2. \A v \in Seq(Releases) : [fresh EXCEPT !.counted = v] \in PolicyState
    BY <1>5, FieldUpdate
  <2> QED
    BY <2>1, <2>2, Zenon
<1>7. /\ reset.streak = 0 /\ reset.counted = <<>>
      /\ reset.generation = p.generation /\ reset.events = p.events
      /\ reset.poison = p.poison /\ reset.seenRollbacks = p.seenRollbacks
  BY <1>1, <1>2 DEF PolicyState
<1> HIDE DEF reset
<1>8. Draft(reset)
  BY <1>1, <1>6, <1>7, EmptyDraft
<1>9. "threshold_changed" \in EventTypes /\ "operator" \in Reasons
  BY DEF EventTypes, Reasons
<1>10. GoodPolicy(q) /\ q.counted = <<>> /\ q.seenRollbacks = p.seenRollbacks
  BY <1>3, <1>7, <1>8, <1>9, TransitionEffect
<1> QED
  BY <1>10 DEF Carried

(* A release that is not yet counted joins a bounded list of distinct ones.*)
LEMMA NewestDistinct ==
    ASSUME NEW s \in Seq(Releases), NEW r \in Releases, NEW limit \in Nat \ {0},
           Len(s) <= limit, Distinct(s),
           \A i \in DOMAIN s : s[i] # r
    PROVE  LET t == Newest(Append(s, r), limit)
           IN  Distinct(t)
<1> DEFINE t == Newest(Append(s, r), limit)
           old == Len(s)
           new == Len(t)
<1>1. /\ t \in Seq(Releases)
      /\ new = IF old = limit THEN limit ELSE old + 1
      /\ t[new] = r
      /\ \A i \in 1 .. (new - 1) : t[i] = s[i + (old + 1 - new)]
  BY NewestAppend
<1> HIDE DEF t
<1>2. old \in Nat /\ DOMAIN s = 1 .. old /\ DOMAIN t = 1 .. new
  BY <1>1, LenProperties
<1> HIDE DEF old, new
<1>3. new \in Nat \ {0} /\ (new = old \/ new = old + 1)
  BY <1>1, <1>2
<1>4. \A i \in 1 .. (new - 1) : i + (old + 1 - new) \in 1 .. old
  BY <1>2, <1>3, ShiftedIndex
<1>5. \A i \in 1 .. (new - 1) : t[i] # r
  BY <1>1, <1>2, <1>4
<1>6. ASSUME NEW i \in 1 .. new, NEW j \in 1 .. new, t[i] = t[j]
      PROVE  i = j
  <2>1. CASE i = new \/ j = new
    <3>1. i \in 1 .. (new - 1) \/ i = new
      BY <1>3
    <3>2. j \in 1 .. (new - 1) \/ j = new
      BY <1>3
    <3> QED
      BY <2>1, <3>1, <3>2, <1>1, <1>5, <1>6
  <2>2. CASE i # new /\ j # new
    <3>1. i \in 1 .. (new - 1) /\ j \in 1 .. (new - 1)
      BY <2>2, <1>3
    <3> DEFINE k == i + (old + 1 - new)
               l == j + (old + 1 - new)
    <3>2. k \in 1 .. old /\ l \in 1 .. old /\ s[k] = s[l]
      BY <3>1, <1>1, <1>4, <1>6
    <3>3. k = l
      <4> HIDE DEF k, l
      <4> QED
        BY <3>2, <1>2 DEF Distinct
    <3> QED
      BY <3>1, <3>3, <1>2, <1>3
  <2> QED
    BY <2>1, <2>2
<1> QED
  BY <1>2, <1>6 DEF Distinct, t

LEMMA CleanReleaseEffect ==
    ASSUME NEW p, GoodPolicy(p), NEW r \in Releases
    PROVE  LET q == RecordCleanRelease(p, r)
           IN  /\ GoodPolicy(q)
               /\ StaysAsClosed(p, q)
               /\ q.seenRollbacks = p.seenRollbacks
               /\ q.mode = "fail_open" => p.mode = "fail_open"
               /\ Counted(q) \subseteq Counted(p) \cup {r}
               /\ \/ q = p
                  \/ /\ r \notin Counted(p) /\ q.streak = p.streak + 1
                     /\ q.streak <= MaxCounted =>
                           Counted(p) \cup {r} \subseteq Counted(q)
<1> DEFINE q == RecordCleanRelease(p, r)
           list == Newest(Append(p.counted, r), MaxCounted)
           listed == [p EXCEPT !.counted = list]
           longer == [listed EXCEPT !.streak = p.streak + 1]
           closed == [longer EXCEPT !.mode = "fail_closed"]
           draft == IF p.streak + 1 >= p.threshold THEN closed ELSE longer
           type == IF p.streak + 1 >= p.threshold THEN "graduated"
                   ELSE "clean_release"
<1>1. /\ p \in PolicyState /\ Draft(p) /\ p.mode \in Modes
      /\ p.streak \in Nat /\ p.threshold \in Nat \ {0}
      /\ p.counted \in Seq(Releases)
  BY DEF GoodPolicy, Draft, PolicyState
<1>2. CASE r \in Counted(p) \/ p.mode = "fail_closed"
  BY <1>1, <1>2 DEF RecordCleanRelease, StaysAsClosed
<1>3. CASE r \notin Counted(p) /\ p.mode = "fail_open"
  <2>1. /\ MaxCounted \in Nat \ {0} /\ Len(p.counted) <= MaxCounted
        /\ Distinct(p.counted) /\ Len(p.counted) \in Nat
        /\ \A i \in DOMAIN p.counted : p.counted[i] # r
    BY <1>1, <1>3, LimitAssumption, LenProperties DEF Draft, Counted
  <2>2. /\ list \in Seq(Releases)
        /\ Len(list) = IF Len(p.counted) = MaxCounted THEN MaxCounted
                       ELSE Len(p.counted) + 1
        /\ list[Len(list)] = r
        /\ \A i \in 1 .. (Len(list) - 1) :
              list[i] = p.counted[i + (Len(p.counted) + 1 - Len(list))]
        /\ Distinct(list)
    <3> DEFINE s == p.counted
    <3>1. s \in Seq(Releases)
      BY <1>1
    <3> HIDE DEF s
    <3> SUFFICES LET t == Newest(Append(s, r), MaxCounted)
                 IN  /\ t \in Seq(Releases)
                     /\ Len(t) = IF Len(s) = MaxCounted THEN MaxCounted
                                 ELSE Len(s) + 1
                     /\ t[Len(t)] = r
                     /\ \A i \in 1 .. (Len(t) - 1) :
                           t[i] = s[i + (Len(s) + 1 - Len(t))]
                     /\ Distinct(t)
      BY DEF s
    <3>2. /\ Len(s) <= MaxCounted /\ Distinct(s)
          /\ \A i \in DOMAIN s : s[i] # r
      BY <2>1 DEF s
    <3> QED
      BY <3>1, <3>2, <2>1, NewestAppend, NewestDistinct
  <2>3. Distinct(list)
    BY <2>2
  <2> HIDE DEF list
  <2>4. Len(list) = IF p.streak + 1 <= MaxCounted THEN p.streak + 1 ELSE MaxCounted
    BY <1>1, <2>1, <2>2 DEF Draft
  <2>5. \A i \in DOMAIN list : list[i] \in Counted(p) \cup {r}
    <3>1. DOMAIN list = 1 .. Len(list) /\ DOMAIN p.counted = 1 .. Len(p.counted)
      BY <1>1, <2>2, LenProperties
    <3>2. ASSUME NEW i \in 1 .. (Len(list) - 1)
          PROVE  list[i] \in Counted(p)
      <4>1. /\ i \in Nat /\ 1 <= i /\ i < Len(list) /\ Len(list) \in Nat
            /\ Len(list) = Len(p.counted) \/ Len(list) = Len(p.counted) + 1
        BY <2>1, <2>2
      <4>2. i + (Len(p.counted) + 1 - Len(list)) \in 1 .. Len(p.counted)
        BY <4>1, <2>1, ShiftedIndex
      <4> QED
        BY <4>2, <3>1, <2>2 DEF Counted
    <3>3. \A i \in 1 .. Len(list) : i = Len(list) \/ i \in 1 .. (Len(list) - 1)
      BY <2>1, <2>2
    <3> QED
      BY <3>1, <3>2, <3>3, <2>2
  <2>17. ASSUME p.streak + 1 <= MaxCounted
         PROVE  \A x \in Counted(p) \cup {r} : \E i \in DOMAIN list : list[i] = x
    <3>1. Len(p.counted) = p.streak /\ Len(list) = Len(p.counted) + 1
      BY <1>1, <2>1, <2>2, <2>17 DEF Draft
    <3>2. DOMAIN list = 1 .. Len(list) /\ DOMAIN p.counted = 1 .. Len(p.counted)
      BY <1>1, <2>2, LenProperties
    <3>3. ASSUME NEW i \in DOMAIN p.counted
          PROVE  i \in DOMAIN list /\ list[i] = p.counted[i]
      <4>1. i \in 1 .. (Len(list) - 1) /\ i \in 1 .. Len(list)
        BY <2>1, <3>1, <3>2
      <4>2. list[i] = p.counted[i + (Len(p.counted) + 1 - Len(list))]
        BY <2>2, <4>1
      <4>3. i + (Len(p.counted) + 1 - Len(list)) = i
        BY <2>1, <3>1, <4>1
      <4> QED
        BY <3>2, <4>1, <4>2, <4>3
    <3>4. Len(list) \in DOMAIN list
      BY <2>1, <3>1, <3>2
    <3> QED
      BY <2>2, <3>3, <3>4 DEF Counted
  <2>6. longer = [p EXCEPT !.counted = list, !.streak = p.streak + 1]
    BY <1>1
  <2>7. listed \in PolicyState
    BY <1>1, <2>2, FieldUpdate
  <2>8. longer \in PolicyState
    <3> HIDE DEF listed
    <3>1. p.streak + 1 \in Nat
      BY <1>1
    <3>2. \A v \in Nat : [listed EXCEPT !.streak = v] \in PolicyState
      BY <2>7, FieldUpdate
    <3> QED
      BY <3>1, <3>2, Zenon
  <2>9. /\ longer.mode = "fail_open" /\ longer.streak = p.streak + 1
        /\ longer.counted = list /\ longer.threshold = p.threshold
        /\ longer.generation = p.generation /\ longer.events = p.events
        /\ longer.poison = p.poison /\ longer.seenRollbacks = p.seenRollbacks
    BY <1>1, <1>3, <2>6 DEF PolicyState
  <2>10. q = Transition(draft, type, r)
    BY <1>3, <2>6, <2>9 DEF RecordCleanRelease, list, Modes
  <2> HIDE DEF longer
  <2>11. /\ closed \in PolicyState
         /\ closed.mode = "fail_closed" /\ closed.streak = longer.streak
         /\ closed.counted = longer.counted /\ closed.threshold = longer.threshold
         /\ closed.generation = longer.generation /\ closed.events = longer.events
         /\ closed.poison = longer.poison
         /\ closed.seenRollbacks = longer.seenRollbacks
    <3>1. closed \in PolicyState
      BY <2>8, FieldUpdate DEF Modes
    <3> QED
      BY <3>1, <2>8 DEF PolicyState
  <2> HIDE DEF closed
  <2>12. /\ draft \in PolicyState
         /\ draft.streak = p.streak + 1 /\ draft.counted = list
         /\ draft.threshold = p.threshold
         /\ draft.generation = p.generation /\ draft.events = p.events
         /\ draft.poison = p.poison /\ draft.seenRollbacks = p.seenRollbacks
         /\ draft.mode = "fail_open" => p.streak + 1 < p.threshold
    BY <1>1, <2>8, <2>9, <2>11
  <2>13. /\ type \in EventTypes /\ type # "invalidated"
         /\ type = "graduated" => p.streak + 1 = p.threshold
    BY <1>1, <1>3 DEF EventTypes, Draft
  <2> HIDE DEF draft, type
  <2>14. Draft(draft)
    BY <1>1, <2>3, <2>4, <2>12 DEF Draft, PoisonBehind
  <2>15. r \in Reasons
    BY DEF Reasons
  <2>16. /\ GoodPolicy(q) /\ q.counted = list /\ q.streak = p.streak + 1
         /\ q.seenRollbacks = p.seenRollbacks
    BY <2>10, <2>12, <2>13, <2>14, <2>15, TransitionEffect
  <2> HIDE DEF q
  <2>18. q.streak <= MaxCounted => Counted(p) \cup {r} \subseteq Counted(q)
    BY <2>16, <2>17 DEF Counted
  <2> QED
    BY <1>3, <2>5, <2>16, <2>18 DEF StaysAsClosed, Counted, q
<1> QED
  BY <1>1, <1>2, <1>3 DEF Modes

-----------------------------------------------------------------------------
(* The releases that the present streak has counted.  While nothing was    *)
(* cut from the list they are exactly those it names, so one more count is *)
(* one more release; afterwards a count may repeat one that was cut.       *)
Tracked ==
    /\ IsFiniteSet(qualified)
    /\ Counted(policy) \subseteq qualified
    /\ policy.streak <= MaxCounted => qualified \subseteq Counted(policy)
    /\ Cardinality(qualified) \in
          (IF policy.streak <= MaxCounted THEN policy.streak ELSE MaxCounted + 1)
              .. policy.streak

(* What every method but record_clean_release does to a streak.            *)
KeepsStreak(p, q) ==
    \/ q.counted = p.counted /\ q.streak = p.streak
    \/ q.counted = <<>> /\ q.streak = 0

LEMMA MethodsKeepStreak ==
    ASSUME NEW p \in PolicyState
    PROVE  /\ \A ref : KeepsStreak(p, RecordPoisonPill(p, ref))
           /\ \A why : KeepsStreak(p, InvalidateQualification(p, why))
           /\ KeepsStreak(p, Demoted(p)) /\ KeepsStreak(p, ForceGraduated(p))
           /\ \A n : KeepsStreak(p, WithThreshold(p, n))
<1> USE DEF KeepsStreak, Transition, PolicyState
<1>1. \A ref : KeepsStreak(p, RecordPoisonPill(p, ref))
  BY DEF RecordPoisonPill, Requalify
<1>2. \A why : KeepsStreak(p, InvalidateQualification(p, why))
  BY DEF InvalidateQualification, Requalify
<1>3. KeepsStreak(p, Demoted(p)) /\ KeepsStreak(p, ForceGraduated(p))
  BY DEF Demoted, ForceGraduated
<1>4. \A n : KeepsStreak(p, WithThreshold(p, n))
  BY DEF WithThreshold
<1> QED
  BY <1>1, <1>2, <1>3, <1>4

(* A policy that keeps the streak or starts a new one.                     *)
LEMMA TrackedBecomes ==
    ASSUME GoodPolicy(policy), Tracked, NEW p, KeepsStreak(policy, p), Becomes(p)
    PROVE  Tracked'
<1>1. /\ policy.streak \in Nat /\ policy.counted \in Seq(Releases)
      /\ MaxCounted \in Nat \ {0}
      /\ policy.streak = 0 => policy.counted = <<>>
  BY LimitAssumption, EmptySeq DEF GoodPolicy, Draft, PolicyState
<1>2. CASE policy'.streak = 0 /\ policy'.counted = <<>> /\ qualified' = {}
  BY <1>1, <1>2, FS_EmptySet DEF Tracked, Counted
<1>3. CASE /\ policy'.streak = policy.streak /\ policy'.counted = policy.counted
           /\ qualified' = qualified
  BY <1>3 DEF Tracked, Counted
<1> QED
  BY <1>1, <1>2, <1>3 DEF KeepsStreak, Becomes

-----------------------------------------------------------------------------
(* The steps.  Between the read of the rollbacks and the end of the        *)
(* reconciliation nobody else writes the policy, so what was read is what  *)
(* the policy has consumed.                                                *)

ConsumedInOrder ==
    /\ policy.seenRollbacks <= rollbackCount
    /\ stage \in {"rollbacks", "crashes", "pointer", "deviation"} =>
          rollbacksRead = policy.seenRollbacks

Inv == /\ TypeOK /\ GoodPolicy(policy) /\ Tracked
       /\ ConsumedInOrder /\ CountedAfterRollbacks

(* What a step leaves in the policy, when it does not count a release.     *)
Consumes ==
    /\ GoodPolicy(policy')
    /\ policy.mode = "fail_closed" => StaysClosed
    /\ Carried(policy, policy') /\ basis' = basis

(* What it leaves there when it counts one.                                *)
Counts ==
    /\ GoodPolicy(policy')
    /\ policy.mode = "fail_closed" => StaysClosed
    /\ policy'.mode = "fail_open" => policy.mode = "fail_open"
    /\ policy'.seenRollbacks = policy.seenRollbacks
    /\ release \in Releases /\ stage = "deviation"
    /\ Counted(policy') \subseteq Counted(policy) \cup {release}
    /\ basis' = [basis EXCEPT ![release] = rollbacksRead]

LEMMA UnchangedPolicy ==
    ASSUME GoodPolicy(policy), policy' = policy, basis' = basis
    PROVE  Consumes
<1>1. policy.mode \in Modes
  BY DEF GoodPolicy, Draft, PolicyState
<1> QED
  BY <1>1 DEF Consumes, Carried, StaysClosed, Modes

LEMMA PolicyStep ==
    ASSUME TypeOK, GoodPolicy(policy), ConsumedInOrder, [Next]_vars
    PROVE  Consumes \/ Counts
<1> USE DEF StaysAsClosed, StaysClosed, history
<1>1. CASE UNCHANGED vars
  BY <1>1, UnchangedPolicy DEF vars
<1>2. CASE RecordRollback \/ RecordGuardCrash \/ TrustRelease \/ ConfigureTelemetry
  BY <1>2, UnchangedPolicy
  DEF RecordRollback, RecordGuardCrash, TrustRelease, ConfigureTelemetry
<1>3. CASE EmergencyDemote
  BY <1>3, DemoteEffect DEF EmergencyDemote, Becomes, Consumes
<1>4. CASE ForceGraduate
  BY <1>4, ForceGraduateEffect DEF ForceGraduate, Becomes, Consumes
<1>5. CASE \E n \in Thresholds : SetThreshold(n)
  BY <1>5, ThresholdEffect DEF SetThreshold, Becomes, Consumes
<1>6. CASE ReadConfiguration \/ TakeLock \/ ReadPointer \/ ReadDeviation
           \/ ObservationIsStale \/ ObservationIsIncomplete \/ ReconcileFails
  BY <1>6, UnchangedPolicy
  DEF ReadConfiguration, TakeLock, ReadPointer, ReadDeviation, ObservationIsStale,
      ObservationIsIncomplete, ReconcileFails, Pending
<1>7. CASE ReadRollbacks
  <2>1. CASE rollbackCount > policy.seenRollbacks
    <3> DEFINE seen == [policy EXCEPT !.seenRollbacks = rollbackCount]
               ref == <<"rollback", rollbackCount>>
    <3>1. /\ policy' = RecordPoisonPill(seen, ref) /\ basis' = basis
      BY <1>7, <2>1 DEF ReadRollbacks, Commit, Becomes
    <3>2. /\ policy \in PolicyState /\ rollbackCount \in Nat
          /\ policy.seenRollbacks \in Nat
      BY DEF TypeOK, PolicyState
    <3>3. seen \in PolicyState
      BY <3>2, FieldUpdate
    <3>4. /\ seen.mode = policy.mode /\ seen.streak = policy.streak
          /\ seen.counted = policy.counted /\ seen.threshold = policy.threshold
          /\ seen.generation = policy.generation /\ seen.events = policy.events
          /\ seen.poison = policy.poison /\ seen.seenRollbacks = rollbackCount
      BY <3>2 DEF PolicyState
    <3> HIDE DEF seen
    <3>5. GoodPolicy(seen)
      <4>1. PoisonBehind(seen)
        BY <2>1, <3>2, <3>4 DEF GoodPolicy, Draft, PoisonBehind
      <4>2. Draft(seen)
        BY <4>1, <3>3, <3>4 DEF GoodPolicy, Draft
      <4> QED
        BY <4>2, <3>4 DEF GoodPolicy, Describes, LastEvent
    <3>6. ref \in PoisonRefs
      BY <3>2 DEF PoisonRefs
    <3>7. \A n \in Nat : ref = <<"rollback", n>> => n <= seen.seenRollbacks
      BY <3>2, <3>4
    <3>8. seen.poison # ref
      BY <2>1, <3>2, <3>4 DEF GoodPolicy, Draft, PoisonBehind
    <3> HIDE DEF ref
    <3>9. /\ GoodPolicy(policy') /\ StaysAsClosed(seen, policy')
          /\ policy'.mode = "fail_closed" \/ policy'.counted = <<>>
      BY <3>1, <3>5, <3>6, <3>7, <3>8, PoisonPillEffect
    <3> QED
      BY <3>1, <3>4, <3>9 DEF Consumes, Carried
  <2>2. CASE ~(rollbackCount > policy.seenRollbacks)
    BY <1>7, <2>2, UnchangedPolicy DEF ReadRollbacks
  <2> QED
    BY <2>1, <2>2
<1>8. CASE ReadGuardCrashes
  <2>1. CASE crashCount > policy.seenCrashes
    <3> DEFINE seen == [policy EXCEPT !.seenCrashes = crashCount]
               ref == <<"guard-crash", lastCrashId>>
    <3>1. /\ policy' = RecordPoisonPill(seen, ref) /\ basis' = basis
      BY <1>8, <2>1 DEF ReadGuardCrashes, Commit, Becomes
    <3>2. /\ policy \in PolicyState /\ crashCount \in Nat
          /\ lastCrashId \in CrashIds \cup {NoRef} /\ policy.mode \in Modes
      BY DEF TypeOK, PolicyState
    <3>3. seen \in PolicyState
      BY <3>2, FieldUpdate
    <3>4. /\ seen.mode = policy.mode /\ seen.streak = policy.streak
          /\ seen.counted = policy.counted /\ seen.threshold = policy.threshold
          /\ seen.generation = policy.generation /\ seen.events = policy.events
          /\ seen.poison = policy.poison
          /\ seen.seenRollbacks = policy.seenRollbacks
      BY <3>2 DEF PolicyState
    <3> HIDE DEF seen
    <3>5. GoodPolicy(seen)
      BY <3>3, <3>4 DEF GoodPolicy, Draft, PoisonBehind, Describes, LastEvent
    <3>6. ref \in PoisonRefs
      BY <3>2 DEF PoisonRefs
    <3>7. \A n \in Nat : ref = <<"rollback", n>> => n <= seen.seenRollbacks
      OBVIOUS
    <3> HIDE DEF ref
    <3>8. /\ GoodPolicy(policy') /\ StaysAsClosed(seen, policy')
          /\ policy'.seenRollbacks = policy.seenRollbacks
          /\ \/ policy' = seen
             \/ policy'.mode = "fail_closed" \/ policy'.counted = <<>>
      BY <3>1, <3>4, <3>5, <3>6, <3>7, PoisonPillEffect
    <3> QED
      BY <3>1, <3>2, <3>4, <3>8 DEF Consumes, Carried, Modes
  <2>2. CASE ~(crashCount > policy.seenCrashes)
    BY <1>8, <2>2, UnchangedPolicy DEF ReadGuardCrashes
  <2> QED
    BY <2>1, <2>2
<1>9. CASE Invalidate
  <2> DEFINE why == IF armed THEN release ELSE "detector disabled"
  <2>1. policy' = InvalidateQualification(policy, why) /\ basis' = basis
    BY <1>9 DEF Invalidate, Commit, Becomes
  <2>2. why \in Reasons
    BY <1>9 DEF Invalidate, TypeOK, Reasons
  <2> QED
    BY <2>1, <2>2, InvalidateEffect DEF Consumes
<1>10. CASE RecordDeviation
  <2> DEFINE ref == <<"deviation", release>>
  <2>1. policy' = RecordPoisonPill(policy, ref) /\ basis' = basis
    BY <1>10 DEF RecordDeviation, Commit, Becomes
  <2>2. ref \in PoisonRefs /\ (\A n \in Nat : ref # <<"rollback", n>>)
    BY <1>10 DEF RecordDeviation, TypeOK, PoisonRefs
  <2>3. policy.mode \in Modes
    BY DEF TypeOK, PolicyState
  <2> HIDE DEF ref
  <2>4. /\ GoodPolicy(policy') /\ StaysAsClosed(policy, policy')
        /\ \/ policy' = policy
           \/ policy'.mode = "fail_closed" \/ policy'.counted = <<>>
    BY <2>1, <2>2, PoisonPillEffect
  <2> QED
    BY <2>1, <2>3, <2>4 DEF Consumes, Carried, Modes
<1>11. CASE CountCleanRelease
  <2>1. release \in Releases /\ stage = "deviation"
    BY <1>11 DEF CountCleanRelease, TypeOK
  <2>2. policy' = RecordCleanRelease(policy, release)
    BY <1>11 DEF CountCleanRelease, Commit, Becomes
  <2>3. CASE policy' = policy
    BY <1>11, <2>2, <2>3, UnchangedPolicy DEF CountCleanRelease
  <2>4. CASE policy' # policy
    <3>1. basis' = [basis EXCEPT ![release] = rollbacksRead]
      BY <1>11, <2>2, <2>4 DEF CountCleanRelease
    <3> QED
      BY <2>1, <2>2, <3>1, CleanReleaseEffect DEF Counts
  <2> QED
    BY <2>3, <2>4
<1> QED
  BY <1>1, <1>2, <1>3, <1>4, <1>5, <1>6, <1>7, <1>8, <1>9, <1>10, <1>11
  DEF Next, Reconcile

(* The variables the policy is not part of keep their types.               *)
LEMMA ReturnType ==
    ASSUME TypeOK, policy' \in PolicyState, basis' \in [Releases -> Nat],
           qualified' \subseteq Releases,
           UNCHANGED evidence, NEW result \in Outcomes, Return(result)
    PROVE  TypeOK'
<1>1. "idle" \in Stages /\ "short" \in Healths
  BY DEF Stages, Healths
<1> QED
  BY <1>1 DEF TypeOK, Return, evidence

LEMMA TypeStep ==
    ASSUME TypeOK, policy' \in PolicyState, [Next]_vars
    PROVE  TypeOK'
<1> USE DEF reading, evidence, history
<1>1. /\ basis \in [Releases -> Nat] /\ rollbacksRead \in Nat
      /\ qualified \subseteq Releases
  BY DEF TypeOK
<1>2. /\ "no_change" \in Outcomes /\ "clean" \in Outcomes /\ "invalidated" \in Outcomes
      /\ "poison_pill" \in Outcomes /\ "pending" \in Outcomes /\ "none" \in Outcomes
  BY DEF Outcomes
<1>3. CASE UNCHANGED vars
  BY <1>3 DEF vars, TypeOK
<1>4. CASE RecordRollback
  BY <1>4 DEF RecordRollback, TypeOK
<1>5. CASE RecordGuardCrash
  BY <1>5 DEF RecordGuardCrash, TypeOK
<1>6. CASE TrustRelease
  BY <1>6 DEF TrustRelease, TypeOK
<1>7. CASE ConfigureTelemetry
  BY <1>7 DEF ConfigureTelemetry, TypeOK
<1>8. CASE EmergencyDemote \/ ForceGraduate \/ \E n \in Thresholds : SetThreshold(n)
  BY <1>8 DEF EmergencyDemote, ForceGraduate, SetThreshold, Becomes, TypeOK
<1>9. CASE ReadConfiguration
  <2>1. "configured" \in Stages
    BY DEF Stages
  <2> QED
    BY <2>1, <1>2, <1>9 DEF ReadConfiguration, TypeOK
<1>10. CASE TakeLock
  <2>1. "locked" \in Stages
    BY DEF Stages
  <2> QED
    BY <2>1, <1>10 DEF TakeLock, TypeOK
<1>11. CASE ReadRollbacks
  <2>1. CASE rollbackCount > policy.seenRollbacks
    BY <2>1, <1>1, <1>2, <1>11, ReturnType DEF ReadRollbacks, Commit, Becomes
  <2>2. CASE ~(rollbackCount > policy.seenRollbacks)
    <3>1. "rollbacks" \in Stages
      BY DEF Stages
    <3> QED
      BY <3>1, <2>2, <1>11 DEF ReadRollbacks, TypeOK
  <2> QED
    BY <2>1, <2>2
<1>12. CASE ReadGuardCrashes
  <2>1. CASE crashCount > policy.seenCrashes
    BY <2>1, <1>1, <1>2, <1>12, ReturnType DEF ReadGuardCrashes, Commit, Becomes
  <2>2. CASE ~(crashCount > policy.seenCrashes)
    <3>1. "crashes" \in Stages
      BY DEF Stages
    <3> QED
      BY <3>1, <2>2, <1>12 DEF ReadGuardCrashes, TypeOK
  <2> QED
    BY <2>1, <2>2
<1>13. CASE Pending
  BY <1>1, <1>2, <1>13, ReturnType DEF Pending
<1>14. CASE ReadPointer /\ ~Pending
  <2>1. "pointer" \in Stages
    BY DEF Stages
  <2> QED
    BY <2>1, <1>14 DEF ReadPointer, TypeOK
<1>15. CASE ReadDeviation /\ ~Pending
  <2>1. "deviation" \in Stages
    BY DEF Stages
  <2> QED
    BY <2>1, <1>15 DEF ReadDeviation, TypeOK
<1>16. CASE ObservationIsStale \/ ObservationIsIncomplete
  BY <1>13, <1>16 DEF ObservationIsStale, ObservationIsIncomplete
<1>17. CASE ReconcileFails
  BY <1>1, <1>2, <1>17, ReturnType DEF ReconcileFails
<1>18. CASE Invalidate
  <2>1. \E result \in Outcomes : Return(result)
    BY <1>2, <1>18 DEF Invalidate, Commit, Becomes
  <2> QED
    BY <2>1, <1>1, <1>18, ReturnType DEF Invalidate, Commit, Becomes
<1>19. CASE RecordDeviation
  BY <1>1, <1>2, <1>19, ReturnType DEF RecordDeviation, Commit, Becomes
<1>20. CASE CountCleanRelease
  <2>1. \E result \in Outcomes : Return(result)
    BY <1>2, <1>20 DEF CountCleanRelease, Commit, Becomes
  <2>2. basis' \in [Releases -> Nat] /\ qualified' \subseteq Releases
    BY <1>1, <1>20 DEF CountCleanRelease, TypeOK
  <2> QED
    BY <2>1, <2>2, <1>20, ReturnType DEF CountCleanRelease
<1> QED
  BY <1>3, <1>4, <1>5, <1>6, <1>7, <1>8, <1>9, <1>10, <1>11, <1>12, <1>13, <1>14,
     <1>15, <1>16, <1>17, <1>18, <1>19, <1>20 DEF Next, Reconcile

(* The rollback counter only grows, and the lock protects what was read.   *)
LEMMA ConsumedStep ==
    ASSUME TypeOK, GoodPolicy(policy), ConsumedInOrder, [Next]_vars
    PROVE  ConsumedInOrder'
<1> USE DEF ConsumedInOrder, reading, evidence, history, Return
<1>1. /\ policy.seenRollbacks \in Nat /\ rollbackCount \in Nat
      /\ policy \in PolicyState
  BY DEF TypeOK, PolicyState
<1>2. CASE UNCHANGED vars
  BY <1>2 DEF vars
<1>3. CASE RecordRollback
  BY <1>1, <1>3 DEF RecordRollback
<1>4. CASE RecordGuardCrash \/ TrustRelease \/ ConfigureTelemetry
  BY <1>4 DEF RecordGuardCrash, TrustRelease, ConfigureTelemetry
<1>5. CASE EmergencyDemote
  BY <1>5, DemoteEffect DEF EmergencyDemote, Becomes, Unlocked
<1>6. CASE ForceGraduate
  BY <1>6, ForceGraduateEffect DEF ForceGraduate, Becomes, Unlocked
<1>7. CASE \E n \in Thresholds : SetThreshold(n)
  BY <1>7, ThresholdEffect DEF SetThreshold, Becomes, Unlocked
<1>8. CASE ReadConfiguration \/ TakeLock
  BY <1>8 DEF ReadConfiguration, TakeLock
<1>9. CASE ReadRollbacks
  <2>1. CASE rollbackCount > policy.seenRollbacks
    <3> DEFINE seen == [policy EXCEPT !.seenRollbacks = rollbackCount]
               ref == <<"rollback", rollbackCount>>
    <3>1. /\ policy' = RecordPoisonPill(seen, ref)
          /\ stage' = "idle" /\ rollbackCount' = rollbackCount
      BY <1>9, <2>1 DEF ReadRollbacks, Commit, Becomes
    <3>2. seen.seenRollbacks = rollbackCount
      BY <1>1 DEF PolicyState
    <3> HIDE DEF seen
    <3>3. seen \in PolicyState
      BY <1>1, FieldUpdate DEF seen
    <3>4. policy'.seenRollbacks = rollbackCount
      BY <3>1, <3>2, <3>3, SeenRollbacksKept
    <3> QED
      BY <3>1, <3>4, <1>1
  <2>2. CASE ~(rollbackCount > policy.seenRollbacks)
    BY <1>1, <1>9, <2>2 DEF ReadRollbacks
  <2> QED
    BY <2>1, <2>2
<1>10. CASE ReadGuardCrashes
  <2>1. CASE crashCount > policy.seenCrashes
    <3> DEFINE seen == [policy EXCEPT !.seenCrashes = crashCount]
               ref == <<"guard-crash", lastCrashId>>
    <3>1. /\ policy' = RecordPoisonPill(seen, ref)
          /\ stage' = "idle" /\ rollbackCount' = rollbackCount
      BY <1>10, <2>1 DEF ReadGuardCrashes, Commit, Becomes
    <3>2. seen \in PolicyState
      BY <1>1, FieldUpdate DEF TypeOK
    <3>3. seen.seenRollbacks = policy.seenRollbacks
      BY <1>1 DEF PolicyState
    <3> HIDE DEF seen
    <3>4. policy'.seenRollbacks = policy.seenRollbacks
      BY <3>1, <3>2, <3>3, SeenRollbacksKept
    <3> QED
      BY <3>1, <3>4
  <2>2. CASE ~(crashCount > policy.seenCrashes)
    BY <1>10, <2>2 DEF ReadGuardCrashes
  <2> QED
    BY <2>1, <2>2
<1>11. CASE ReadPointer \/ ReadDeviation
  BY <1>11 DEF ReadPointer, ReadDeviation, Pending
<1>12. CASE ObservationIsStale \/ ObservationIsIncomplete \/ ReconcileFails
  BY <1>12 DEF ObservationIsStale, ObservationIsIncomplete, ReconcileFails, Pending
<1>13. CASE Invalidate
  <2> DEFINE why == IF armed THEN release ELSE "detector disabled"
  <2>1. /\ policy' = InvalidateQualification(policy, why)
        /\ stage' = "idle" /\ rollbackCount' = rollbackCount
    BY <1>13 DEF Invalidate, Commit, Becomes
  <2>2. why \in Reasons
    BY <1>13 DEF Invalidate, TypeOK, Reasons
  <2> QED
    BY <2>1, <2>2, InvalidateEffect
<1>14. CASE RecordDeviation
  <2>1. /\ policy' = RecordPoisonPill(policy, <<"deviation", release>>)
        /\ stage' = "idle" /\ rollbackCount' = rollbackCount
    BY <1>14 DEF RecordDeviation, Commit, Becomes
  <2> QED
    BY <2>1, <1>1, SeenRollbacksKept
<1>15. CASE CountCleanRelease
  <2>1. /\ policy' = RecordCleanRelease(policy, release) /\ release \in Releases
        /\ stage' = "idle" /\ rollbackCount' = rollbackCount
    BY <1>15 DEF CountCleanRelease, Commit, Becomes, TypeOK
  <2> QED
    BY <2>1, CleanReleaseEffect
<1> QED
  BY <1>2, <1>3, <1>4, <1>5, <1>6, <1>7, <1>8, <1>9, <1>10, <1>11, <1>12, <1>13,
     <1>14, <1>15 DEF Next, Reconcile

(* Every step keeps the tracked releases in step with the streak.          *)
LEMMA TrackedStep ==
    ASSUME TypeOK, GoodPolicy(policy), Tracked, [Next]_vars
    PROVE  Tracked'
<1>1. policy \in PolicyState /\ policy.streak \in Nat
  BY DEF TypeOK, PolicyState
<1>2. ASSUME UNCHANGED <<policy, qualified>> PROVE Tracked'
  BY <1>2 DEF Tracked, Counted
<1>3. CASE \/ UNCHANGED vars
           \/ RecordRollback \/ RecordGuardCrash \/ TrustRelease \/ ConfigureTelemetry
  BY <1>2, <1>3 DEF vars, history, RecordRollback, RecordGuardCrash, TrustRelease,
                    ConfigureTelemetry
<1>4. CASE EmergencyDemote \/ ForceGraduate \/ \E n \in Thresholds : SetThreshold(n)
  BY <1>1, <1>4, MethodsKeepStreak, TrackedBecomes
  DEF EmergencyDemote, ForceGraduate, SetThreshold
<1>5. CASE ReadConfiguration \/ TakeLock \/ ReadPointer \/ ReadDeviation
           \/ ObservationIsStale \/ ObservationIsIncomplete \/ ReconcileFails
  BY <1>2, <1>5
  DEF history, ReadConfiguration, TakeLock, ReadPointer, ReadDeviation,
      ObservationIsStale, ObservationIsIncomplete, ReconcileFails, Pending
<1>6. CASE ReadRollbacks
  <2>1. CASE rollbackCount > policy.seenRollbacks
    <3> DEFINE seen == [policy EXCEPT !.seenRollbacks = rollbackCount]
               next == RecordPoisonPill(seen, <<"rollback", rollbackCount>>)
    <3>1. seen \in PolicyState /\ seen.streak = policy.streak
          /\ seen.counted = policy.counted
      BY <1>1, FieldUpdate DEF TypeOK, PolicyState
    <3>2. KeepsStreak(seen, next)
      <4> HIDE DEF seen
      <4> QED
        BY <3>1, MethodsKeepStreak
    <3>3. Becomes(next)
      BY <1>6, <2>1 DEF ReadRollbacks, Commit
    <3> HIDE DEF seen, next
    <3> QED
      BY <3>1, <3>2, <3>3, TrackedBecomes DEF KeepsStreak
  <2> QED
    BY <1>2, <1>6, <2>1 DEF ReadRollbacks, history
<1>7. CASE ReadGuardCrashes
  <2>1. CASE crashCount > policy.seenCrashes
    <3> DEFINE seen == [policy EXCEPT !.seenCrashes = crashCount]
               next == RecordPoisonPill(seen, <<"guard-crash", lastCrashId>>)
    <3>1. seen \in PolicyState /\ seen.streak = policy.streak
          /\ seen.counted = policy.counted
      BY <1>1, FieldUpdate DEF TypeOK, PolicyState
    <3>2. KeepsStreak(seen, next)
      <4> HIDE DEF seen
      <4> QED
        BY <3>1, MethodsKeepStreak
    <3>3. Becomes(next)
      BY <1>7, <2>1 DEF ReadGuardCrashes, Commit
    <3> HIDE DEF seen, next
    <3> QED
      BY <3>1, <3>2, <3>3, TrackedBecomes DEF KeepsStreak
  <2> QED
    BY <1>2, <1>7, <2>1 DEF ReadGuardCrashes, history
<1>8. CASE Invalidate \/ RecordDeviation
  BY <1>1, <1>8, MethodsKeepStreak, TrackedBecomes
  DEF Invalidate, RecordDeviation, Commit
<1>9. CASE CountCleanRelease
  <2> DEFINE p == RecordCleanRelease(policy, release)
  <2>1. release \in Releases
    BY <1>9 DEF CountCleanRelease, TypeOK
  <2>2. CASE UNCHANGED <<policy, qualified>>
    BY <1>2, <2>2
  <2>3. CASE p # policy /\ policy' = p /\ qualified' = qualified \cup {release}
    <3>1. /\ release \notin Counted(policy) /\ p.streak = policy.streak + 1
          /\ p.streak <= MaxCounted => Counted(policy) \cup {release} \subseteq Counted(p)
          /\ Counted(p) \subseteq Counted(policy) \cup {release}
      BY <2>1, <2>3, CleanReleaseEffect
    <3> HIDE DEF p
    <3>2. Counted(policy)' = Counted(p) /\ policy'.streak = policy.streak + 1
      BY <2>3, <3>1 DEF Counted
    <3>3. IsFiniteSet(qualified')
      BY <2>3, FS_AddElement DEF Tracked
    <3>4. /\ Cardinality(qualified) \in Nat /\ MaxCounted \in Nat
          /\ Cardinality(qualified') = IF release \in qualified
                                       THEN Cardinality(qualified)
                                       ELSE Cardinality(qualified) + 1
      BY <2>3, FS_AddElement, FS_CardinalityType, LimitAssumption DEF Tracked
    <3>5. policy.streak <= MaxCounted => release \notin qualified
      BY <3>1 DEF Tracked
    <3>6. Cardinality(qualified') \in
             (IF policy'.streak <= MaxCounted THEN policy'.streak ELSE MaxCounted + 1)
                 .. policy'.streak
      BY <1>1, <3>2, <3>4, <3>5 DEF Tracked
    <3>7. policy'.streak <= MaxCounted => qualified' \subseteq Counted(policy)'
      BY <1>1, <2>3, <3>1, <3>2, <3>4 DEF Tracked
    <3>8. Counted(policy)' \subseteq qualified'
      BY <2>3, <3>1, <3>2 DEF Tracked
    <3> QED
      BY <3>3, <3>6, <3>7, <3>8 DEF Tracked
  <2> QED
    BY <1>9, <2>2, <2>3 DEF CountCleanRelease, history
<1> QED
  BY <1>3, <1>4, <1>5, <1>6, <1>7, <1>8, <1>9 DEF Next, Reconcile

(* A release that is counted is counted on what was read under this lock.  *)
LEMMA CountedStep ==
    ASSUME Inv, Consumes \/ Counts
    PROVE  CountedAfterRollbacks'
<1> USE DEF Inv, CountedAfterRollbacks
<1>1. CASE Consumes
  <2>1. CASE policy'.mode = "fail_closed"
    BY <2>1
  <2>2. CASE policy'.counted = <<>>
    BY <2>2 DEF Counted
  <2>3. CASE /\ policy.mode = "fail_open"
             /\ policy'.counted = policy.counted
             /\ policy'.seenRollbacks = policy.seenRollbacks
    BY <1>1, <2>3 DEF Consumes, Counted
  <2> QED
    BY <1>1, <2>1, <2>2, <2>3 DEF Consumes, Carried
<1>2. CASE Counts
  <2> SUFFICES ASSUME policy'.mode = "fail_open", NEW r \in Counted(policy')
               PROVE  basis'[r] = policy'.seenRollbacks
    OBVIOUS
  <2>1. /\ policy.mode = "fail_open" /\ r \in Counted(policy) \cup {release}
        /\ policy'.seenRollbacks = policy.seenRollbacks
        /\ basis' = [basis EXCEPT ![release] = rollbacksRead]
        /\ release \in Releases /\ stage = "deviation"
    BY <1>2 DEF Counts
  <2>2. rollbacksRead = policy.seenRollbacks /\ basis \in [Releases -> Nat]
    BY <2>1 DEF ConsumedInOrder, TypeOK
  <2>3. CASE r = release
    BY <2>1, <2>2, <2>3
  <2>4. CASE r # release
    BY <2>1, <2>2, <2>4
  <2> QED
    BY <2>3, <2>4
<1> QED
  BY <1>1, <1>2

LEMMA InitInv == Init => Inv
<1> SUFFICES ASSUME Init PROVE Inv
  OBVIOUS
<1> USE DEF Init
<1>1. /\ policy.generation = 0 /\ policy.mode = "fail_open"
      /\ policy.threshold = Default /\ policy.streak = 0 /\ policy.counted = <<>>
      /\ policy.poison = NoRef /\ policy.seenRollbacks = 0 /\ policy.events = <<>>
  OBVIOUS
<1>2. policy \in PolicyState
  <2>1. <<>> \in Seq(Releases) /\ <<>> \in Seq(Events)
    OBVIOUS
  <2>2. NoRef \in PoisonRefs \cup {NoRef} /\ "fail_open" \in Modes
    BY DEF Modes
  <2> QED
    BY <2>1, <2>2, ThresholdAssumption DEF PolicyState
<1>3. TypeOK
  <2>1. "idle" \in Stages /\ "short" \in Healths /\ "none" \in Outcomes
    BY DEF Stages, Healths, Outcomes
  <2> QED
    BY <1>2, <2>1 DEF TypeOK
<1>4. Draft(policy)
  <2>1. Distinct(policy.counted) /\ Len(policy.counted) = 0
    BY <1>1 DEF Distinct
  <2>2. Numbered(policy.events, policy.generation)
    BY <1>1, LimitAssumption DEF Numbered
  <2>3. PoisonBehind(policy)
    BY <1>1, ReleaseAssumption DEF PoisonBehind
  <2> QED
    BY <1>1, <1>2, <2>1, <2>2, <2>3, LimitAssumption, ThresholdAssumption DEF Draft
<1>5. GoodPolicy(policy)
  BY <1>1, <1>4 DEF GoodPolicy
<1>6. ConsumedInOrder /\ CountedAfterRollbacks
  BY <1>1 DEF ConsumedInOrder, CountedAfterRollbacks, Counted
<1>7. Tracked
  BY <1>1, FS_EmptySet, LimitAssumption DEF Tracked, Counted
<1> QED
  BY <1>3, <1>5, <1>6, <1>7 DEF Inv

LEMMA NextInv == Inv /\ [Next]_vars => Inv'
<1> SUFFICES ASSUME Inv, [Next]_vars PROVE Inv'
  OBVIOUS
<1>1. Consumes \/ Counts
  BY PolicyStep DEF Inv
<1>2. GoodPolicy(policy') /\ policy' \in PolicyState
  BY <1>1 DEF Consumes, Counts, GoodPolicy, Draft
<1>3. TypeOK'
  BY <1>2, TypeStep DEF Inv
<1>4. ConsumedInOrder'
  BY ConsumedStep DEF Inv
<1>5. CountedAfterRollbacks'
  BY <1>1, CountedStep
<1>6. GoodPolicy(policy)'
  BY <1>2
<1>7. Tracked'
  BY <1>2, TrackedStep DEF Inv
<1> QED
  BY <1>3, <1>4, <1>5, <1>6, <1>7 DEF Inv

(* What a good policy says of the qualification and of its audit trail.    *)
LEMMA InvImplies ==
    Inv => TypeOK /\ QualificationIsExact /\ AuditMatchesState /\ CountedAfterRollbacks
<1> SUFFICES ASSUME Inv
             PROVE  QualificationIsExact /\ AuditMatchesState
  BY DEF Inv
<1>1. Draft(policy) /\ (policy.events # <<>> => Describes(LastEvent(policy), policy))
  BY DEF Inv, GoodPolicy
<1>2. QualificationIsExact
  <2>1. Tracked
    BY DEF Inv
  <2> QED
    BY <1>1, <2>1 DEF QualificationIsExact, Tracked, Draft, Distinct, Describes
<1>3. AuditMatchesState
  <2>1. (policy.mode = "fail_open" /\ policy.events # <<>>
           /\ LastEvent(policy).type = "invalidated") => policy.streak = 0
    BY <1>1 DEF Describes
  <2> QED
    BY <1>1, <2>1 DEF AuditMatchesState, Draft, Numbered, Describes
<1> QED
  BY <1>2, <1>3

-----------------------------------------------------------------------------
(* The types: in particular a reconciliation that got past the pointer     *)
(* works on an actual release.                                             *)
THEOREM TypeCorrect == Spec => []TypeOK
<1> QED
  BY InitInv, NextInv, InvImplies, PTL DEF Spec

(* The streak is the number of different releases counted into it up to    *)
(* MaxCounted + 1, and from there on rests on at least so many; it closes  *)
(* the policy at the threshold and not before                              *)
(* (PolicyState::record_clean_release).                                    *)
THEOREM QualificationExact == Spec => []QualificationIsExact
<1> QED
  BY InitInv, NextInv, InvImplies, PTL DEF Spec

(* No release counted before a rollback outlives its consumption: the lock *)
(* that reconcile_release_health holds, and the order of its reads.        *)
THEOREM CountedOnlyAfterRollbacks == Spec => []CountedAfterRollbacks
<1> QED
  BY InitInv, NextInv, InvImplies, PTL DEF Spec

(* The bounded event tail is gapless, its last entry is the state, and an  *)
(* invalidation, new or repeated, leaves an empty streak.                  *)
THEOREM AuditTrailMatches == Spec => []AuditMatchesState
<1> QED
  BY InitInv, NextInv, InvImplies, PTL DEF Spec

(* Only a demotion weakens a Fail-Closed policy.                           *)
THEOREM FailClosedStays == Spec => FailClosedIsSticky
<1>1. Inv /\ [Next]_vars => [policy.mode = "fail_closed" => StaysClosed]_vars
  <2> SUFFICES ASSUME Inv, [Next]_vars, policy.mode = "fail_closed"
               PROVE  StaysClosed
    OBVIOUS
  <2>1. Consumes \/ Counts
    BY PolicyStep DEF Inv
  <2> QED
    BY <2>1 DEF Consumes, Counts
<1> QED
  BY <1>1, InitInv, NextInv, PTL DEF Spec, FailClosedIsSticky
=============================================================================
