------------------------- MODULE ReleaseTrustProofs -------------------------
(***************************************************************************)
(* ReleaseTrust for every set of releases, any finite number of concurrent *)
(* invocations, every policy limit and any number of pointers made.        *)
(***************************************************************************)
EXTENDS ReleaseTrust, SequenceTheorems, FiniteSetTheorems, TLAPS

-----------------------------------------------------------------------------
(* The retained records: removing one, and dropping the least recent.      *)
Unrepeated(s) == \A i, j \in DOMAIN s : s[i].ref = s[j].ref => i = j

LEMMA RemoveProperties ==
    ASSUME NEW S, NEW s \in Seq(S), NEW i \in DOMAIN s
    PROVE  /\ RemoveAt(s, i) \in Seq(S)
           /\ Len(RemoveAt(s, i)) = Len(s) - 1
           /\ \A j \in 1 .. (Len(s) - 1) :
                 RemoveAt(s, i)[j] = IF j < i THEN s[j] ELSE s[j + 1]
<1> DEFINE left == SubSeq(s, 1, i - 1)
           right == SubSeq(s, i + 1, Len(s))
<1>1. Len(s) \in Nat /\ i \in 1 .. Len(s)
  BY LenProperties
<1>2. /\ left \in Seq(S) /\ Len(left) = i - 1
      /\ \A j \in 1 .. (i - 1) : left[j] = s[j]
  <2>1. 1 \in Int /\ i - 1 \in Int /\ \A j \in 1 .. (i - 1) : s[j] \in S
    BY <1>1, ElementOfSeq
  <2> QED
    BY <2>1, <1>1, SubSeqProperties
<1>3. /\ right \in Seq(S) /\ Len(right) = Len(s) - i
      /\ \A j \in 1 .. (Len(s) - i) : right[j] = s[i + j]
  <2>1. i + 1 \in Int /\ Len(s) \in Int /\ \A j \in (i + 1) .. Len(s) : s[j] \in S
    BY <1>1, ElementOfSeq
  <2> QED
    BY <2>1, <1>1, SubSeqProperties
<1> HIDE DEF left, right
<1>4. /\ left \o right \in Seq(S)
      /\ Len(left \o right) = Len(left) + Len(right)
      /\ \A j \in 1 .. (Len(left) + Len(right)) : (left \o right)[j] =
            IF j <= Len(left) THEN left[j] ELSE right[j - Len(left)]
  BY <1>2, <1>3, ConcatProperties
<1>5. RemoveAt(s, i) = left \o right
  BY DEF RemoveAt, left, right
<1>6. Len(left) + Len(right) = Len(s) - 1
  BY <1>1, <1>2, <1>3
<1>7. ASSUME NEW j \in 1 .. (Len(s) - 1)
      PROVE  (left \o right)[j] = IF j < i THEN s[j] ELSE s[j + 1]
  <2>1. CASE j < i
    <3>1. j <= Len(left) /\ j \in 1 .. (Len(left) + Len(right)) /\ j \in 1 .. (i - 1)
      BY <2>1, <1>1, <1>2, <1>6
    <3>2. (left \o right)[j] = left[j]
      BY <3>1, <1>4
    <3> QED
      BY <2>1, <3>1, <3>2, <1>2
  <2>2. CASE ~(j < i)
    <3> DEFINE k == j - (i - 1)
    <3>1. ~(j <= Len(left)) /\ j \in 1 .. (Len(left) + Len(right))
      BY <2>2, <1>1, <1>2, <1>6
    <3>2. (left \o right)[j] = right[j - Len(left)]
      BY <3>1, <1>4
    <3>3. j - Len(left) = k /\ k \in 1 .. (Len(s) - i) /\ i + k = j + 1
      BY <2>2, <1>1, <1>2
    <3>4. right[k] = s[i + k]
      BY <3>3, <1>3
    <3> QED
      BY <2>2, <3>2, <3>3, <3>4
  <2> QED
    BY <2>1, <2>2
<1> QED
  BY <1>4, <1>5, <1>6, <1>7

(* What a new list of records is made of: the records of the old one, and  *)
(* one more of a release that none of them is about.                       *)
LEMMA NewestProperties ==
    ASSUME NEW s \in Seq(Records), Unrepeated(s), Len(s) <= MaxRecords,
           NEW e \in Records, \A i \in DOMAIN s : s[i].ref # e.ref
    PROVE  LET t == Newest(Append(s, e))
           IN  /\ t \in Seq(Records) /\ Len(t) <= MaxRecords /\ Unrepeated(t)
               /\ \A i \in DOMAIN t : t[i] = e \/ \E j \in DOMAIN s : t[i] = s[j]
<1> DEFINE long == Append(s, e)
           t == Newest(long)
<1>1. Len(s) \in Nat /\ MaxRecords \in Nat \ {0} /\ DOMAIN s = 1 .. Len(s)
  BY LenProperties, LimitAssumption
<1>2. /\ long \in Seq(Records) /\ long # <<>> /\ Len(long) = Len(s) + 1
      /\ long[Len(s) + 1] = e
      /\ \A i \in 1 .. Len(s) : long[i] = s[i]
  BY AppendProperties
<1>3. /\ Tail(long) \in Seq(Records) /\ Len(Tail(long)) = Len(long) - 1
      /\ \A i \in 1 .. (Len(long) - 1) : Tail(long)[i] = long[i + 1]
  BY <1>2, HeadTailProperties
<1>4. t = IF Len(long) > MaxRecords THEN Tail(long) ELSE long
  BY DEF Newest
<1> HIDE DEF long, t
<1>5. DOMAIN long = 1 .. (Len(s) + 1)
  BY <1>1, <1>2, LenProperties
<1>6. Unrepeated(long)
  <2> SUFFICES ASSUME NEW i \in 1 .. (Len(s) + 1), NEW j \in 1 .. (Len(s) + 1),
                      long[i].ref = long[j].ref
               PROVE  i = j
    BY <1>5 DEF Unrepeated
  <2>1. CASE i \in 1 .. Len(s) /\ j \in 1 .. Len(s)
    BY <2>1, <1>1, <1>2 DEF Unrepeated
  <2>2. CASE i = Len(s) + 1 /\ j \in 1 .. Len(s)
    BY <2>2, <1>1, <1>2
  <2>3. CASE i \in 1 .. Len(s) /\ j = Len(s) + 1
    BY <2>3, <1>1, <1>2
  <2> QED
    BY <2>1, <2>2, <2>3, <1>1
<1>7. \A i \in DOMAIN long : long[i] = e \/ \E j \in DOMAIN s : long[i] = s[j]
  BY <1>1, <1>2, <1>5
<1>8. CASE Len(long) > MaxRecords
  <2>1. t = Tail(long) /\ DOMAIN t = 1 .. Len(s)
    BY <1>1, <1>2, <1>3, <1>4, <1>8, LenProperties
  <2>2. Len(t) <= MaxRecords /\ t \in Seq(Records)
    BY <2>1, <1>1, <1>2, <1>3
  <2>3. \A i \in DOMAIN t : i + 1 \in DOMAIN long /\ t[i] = long[i + 1]
    BY <2>1, <1>1, <1>2, <1>3, <1>5
  <2>4. Unrepeated(t)
    <3> SUFFICES ASSUME NEW i \in DOMAIN t, NEW j \in DOMAIN t, t[i].ref = t[j].ref
                 PROVE  i = j
      BY DEF Unrepeated
    <3>1. i + 1 = j + 1
      BY <2>3, <1>6 DEF Unrepeated
    <3> QED
      BY <3>1, <2>1, <1>1
  <2> QED
    BY <2>2, <2>3, <2>4, <1>7 DEF t, long
<1>9. CASE ~(Len(long) > MaxRecords)
  <2>1. t = long
    BY <1>4, <1>9
  <2> QED
    BY <2>1, <1>1, <1>2, <1>6, <1>7, <1>9 DEF t, long
<1> QED
  BY <1>8, <1>9

(* The record of an observed release is one of the records, about it.      *)
LEMMA RecordOfObserved ==
    ASSUME NEW r \in Observed
    PROVE  /\ IndexOf(r) \in DOMAIN records
           /\ RecordOf(r) = records[IndexOf(r)] /\ RecordOf(r).ref = r
<1>1. \E i \in DOMAIN records : records[i].ref = r
  BY DEF Observed
<1> QED
  BY <1>1 DEF IndexOf, RecordOf

(* An evaluation keeps the records bounded and one for each release, and   *)
(* starts none in the future.                                              *)
RecordsOK(s) ==
    /\ s \in Seq(Records) /\ Len(s) <= MaxRecords /\ Unrepeated(s)
    /\ \A i \in DOMAIN s : s[i].first <= clock

LEMMA OthersProperties ==
    ASSUME RecordsOK(records), NEW r \in Releases
    PROVE  RecordsOK(Others(r)) /\ \A i \in DOMAIN Others(r) : Others(r)[i].ref # r
<1>1. Len(records) \in Nat /\ DOMAIN records = 1 .. Len(records) /\ MaxRecords \in Nat
  BY LenProperties, LimitAssumption DEF RecordsOK
<1>2. CASE r \notin Observed
  BY <1>2 DEF Others, Observed
<1>3. CASE r \in Observed
  <2> DEFINE k == IndexOf(r)
             t == RemoveAt(records, k)
             Old(j) == IF j < k THEN j ELSE j + 1
  <2>1. k \in DOMAIN records /\ records[k].ref = r
    BY <1>3, RecordOfObserved
  <2> HIDE DEF k
  <2>2. /\ t \in Seq(Records) /\ Len(t) = Len(records) - 1
        /\ \A j \in 1 .. (Len(records) - 1) :
              t[j] = IF j < k THEN records[j] ELSE records[j + 1]
    BY <2>1, RemoveProperties DEF RecordsOK
  <2>3. DOMAIN t = 1 .. (Len(records) - 1)
    BY <2>2, LenProperties
  <2>4. Others(r) = t
    BY <1>3 DEF Others, k
  <2> HIDE DEF t
  <2>5. \A j \in DOMAIN t : /\ t[j] = records[Old(j)]
                            /\ Old(j) \in DOMAIN records /\ Old(j) # k
    BY <2>1, <2>2, <2>3, <1>1
  <2>6. \A i, j \in DOMAIN t : Old(i) = Old(j) => i = j
    BY <2>1, <2>3, <1>1
  <2> HIDE DEF Old
  <2>7. Unrepeated(t)
    BY <2>5, <2>6 DEF Unrepeated, RecordsOK
  <2>8. \A j \in DOMAIN t : t[j].ref # r /\ t[j].first <= clock
    BY <2>1, <2>5 DEF Unrepeated, RecordsOK
  <2>9. Len(t) <= MaxRecords
    BY <2>2, <1>1 DEF RecordsOK
  <2> QED
    BY <2>2, <2>4, <2>7, <2>8, <2>9 DEF RecordsOK
<1> QED
  BY <1>2, <1>3

(* record_release_evaluation, with the eviction of the oldest record.      *)
LEMMA EvaluatedProperties ==
    ASSUME RecordsOK(records), clock \in Nat, NEW r \in Releases
    PROVE  RecordsOK(Evaluated(r))
<1> DEFINE old == IF r \in Observed THEN RecordOf(r)
                  ELSE [ref |-> r, first |-> clock, count |-> 0]
           count == IF old.count > MaxCurrent THEN old.count ELSE old.count + 1
           new == [old EXCEPT !.count = count]
<1>1. old \in Records /\ old.ref = r /\ old.first <= clock
  <2>1. CASE r \in Observed
    <3>1. records[IndexOf(r)] \in Records /\ records[IndexOf(r)].first <= clock
      BY <2>1, RecordOfObserved, ElementOfSeq, LenProperties DEF RecordsOK
    <3> QED
      BY <3>1, <2>1, RecordOfObserved
  <2>2. CASE r \notin Observed
    BY <2>2 DEF Records
  <2> QED
    BY <2>1, <2>2
<1> HIDE DEF old
<1>2. count \in Nat
  BY <1>1, LimitAssumption DEF Records
<1> HIDE DEF count
<1>3. new \in Records /\ new.ref = r /\ new.first <= clock
  BY <1>1, <1>2 DEF Records
<1> HIDE DEF new
<1>4. RecordsOK(Others(r)) /\ \A i \in DOMAIN Others(r) : Others(r)[i].ref # new.ref
  BY <1>3, OthersProperties
<1>5. LET t == Newest(Append(Others(r), new))
      IN  /\ t \in Seq(Records) /\ Len(t) <= MaxRecords /\ Unrepeated(t)
          /\ \A i \in DOMAIN t : t[i] = new \/ \E j \in DOMAIN Others(r) : t[i] = Others(r)[j]
  BY <1>3, <1>4, NewestProperties DEF RecordsOK
<1>6. Evaluated(r) = Newest(Append(Others(r), new))
  BY DEF Evaluated, new, count, old
<1> QED
  BY <1>3, <1>4, <1>5, <1>6 DEF RecordsOK

-----------------------------------------------------------------------------
(* What the steps of one invocation rely on: it evaluates for an actual    *)
(* release, the evidence it carries past the freshness check began after   *)
(* the adoption it judges, and the pointer it makes is younger than it.    *)
Evidence(h) ==
    /\ pc[h] \in {"loaded", "noted"} => mine[h] \in Releases
    /\ pc[h] \in {"fresh", "cool", "aiming", "stamped"} =>
          /\ judged[h].ref \in Releases
          /\ judged[h].at <= judged[h].first
          /\ judged[h].first <= clock
    /\ pc[h] = "stamped" => judged[h].first < target[h].at

(* No observation lies in the future.                                      *)
Timely ==
    /\ \A i \in DOMAIN records : records[i].first <= clock
    /\ \A h \in Hooks : Evidence(h)

(* The present adoption is the latest one, unless it was written late.     *)
LateOrLatest == pointer.at \in late \/ pointer.at = latest

(* Every conviction rests on evidence older than the latest adoption.      *)
ConvictionsArePast ==
    \A r \in Releases : \A c \in convictions[r] : c[2] < latest

Inv == TypeOK /\ Timely /\ LateOrLatest /\ ConvictionsArePast /\ ConvictedOnce

(* The variables of the invocations, after a step.                         *)
HookTypes ==
    /\ pc' \in [Hooks -> Places]
    /\ mine' \in [Hooks -> Known]
    /\ judged' \in [Hooks -> Judged]
    /\ target' \in [Hooks -> Pointers]

(* The types of the records and their times, in one.                       *)
LEMMA RecordsOfType ==
    ASSUME TypeOK, Timely
    PROVE  RecordsOK(records)
BY DEF TypeOK, Timely, RecordsOK, Unrepeated

(* The end of an invocation leaves the other invocations alone.            *)
LEMMA LeaveType ==
    ASSUME TypeOK, NEW h \in Hooks, Leave(h)
    PROVE  HookTypes /\ pc'[h] = "idle" /\ \A g \in Hooks \ {h} : pc'[g] = pc[g]
<1>1. /\ NotJudged \in Judged /\ NoPointer \in Pointers
      /\ NoRelease \in Known /\ "idle" \in Places
  BY DEF NotJudged, Judged, NoPointer, Pointers, Known, Places
<1> QED
  BY <1>1 DEF Leave, Goto, TypeOK, HookTypes

(* What a pointer write changes.                                           *)
LEMMA AdoptType ==
    ASSUME TypeOK, NEW p \in Pointers, Adopt(p)
    PROVE  /\ pointer' \in Pointers
           /\ latest' \in Nat /\ late' \in SUBSET Nat
           /\ before' \in Known /\ disturbed' \in BOOLEAN
<1>1. p.at \in Nat /\ latest \in Nat /\ late \in SUBSET Nat /\ pointer.ref \in Known
  BY DEF TypeOK, Pointers
<1>2. pointer' \in Pointers /\ latest' \in Nat /\ late' \in SUBSET Nat
  BY <1>1 DEF Adopt
<1>3. before' \in Known /\ disturbed' \in BOOLEAN
  <2>1. CASE p.ref = pointer.ref
    BY <2>1 DEF Adopt, TypeOK
  <2>2. CASE p.ref # pointer.ref
    BY <2>2, <1>1 DEF Adopt, TypeOK
  <2> QED
    BY <2>1, <2>2
<1> QED
  BY <1>2, <1>3

(* The latest adoption time only grows, over the one just written, and an  *)
(* adoption that is not the latest is known to be late.                    *)
LEMMA AdoptTimes ==
    ASSUME TypeOK, NEW p \in Pointers, Adopt(p)
    PROVE  /\ latest <= latest' /\ p.at <= latest'
           /\ late \subseteq late' /\ LateOrLatest'
<1>1. p.at \in Nat /\ latest \in Nat
  BY DEF TypeOK, Pointers
<1>2. pointer' = p
  BY DEF Adopt
<1>3. CASE p.at < latest
  BY <1>1, <1>2, <1>3 DEF Adopt, LateOrLatest
<1>4. CASE ~(p.at < latest)
  BY <1>1, <1>2, <1>4 DEF Adopt, LateOrLatest
<1> QED
  BY <1>3, <1>4

(* A pointer that is made carries a later time than all before it.         *)
LEMMA StampedType ==
    ASSUME TypeOK, NEW r \in Known, Tick
    PROVE  /\ Stamped(r) \in Pointers /\ Stamped(r).at = clock + 1
           /\ clock' \in Nat /\ clock' = clock + 1
BY DEF Stamped, Tick, TypeOK, Pointers

(* The variables a note writes, after a step.                              *)
NoteTypes ==
    /\ note' \in [ref : Known, previous : Known]
    /\ note'.ref # NoRelease => note'.previous # note'.ref
    /\ disturbed' \in BOOLEAN

(* A note names two different releases.                                    *)
LEMMA NotedType ==
    ASSUME TypeOK, NEW r \in Known
    PROVE  /\ Noted(note, r) \in [ref : Known, previous : Known]
           /\ Noted(note, r).ref # NoRelease => Noted(note, r).previous # Noted(note, r).ref
BY DEF Noted, TypeOK

(* A note that may fail.                                                   *)
LEMMA NoteType ==
    ASSUME TypeOK, NEW r \in Known, Note(r)
    PROVE  NoteTypes
<1>1. CASE UNCHANGED <<note, disturbed>>
  BY <1>1 DEF TypeOK, NoteTypes
<1>2. CASE note' = Noted(note, r) /\ disturbed' = (disturbed \/ r # pointer.ref)
  BY <1>2, NotedType DEF NoteTypes, TypeOK
<1> QED
  BY <1>1, <1>2 DEF Note

(* The types of everything, one action at a time.                          *)
LEMMA TypeStep ==
    ASSUME TypeOK, Timely, [Next]_vars
    PROVE  TypeOK'
<1> USE DEF store, hook, operator, history
<1>1. ASSUME NEW h \in Hooks, Load(h) PROVE TypeOK'
  <2>1. pointer.ref \in Known /\ "loaded" \in Places
    BY DEF TypeOK, Pointers, Places
  <2> QED
    BY <2>1, <1>1 DEF Load, Goto, TypeOK
<1>2. ASSUME NEW h \in Hooks, RecordObservation(h) PROVE TypeOK'
  <2>1. NoteTypes
    BY <1>2, NoteType DEF RecordObservation, TypeOK
  <2> QED
    BY <2>1, <1>2 DEF RecordObservation, Goto, TypeOK, NoteTypes, Places
<1>3. ASSUME NEW h \in Hooks, RecordEvaluation(h) PROVE TypeOK'
  <2>1. mine[h] \in Releases
    BY <1>3 DEF RecordEvaluation, Timely, Evidence
  <2>2. RecordsOK(Evaluated(mine[h]))
    BY <2>1, RecordsOfType, EvaluatedProperties DEF TypeOK
  <2>3. /\ records' \in Seq(Records) /\ Len(records') <= MaxRecords
        /\ \A i, j \in DOMAIN records' : records'[i].ref = records'[j].ref => i = j
    BY <2>2, <1>3 DEF RecordEvaluation, RecordsOK, Unrepeated, TypeOK
  <2>4. /\ pc' \in [Hooks -> Places] /\ mine' \in [Hooks -> Known]
    BY <1>3 DEF RecordEvaluation, Goto, TypeOK, Places, Known
  <2> QED
    BY <2>3, <2>4, <1>3 DEF RecordEvaluation, TypeOK
<1>4. ASSUME NEW h \in Hooks, ReadPointer(h) PROVE TypeOK'
  <2>1. [ref |-> pointer.ref, at |-> pointer.at, first |-> 0] \in Judged
    BY DEF TypeOK, Pointers, Judged
  <2> QED
    BY <2>1, <1>4 DEF ReadPointer, Goto, TypeOK, Places
<1>5. ASSUME NEW h \in Hooks, ReadDeviation(h) PROVE TypeOK'
  <2>1. HookTypes
    BY <1>5, LeaveType DEF ReadDeviation, Goto, TypeOK, HookTypes, Places
  <2> QED
    BY <2>1, <1>5 DEF ReadDeviation, TypeOK, HookTypes
<1>6. ASSUME NEW h \in Hooks, ReadFreshness(h) PROVE TypeOK'
  <2>1. HookTypes
    <3>1. CASE Leave(h)
      BY <3>1, LeaveType
    <3>2. CASE IsFresh(judged[h])
      <4> DEFINE first == RecordOf(judged[h].ref).first
      <4>1. first \in Nat
        <5>1. judged[h].ref \in Observed /\ records \in Seq(Records)
          BY <3>2 DEF IsFresh, TypeOK
        <5>2. RecordOf(judged[h].ref) \in Records
          BY <5>1, RecordOfObserved, ElementOfSeq, LenProperties
        <5> QED
          BY <5>2 DEF Records
      <4>2. judged' = [judged EXCEPT ![h].first = first]
        BY <3>2, <1>6 DEF ReadFreshness
      <4> HIDE DEF first
      <4>3. judged' \in [Hooks -> Judged]
        BY <4>1, <4>2 DEF TypeOK, Judged
      <4> QED
        BY <4>3, <3>2, <1>6 DEF ReadFreshness, Goto, TypeOK, HookTypes, Places
    <3> QED
      BY <3>1, <3>2, <1>6 DEF ReadFreshness
  <2> QED
    BY <2>1, <1>6 DEF ReadFreshness, TypeOK, HookTypes
<1>7. ASSUME NEW h \in Hooks, ReadCooldown(h) PROVE TypeOK'
  <2>1. HookTypes
    BY <1>7, LeaveType DEF ReadCooldown, Goto, TypeOK, HookTypes, Places
  <2> QED
    BY <2>1, <1>7 DEF ReadCooldown, TypeOK, HookTypes
<1>8. ASSUME NEW h \in Hooks, ReadPrevious(h) PROVE TypeOK'
  <2>1. HookTypes
    <3>1. CASE Leave(h)
      BY <3>1, LeaveType
    <3>2. CASE ~Leave(h)
      <4>1. note.previous \in Known /\ target[h] \in Pointers
        BY DEF TypeOK
      <4>2. [target[h] EXCEPT !.ref = note.previous] \in Pointers
        BY <4>1 DEF Pointers
      <4>3. target' \in [Hooks -> Pointers]
        BY <4>2, <3>2, <1>8 DEF ReadPrevious, TypeOK
      <4> QED
        BY <4>3, <3>2, <1>8 DEF ReadPrevious, Goto, TypeOK, HookTypes, Places
    <3> QED
      BY <3>1, <3>2
  <2> QED
    BY <2>1, <1>8 DEF ReadPrevious, TypeOK, HookTypes
<1>9. ASSUME NEW h \in Hooks, MovePointer(h) PROVE TypeOK'
  <2>1. target[h] \in Pointers /\ Adopt(target[h])
    BY <1>9 DEF MovePointer, TypeOK
  <2>2. /\ pointer' \in Pointers
        /\ latest' \in Nat /\ late' \in SUBSET Nat
        /\ before' \in Known /\ disturbed' \in BOOLEAN
    BY <2>1, AdoptType
  <2>3. /\ convictions' \in [Releases -> SUBSET (Nat \X Nat)]
        /\ condemned' \in SUBSET Releases
    <3>1. CASE pointer = [ref |-> judged[h].ref, at |-> judged[h].at]
      <4>1. pointer.ref \in Releases
        BY <3>1, <1>9 DEF MovePointer, Timely, Evidence
      <4>2. <<pointer.at, judged[h].first>> \in Nat \X Nat
        BY DEF TypeOK, Pointers, Judged
      <4> QED
        BY <4>1, <4>2, <3>1, <1>9 DEF MovePointer, TypeOK
    <3>2. CASE pointer # [ref |-> judged[h].ref, at |-> judged[h].at]
      BY <3>2, <1>9 DEF MovePointer, TypeOK
    <3> QED
      BY <3>1, <3>2
  <2>4. pc' \in [Hooks -> Places] /\ moves' \in Nat
    BY <1>9 DEF MovePointer, Goto, TypeOK, Places
  <2>5. judged' \in [Hooks -> Judged]
    BY <1>9 DEF MovePointer, TypeOK, NotJudged, Judged, Known
  <2> QED
    BY <2>2, <2>3, <2>4, <2>5, <1>9 DEF MovePointer, TypeOK
<1>10. ASSUME NEW h \in Hooks, NoteMove(h) PROVE TypeOK'
  <2>1. NoteTypes
    <3>1. target[h].ref \in Known
      BY DEF TypeOK, Pointers
    <3> QED
      BY <3>1, <1>10, NotedType DEF NoteMove, TypeOK, NoteTypes
  <2>2. pc' \in [Hooks -> Places] /\ target' \in [Hooks -> Pointers]
    BY <1>10 DEF NoteMove, Goto, TypeOK, Places, NoPointer, Pointers, Known
  <2> QED
    BY <2>1, <2>2, <1>10 DEF NoteMove, TypeOK, NoteTypes
<1>11. ASSUME NEW h \in Hooks, RecordRollback(h) PROVE TypeOK'
  <2>1. HookTypes
    BY <1>11, LeaveType DEF RecordRollback
  <2> QED
    BY <2>1, <1>11 DEF RecordRollback, TypeOK, HookTypes
<1>12. ASSUME NEW h \in Hooks, Fail(h) PROVE TypeOK'
  <2>1. HookTypes
    BY <1>12, LeaveType DEF Fail
  <2>2. unrecorded' \in Nat
    BY <1>12 DEF Fail, TypeOK
  <2> QED
    BY <2>1, <2>2, <1>12 DEF Fail, TypeOK, HookTypes
<1>13. ASSUME NEW r \in Releases, SetTrusted(r) PROVE TypeOK'
  <2>1. Stamped(r) \in Pointers /\ clock' \in Nat
    BY <1>13, StampedType DEF SetTrusted, Known
  <2>2. sets' \in 0 .. MaxSets
    BY <1>13, LimitAssumption DEF SetTrusted, TypeOK
  <2>3. admin' \in [place : AdminPlaces, pointer : Pointers]
    BY <2>1, <1>13 DEF SetTrusted, OperatorGoto, AdminPlaces
  <2> QED
    BY <2>1, <2>2, <2>3, <1>13 DEF SetTrusted, TypeOK
<1>14. CASE SaveTrusted
  <2>1. admin.pointer \in Pointers /\ NoPointer \in Pointers
    BY DEF TypeOK, NoPointer, Pointers, Known
  <2>2. /\ pointer' \in Pointers
        /\ latest' \in Nat /\ late' \in SUBSET Nat
        /\ before' \in Known /\ disturbed' \in BOOLEAN
    BY <2>1, <1>14, AdoptType DEF SaveTrusted
  <2>3. admin' \in [place : AdminPlaces, pointer : Pointers]
    BY <2>1, <1>14 DEF SaveTrusted, OperatorGoto, AdminPlaces
  <2> QED
    BY <2>2, <2>3, <1>14 DEF SaveTrusted, TypeOK
<1>15. CASE LoadBack \/ NoteSet
  <2>1. CASE LoadBack
    BY <2>1 DEF LoadBack, OperatorGoto, AdminPlaces, TypeOK
  <2>2. CASE NoteSet
    <3>1. admin.pointer.ref \in Known /\ NoPointer \in Pointers
      BY DEF TypeOK, NoPointer, Pointers, Known
    <3>2. NoteTypes
      BY <3>1, <2>2, NoteType DEF NoteSet
    <3>3. admin' \in [place : AdminPlaces, pointer : Pointers]
      BY <3>1, <2>2 DEF NoteSet, OperatorGoto, AdminPlaces
    <3> QED
      BY <3>2, <3>3, <2>2 DEF NoteSet, TypeOK, NoteTypes
  <2> QED
    BY <1>15, <2>1, <2>2
<1>16. CASE CooldownElapses
  BY <1>16 DEF CooldownElapses, TypeOK
<1>17. CASE UNCHANGED vars
  BY <1>17 DEF vars, TypeOK
<1>18. ASSUME NEW h \in Hooks, MakePointer(h) PROVE TypeOK'
  <2>1. target[h].ref \in Known
    BY DEF TypeOK, Pointers
  <2>2. Stamped(target[h].ref) \in Pointers /\ clock' \in Nat
    BY <2>1, <1>18, StampedType DEF MakePointer
  <2>3. target' \in [Hooks -> Pointers] /\ pc' \in [Hooks -> Places]
    BY <2>2, <1>18 DEF MakePointer, Goto, TypeOK, Places
  <2> QED
    BY <2>2, <2>3, <1>18 DEF MakePointer, TypeOK
<1> QED
  BY <1>1, <1>2, <1>3, <1>4, <1>5, <1>6, <1>7, <1>8, <1>9, <1>10, <1>11, <1>12,
     <1>13, <1>14, <1>15, <1>16, <1>17, <1>18 DEF Next, HookStep

-----------------------------------------------------------------------------
(* No step puts an observation into the future.                            *)

(* A step of one invocation concerns its own evidence only.                *)
LEMMA OthersEvidence ==
    ASSUME TypeOK, Timely, NEW h \in Hooks, clock' \in Nat, clock <= clock',
           \A g \in Hooks \ {h} : /\ pc'[g] = pc[g] /\ mine'[g] = mine[g]
                                  /\ judged'[g] = judged[g]
                                  /\ target'[g] = target[g],
           Evidence(h)'
    PROVE  \A g \in Hooks : Evidence(g)'
<1> SUFFICES ASSUME NEW g \in Hooks, g # h
             PROVE  Evidence(g)'
  OBVIOUS
<1>1. Evidence(g) /\ judged[g] \in Judged /\ clock \in Nat
  BY DEF Timely, TypeOK
<1> QED
  BY <1>1 DEF Evidence, Judged

(* A later clock leaves every record in the past.                          *)
LEMMA LaterRecords ==
    ASSUME TypeOK, Timely, clock' = clock + 1, records' = records
    PROVE  \A i \in DOMAIN records' : records'[i].first <= clock'
<1> SUFFICES ASSUME NEW i \in DOMAIN records
             PROVE  records[i].first <= clock + 1
  OBVIOUS
<1>1. records \in Seq(Records) /\ records[i].first <= clock /\ clock \in Nat
  BY DEF TypeOK, Timely
<1>2. records[i] \in Records
  BY <1>1, ElementOfSeq, LenProperties
<1> QED
  BY <1>1, <1>2 DEF Records

LEMMA TimelyStep ==
    ASSUME TypeOK, Timely, TypeOK', [Next]_vars
    PROVE  Timely'
<1> USE DEF store, hook, operator, history
<1>0. clock \in Nat /\ clock <= clock
  BY DEF TypeOK
<1>1. ASSUME NEW h \in Hooks, Load(h) PROVE Timely'
  <2>1. pointer.ref \in Releases
    BY <1>1 DEF Load, TypeOK, Pointers, Known
  <2>2. Evidence(h)'
    BY <2>1, <1>1 DEF Load, Goto, TypeOK, Evidence
  <2>3. \A g \in Hooks : Evidence(g)'
    BY <2>2, <1>0, <1>1, OthersEvidence DEF Load, Goto, TypeOK
  <2> QED
    BY <2>3, <1>1 DEF Load, Timely
<1>2. ASSUME NEW h \in Hooks, RecordObservation(h) PROVE Timely'
  <2>1. Evidence(h)'
    BY <1>2 DEF RecordObservation, Goto, TypeOK, Evidence, Timely
  <2>2. \A g \in Hooks : Evidence(g)'
    BY <2>1, <1>0, <1>2, OthersEvidence DEF RecordObservation, Goto, TypeOK
  <2> QED
    BY <2>2, <1>2 DEF RecordObservation, Timely
<1>3. ASSUME NEW h \in Hooks, RecordEvaluation(h) PROVE Timely'
  <2>1. Evidence(h)'
    BY <1>3 DEF RecordEvaluation, Goto, TypeOK, Evidence
  <2>2. \A g \in Hooks : Evidence(g)'
    BY <2>1, <1>0, <1>3, OthersEvidence DEF RecordEvaluation, Goto, TypeOK
  <2>3. mine[h] \in Releases
    BY <1>3 DEF RecordEvaluation, Timely, Evidence
  <2>4. RecordsOK(Evaluated(mine[h]))
    BY <2>3, <1>0, RecordsOfType, EvaluatedProperties
  <2>5. \A i \in DOMAIN records' : records'[i].first <= clock
    BY <2>4, <1>3 DEF RecordEvaluation, RecordsOK, Timely
  <2> QED
    BY <2>2, <2>5, <1>3 DEF RecordEvaluation, Timely
<1>4. ASSUME NEW h \in Hooks, ReadPointer(h) PROVE Timely'
  <2>1. Evidence(h)'
    BY <1>4 DEF ReadPointer, Goto, TypeOK, Evidence
  <2>2. \A g \in Hooks : Evidence(g)'
    BY <2>1, <1>0, <1>4, OthersEvidence DEF ReadPointer, Goto, TypeOK
  <2> QED
    BY <2>2, <1>4 DEF ReadPointer, Timely
<1>5. ASSUME NEW h \in Hooks, ReadDeviation(h) PROVE Timely'
  <2>1. Evidence(h)'
    BY <1>5 DEF ReadDeviation, Leave, Goto, TypeOK, Evidence
  <2>2. \A g \in Hooks : Evidence(g)'
    BY <2>1, <1>0, <1>5, OthersEvidence DEF ReadDeviation, Leave, Goto, TypeOK
  <2> QED
    BY <2>2, <1>5 DEF ReadDeviation, Timely
<1>6. ASSUME NEW h \in Hooks, ReadFreshness(h) PROVE Timely'
  <2>1. Evidence(h)'
    <3>1. CASE Leave(h)
      BY <3>1 DEF Leave, Goto, TypeOK, Evidence
    <3>2. CASE IsFresh(judged[h])
      <4> DEFINE record == RecordOf(judged[h].ref)
      <4>1. judged[h].ref \in Observed /\ record.first >= judged[h].at
        BY <3>2 DEF IsFresh
      <4>2. record \in Records /\ record.ref = judged[h].ref /\ record.first <= clock
        BY <4>1, RecordOfObserved, ElementOfSeq, LenProperties DEF TypeOK, Timely
      <4>3. pc'[h] = "fresh" /\ judged'[h] = [judged[h] EXCEPT !.first = record.first]
        BY <3>2, <1>6 DEF ReadFreshness, Goto, TypeOK
      <4> HIDE DEF record
      <4>4. /\ judged'[h].ref = judged[h].ref /\ judged'[h].at = judged[h].at
            /\ judged'[h].first = record.first
        BY <4>3 DEF TypeOK, Judged
      <4>5. judged[h].ref \in Releases /\ record.first \in Nat /\ judged[h].at \in Nat
        BY <4>2 DEF TypeOK, Judged, Records
      <4> QED
        BY <4>1, <4>2, <4>3, <4>4, <4>5, <1>6 DEF ReadFreshness, Evidence
    <3> QED
      BY <3>1, <3>2, <1>6 DEF ReadFreshness
  <2>2. \A g \in Hooks : Evidence(g)'
    BY <2>1, <1>0, <1>6, OthersEvidence DEF ReadFreshness, Leave, Goto, TypeOK
  <2> QED
    BY <2>2, <1>6 DEF ReadFreshness, Timely
<1>7. ASSUME NEW h \in Hooks, ReadCooldown(h) PROVE Timely'
  <2>1. Evidence(h)'
    BY <1>7 DEF ReadCooldown, Leave, Goto, TypeOK, Evidence, Timely
  <2>2. \A g \in Hooks : Evidence(g)'
    BY <2>1, <1>0, <1>7, OthersEvidence DEF ReadCooldown, Leave, Goto, TypeOK
  <2> QED
    BY <2>2, <1>7 DEF ReadCooldown, Timely
<1>8. ASSUME NEW h \in Hooks, ReadPrevious(h) PROVE Timely'
  <2>1. Evidence(h)'
    BY <1>8 DEF ReadPrevious, Leave, Goto, TypeOK, Evidence, Timely
  <2>2. \A g \in Hooks : Evidence(g)'
    BY <2>1, <1>0, <1>8, OthersEvidence DEF ReadPrevious, Leave, Goto, TypeOK
  <2> QED
    BY <2>2, <1>8 DEF ReadPrevious, Timely
<1>9. ASSUME NEW h \in Hooks, MovePointer(h) PROVE Timely'
  <2>1. Evidence(h)'
    BY <1>9 DEF MovePointer, Goto, TypeOK, Evidence
  <2>2. \A g \in Hooks : Evidence(g)'
    BY <2>1, <1>0, <1>9, OthersEvidence DEF MovePointer, Goto, TypeOK
  <2> QED
    BY <2>2, <1>9 DEF MovePointer, Timely
<1>10. ASSUME NEW h \in Hooks, NoteMove(h) PROVE Timely'
  <2>1. Evidence(h)'
    BY <1>10 DEF NoteMove, Goto, TypeOK, Evidence
  <2>2. \A g \in Hooks : Evidence(g)'
    BY <2>1, <1>0, <1>10, OthersEvidence DEF NoteMove, Goto, TypeOK
  <2> QED
    BY <2>2, <1>10 DEF NoteMove, Timely
<1>11. ASSUME NEW h \in Hooks, RecordRollback(h) PROVE Timely'
  <2>1. Evidence(h)'
    BY <1>11 DEF RecordRollback, Leave, Goto, TypeOK, Evidence
  <2>2. \A g \in Hooks : Evidence(g)'
    BY <2>1, <1>0, <1>11, OthersEvidence DEF RecordRollback, Leave, Goto, TypeOK
  <2> QED
    BY <2>2, <1>11 DEF RecordRollback, Timely
<1>12. ASSUME NEW h \in Hooks, Fail(h) PROVE Timely'
  <2>1. Evidence(h)'
    BY <1>12 DEF Fail, Leave, Goto, TypeOK, Evidence
  <2>2. \A g \in Hooks : Evidence(g)'
    BY <2>1, <1>0, <1>12, OthersEvidence DEF Fail, Leave, Goto, TypeOK
  <2> QED
    BY <2>2, <1>12 DEF Fail, Timely
<1>13. ASSUME NEW r \in Releases, SetTrusted(r) PROVE Timely'
  <2>1. clock' = clock + 1 /\ clock' \in Nat
    BY <1>13, StampedType DEF SetTrusted, Known
  <2>2. \A g \in Hooks : Evidence(g)'
    <3> SUFFICES ASSUME NEW g \in Hooks PROVE Evidence(g)'
      OBVIOUS
    <3>1. Evidence(g) /\ judged[g] \in Judged
      BY DEF Timely, TypeOK
    <3> QED
      BY <3>1, <2>1, <1>0, <1>13 DEF SetTrusted, Evidence, Judged
  <2>3. \A i \in DOMAIN records' : records'[i].first <= clock'
    BY <2>1, <1>13, LaterRecords DEF SetTrusted
  <2> QED
    BY <2>2, <2>3 DEF Timely
<1>14. CASE SaveTrusted \/ LoadBack \/ NoteSet \/ CooldownElapses \/ UNCHANGED vars
  BY <1>14 DEF SaveTrusted, LoadBack, NoteSet, CooldownElapses, vars, Timely, Evidence
<1>15. ASSUME NEW h \in Hooks, MakePointer(h) PROVE Timely'
  <2>1. target[h].ref \in Known /\ judged[h] \in Judged
    BY DEF TypeOK, Pointers
  <2>2. /\ Stamped(target[h].ref).at = clock + 1
        /\ clock' = clock + 1 /\ clock' \in Nat
    BY <2>1, <1>15, StampedType DEF MakePointer
  <2>3. target'[h] = Stamped(target[h].ref) /\ judged'[h] = judged[h] /\ pc'[h] = "stamped"
    BY <1>15 DEF MakePointer, Goto, TypeOK
  <2>4. Evidence(h)'
    <3>1. Evidence(h) /\ pc[h] = "aiming"
      BY <1>15 DEF Timely, MakePointer
    <3>2. /\ judged[h].ref \in Releases /\ judged[h].at <= judged[h].first
          /\ judged[h].first <= clock
          /\ judged[h].at \in Nat /\ judged[h].first \in Nat
      BY <3>1, <2>1 DEF Evidence, Judged
    <3> QED
      BY <3>2, <2>2, <2>3, <1>0 DEF Evidence
  <2>5. \A g \in Hooks : Evidence(g)'
    BY <2>2, <2>4, <1>0, <1>15, OthersEvidence DEF MakePointer, Goto, TypeOK
  <2>6. \A i \in DOMAIN records' : records'[i].first <= clock'
    BY <2>2, <1>15, LaterRecords DEF MakePointer
  <2> QED
    BY <2>5, <2>6 DEF Timely
<1> QED
  BY <1>1, <1>2, <1>3, <1>4, <1>5, <1>6, <1>7, <1>8, <1>9, <1>10, <1>11, <1>12,
     <1>13, <1>14, <1>15 DEF Next, HookStep

-----------------------------------------------------------------------------
(* A rollback adds a conviction only for the present adoption.  Unless     *)
(* that was written late, its evidence is younger than that of every       *)
(* conviction before it.                                                   *)
LEMMA ConvictionStep ==
    ASSUME Inv, TypeOK', [Next]_vars
    PROVE  LateOrLatest' /\ ConvictionsArePast' /\ ConvictedOnce'
<1> USE DEF store, hook, operator, history
<1> DEFINE Same == UNCHANGED <<convictions, pointer, latest, late>>
           Goal == LateOrLatest' /\ ConvictionsArePast' /\ ConvictedOnce'
<1>1. ASSUME Same PROVE Goal
  BY <1>1 DEF Inv, LateOrLatest, ConvictionsArePast, ConvictedOnce
<1>2. \A r \in Releases : \A c \in convictions[r] :
         /\ c \in Nat \X Nat /\ c[2] \in Nat /\ c[2] < latest
  BY DEF Inv, TypeOK, ConvictionsArePast
<1>3. /\ pointer.at \in Nat /\ latest \in Nat /\ latest' \in Nat
      /\ pointer.at \in late \/ pointer.at = latest
  BY DEF Inv, TypeOK, Pointers, LateOrLatest
<1>4. ASSUME NEW p \in Pointers, Adopt(p), convictions' = convictions PROVE Goal
  <2>1. latest <= latest' /\ late \subseteq late' /\ LateOrLatest'
    BY <1>4, AdoptTimes DEF Inv
  <2>2. ConvictionsArePast'
    BY <2>1, <1>2, <1>3, <1>4 DEF ConvictionsArePast
  <2>3. ConvictedOnce'
    BY <2>1, <1>4 DEF Inv, ConvictedOnce
  <2> QED
    BY <2>1, <2>2, <2>3
<1>5. ASSUME NEW h \in Hooks, MovePointer(h) PROVE Goal
  <2>1. target[h] \in Pointers /\ Adopt(target[h])
    BY <1>5 DEF MovePointer, TypeOK, Inv
  <2>2. CASE pointer # [ref |-> judged[h].ref, at |-> judged[h].at]
    BY <2>1, <2>2, <1>4, <1>5 DEF MovePointer
  <2>3. CASE pointer = [ref |-> judged[h].ref, at |-> judged[h].at]
    <3> DEFINE first == judged[h].first
               new == <<pointer.at, first>>
    <3>1. /\ pointer.ref \in Releases
          /\ first \in Nat /\ pointer.at <= first /\ first < target[h].at
      <4>1. Evidence(h) /\ judged[h] \in Judged /\ pc[h] = "stamped"
        BY <1>5 DEF Inv, Timely, TypeOK, MovePointer
      <4> QED
        BY <4>1, <2>3 DEF Evidence, Judged
    <3>2. /\ latest <= latest' /\ target[h].at <= latest' /\ target[h].at \in Nat
          /\ late \subseteq late' /\ LateOrLatest'
      BY <2>1, AdoptTimes DEF Inv, Pointers
    <3> HIDE DEF first
    <3>3. convictions' = [convictions EXCEPT ![pointer.ref] = @ \cup {new}]
      BY <2>3, <1>5 DEF MovePointer, first
    <3>4. \A r \in Releases : \A c \in convictions'[r] :
             c \in convictions[r] \/ (r = pointer.ref /\ c = new)
      BY <3>3 DEF Inv, TypeOK
    <3>5. new[1] = pointer.at /\ new[2] = first
      OBVIOUS
    <3>6. ConvictionsArePast'
      BY <3>1, <3>2, <3>4, <3>5, <1>2, <1>3 DEF ConvictionsArePast
    <3>7. ConvictedOnce'
      <4> SUFFICES ASSUME NEW r \in Releases, NEW c \in convictions'[r],
                          NEW d \in convictions'[r], c[2] = d[2], c # d
                   PROVE  c[1] \in late' \/ d[1] \in late'
        BY DEF ConvictedOnce
      <4>1. CASE c \in convictions[r] /\ d \in convictions[r]
        BY <4>1, <3>2 DEF Inv, ConvictedOnce
      <4>2. CASE c = new /\ d \in convictions[r]
        BY <4>2, <3>1, <3>2, <3>5, <1>2, <1>3
      <4>3. CASE c \in convictions[r] /\ d = new
        BY <4>3, <3>1, <3>2, <3>5, <1>2, <1>3
      <4> QED
        BY <4>1, <4>2, <4>3, <3>4
    <3> QED
      BY <3>2, <3>6, <3>7
  <2> QED
    BY <2>2, <2>3
<1>6. ASSUME SaveTrusted PROVE Goal
  <2>1. admin.pointer \in Pointers
    BY DEF Inv, TypeOK
  <2> QED
    BY <2>1, <1>4, <1>6 DEF SaveTrusted
<1>7. ASSUME NEW h \in Hooks, HookStep(h), ~MovePointer(h) PROVE Same
  BY <1>7 DEF HookStep, Load, RecordObservation, RecordEvaluation, ReadPointer,
     ReadDeviation, ReadFreshness, ReadCooldown, ReadPrevious, MakePointer, NoteMove,
     RecordRollback, Fail
<1>8. ASSUME NEW r \in Releases, SetTrusted(r) PROVE Same
  BY <1>8 DEF SetTrusted
<1>9. ASSUME LoadBack \/ NoteSet \/ CooldownElapses \/ UNCHANGED vars PROVE Same
  BY <1>9 DEF LoadBack, NoteSet, CooldownElapses, vars
<1> HIDE DEF Same, Goal
<1>10. Goal
  <2>1. ASSUME NEW h \in Hooks, HookStep(h) PROVE Goal
    BY <2>1, <1>1, <1>5, <1>7
  <2>2. ASSUME NEW r \in Releases, SetTrusted(r) PROVE Goal
    BY <2>2, <1>1, <1>8
  <2>3. ASSUME LoadBack \/ NoteSet \/ CooldownElapses \/ UNCHANGED vars PROVE Goal
    BY <2>3, <1>1, <1>9
  <2> QED
    BY <2>1, <2>2, <2>3, <1>6 DEF Next
<1> QED
  BY <1>10 DEF Goal

(* The invariant holds at first ...                                        *)
LEMMA InitInv == Init => Inv
<1> SUFFICES ASSUME Init PROVE Inv
  OBVIOUS
<1>1. pointer \in Pointers /\ pointer.at = 0
  BY DEF Init, Pointers
<1>2. /\ NotJudged \in Judged /\ NoPointer \in Pointers
      /\ NoRelease \in Known /\ "idle" \in Places
  BY DEF NotJudged, Judged, NoPointer, Pointers, Known, Places
<1>3. records \in Seq(Records) /\ Len(records) <= MaxRecords /\ DOMAIN records = {}
  BY LimitAssumption, EmptySeq, LenProperties DEF Init
<1>4. /\ pc \in [Hooks -> Places] /\ mine \in [Hooks -> Known]
      /\ judged \in [Hooks -> Judged] /\ target \in [Hooks -> Pointers]
      /\ note \in [ref : Known, previous : Known] /\ note.ref = NoRelease
      /\ admin \in [place : AdminPlaces, pointer : Pointers]
      /\ convictions \in [Releases -> SUBSET (Nat \X Nat)]
  BY <1>2 DEF Init, AdminPlaces
<1>5. TypeOK
  <2>1. /\ pointer \in Pointers /\ clock \in Nat
        /\ rollbackCount \in Nat /\ cooling \in BOOLEAN
        /\ before \in Known /\ disturbed \in BOOLEAN
        /\ latest \in Nat /\ late \in SUBSET Nat
        /\ moves \in Nat /\ unrecorded \in Nat
        /\ condemned \in SUBSET Releases
    BY <1>1, <1>2 DEF Init
  <2>2. sets \in 0 .. MaxSets
    BY LimitAssumption DEF Init
  <2>3. \A i, j \in DOMAIN records : records[i].ref = records[j].ref => i = j
    BY <1>3
  <2> QED
    BY <1>3, <1>4, <2>1, <2>2, <2>3 DEF TypeOK
<1>6. Timely
  BY <1>1, <1>3 DEF Init, Timely, Evidence
<1>7. LateOrLatest /\ ConvictionsArePast /\ ConvictedOnce
  BY DEF Init, LateOrLatest, ConvictionsArePast, ConvictedOnce
<1> QED
  BY <1>5, <1>6, <1>7 DEF Inv

(* ... and every step keeps it.                                            *)
LEMMA NextInv == Inv /\ [Next]_vars => Inv'
<1> SUFFICES ASSUME Inv, [Next]_vars PROVE Inv'
  OBVIOUS
<1>1. TypeOK'
  BY TypeStep DEF Inv
<1>2. Timely'
  BY <1>1, TimelyStep DEF Inv
<1> QED
  BY <1>1, <1>2, ConvictionStep DEF Inv

(* Every variable keeps its type; in particular the retained records stay  *)
(* bounded with one record for each release (record_release_evaluation).   *)
THEOREM TypeCorrect == Spec => []TypeOK
<1>1. Inv => TypeOK
  BY DEF Inv
<1> QED
  BY <1>1, InitInv, NextInv, PTL DEF Spec

(* What was seen of a release before it was trusted again never moves the  *)
(* pointer away from it a second time (release_is_fresh), whatever notes,  *)
(* operators and other invocations do between the reads; unless one of the *)
(* two adoptions was written after one whose pointer was made later.       *)
THEOREM ConvictedOnlyOnce == Spec => []ConvictedOnce
<1>1. Inv => ConvictedOnce
  BY DEF Inv
<1> QED
  BY <1>1, InitInv, NextInv, PTL DEF Spec

-----------------------------------------------------------------------------
(* SessionState::set_trust_pointer keeps the exact predecessor as long as  *)
(* no note is late: repeated notes neither lose nor overwrite it.          *)
THEOREM PreviousStaysExact == Spec => []PreviousIsExact
<1> USE DEF store, hook, operator, history
<1>1. Init => PreviousIsExact
  BY DEF Init, PreviousIsExact
<1>2. PreviousIsExact /\ [Next]_vars => PreviousIsExact'
  <2> SUFFICES ASSUME PreviousIsExact, [Next]_vars PROVE PreviousIsExact'
    OBVIOUS
  <2>1. ASSUME UNCHANGED <<pointer, note, before, disturbed>> PROVE PreviousIsExact'
    BY <2>1 DEF PreviousIsExact
  <2>2. ASSUME NEW p, Adopt(p), note' = note PROVE PreviousIsExact'
    <3>1. pointer'.ref = p.ref
      BY <2>2 DEF Adopt
    <3> QED
      BY <3>1, <2>2 DEF Adopt, PreviousIsExact
  <2>3. ASSUME NEW r, note' = Noted(note, r), UNCHANGED <<pointer, before>>,
               disturbed' = (disturbed \/ r # pointer.ref)
        PROVE  PreviousIsExact'
    <3>1. note'.ref = r /\ note'.previous = IF note.ref = r THEN note.previous ELSE note.ref
      BY <2>3 DEF Noted
    <3> QED
      BY <3>1, <2>3 DEF PreviousIsExact
  <2>4. ASSUME NEW r, Note(r), UNCHANGED <<pointer, before>> PROVE PreviousIsExact'
    BY <2>1, <2>3, <2>4 DEF Note
  <2>5. ASSUME NEW h \in Hooks, HookStep(h) PROVE PreviousIsExact'
    <3>1. CASE RecordObservation(h)
      BY <3>1, <2>4 DEF RecordObservation
    <3>2. CASE MovePointer(h)
      BY <3>2, <2>2 DEF MovePointer
    <3>3. CASE NoteMove(h)
      BY <3>3, <2>3 DEF NoteMove
    <3>4. CASE ~(RecordObservation(h) \/ MovePointer(h) \/ NoteMove(h))
      BY <3>4, <2>1, <2>5 DEF HookStep, Load, RecordEvaluation, ReadPointer,
         ReadDeviation, ReadFreshness, ReadCooldown, ReadPrevious, MakePointer,
         RecordRollback, Fail
    <3> QED
      BY <3>1, <3>2, <3>3, <3>4
  <2>6. ASSUME NEW r \in Releases, SetTrusted(r) PROVE PreviousIsExact'
    BY <2>6, <2>1 DEF SetTrusted
  <2>7. CASE NoteSet
    BY <2>7, <2>4 DEF NoteSet
  <2>8. CASE LoadBack \/ CooldownElapses \/ UNCHANGED vars
    BY <2>8, <2>1 DEF LoadBack, CooldownElapses, vars
  <2>9. CASE SaveTrusted
    BY <2>9, <2>2 DEF SaveTrusted
  <2> QED
    BY <2>5, <2>6, <2>7, <2>8, <2>9 DEF Next
<1> QED
  BY <1>1, <1>2, PTL DEF Spec

-----------------------------------------------------------------------------
(* An invocation enters and leaves the gap between the pointer write and   *)
(* the rollback count one at a time.                                       *)
LEMMA InFlightChange ==
    ASSUME TypeOK, NEW h \in Hooks, NEW place \in Places, pc' = [pc EXCEPT ![h] = place]
    PROVE  /\ Cardinality(InFlight) \in Nat
           /\ place \in {"moved", "written"} /\ h \in InFlight => InFlight' = InFlight
           /\ place \notin {"moved", "written"} /\ h \notin InFlight => InFlight' = InFlight
           /\ place \in {"moved", "written"} /\ h \notin InFlight =>
                 Cardinality(InFlight') = Cardinality(InFlight) + 1
           /\ place \notin {"moved", "written"} /\ h \in InFlight =>
                 Cardinality(InFlight) = Cardinality(InFlight') + 1
<1>1. IsFiniteSet(InFlight) /\ Cardinality(InFlight) \in Nat
  BY HookAssumption, FS_Subset, FS_CardinalityType DEF InFlight
<1>2. /\ pc'[h] = place /\ \A g \in Hooks \ {h} : pc'[g] = pc[g]
  BY DEF TypeOK
<1>3. place \in {"moved", "written"} => InFlight' = InFlight \cup {h}
  BY <1>2 DEF InFlight
<1>4. place \notin {"moved", "written"} => InFlight' = InFlight \ {h}
  BY <1>2 DEF InFlight
<1>5. place \in {"moved", "written"} /\ h \notin InFlight =>
         Cardinality(InFlight') = Cardinality(InFlight) + 1
  BY <1>1, <1>3, FS_AddElement
<1>6. place \notin {"moved", "written"} /\ h \in InFlight =>
         Cardinality(InFlight) = Cardinality(InFlight') + 1
  <2>1. Cardinality(InFlight \ {h}) = IF h \in InFlight THEN Cardinality(InFlight) - 1
                                      ELSE Cardinality(InFlight)
    BY <1>1, FS_RemoveElement
  <2> SUFFICES ASSUME place \notin {"moved", "written"}, h \in InFlight
               PROVE  Cardinality(InFlight) = Cardinality(InFlight') + 1
    OBVIOUS
  <2>2. Cardinality(InFlight') = Cardinality(InFlight \ {h})
    BY <1>4
  <2>3. Cardinality(InFlight') = Cardinality(InFlight) - 1
    BY <2>1, <2>2
  <2> QED
    BY <2>3, <1>1
<1> QED
  BY <1>1, <1>3, <1>4, <1>5, <1>6

(* Every automatic move is counted exactly once, except those of           *)
(* invocations that end between MovePointer and RecordRollback.            *)
THEOREM RollbacksAccounted == Spec => []RollbacksAreAccounted
<1> USE DEF store, hook, operator, history
<1>1. Init => RollbacksAreAccounted
  <2> SUFFICES ASSUME Init PROVE RollbacksAreAccounted
    OBVIOUS
  <2>1. InFlight = {}
    BY DEF Init, InFlight
  <2> QED
    BY <2>1, FS_EmptySet DEF Init, RollbacksAreAccounted
<1>2. TypeOK /\ RollbacksAreAccounted /\ [Next]_vars => RollbacksAreAccounted'
  <2> SUFFICES ASSUME TypeOK, RollbacksAreAccounted, [Next]_vars
               PROVE  RollbacksAreAccounted'
    OBVIOUS
  <2> DEFINE Same == UNCHANGED <<rollbackCount, unrecorded, moves>>
  <2>1. rollbackCount \in Nat /\ unrecorded \in Nat /\ moves \in Nat
    BY DEF TypeOK
  <2>2. ASSUME NEW h \in Hooks, pc[h] \notin {"moved", "written"}, Same,
               NEW place \in Places \ {"moved", "written"}, Goto(h, place)
        PROVE  RollbacksAreAccounted'
    <3>1. InFlight' = InFlight
      BY <2>2, InFlightChange DEF Goto, InFlight
    <3>2. /\ rollbackCount' = rollbackCount /\ unrecorded' = unrecorded
          /\ moves' = moves
      BY <2>2
    <3> QED
      BY <3>1, <3>2 DEF RollbacksAreAccounted
  <2>3. ASSUME NEW h \in Hooks, MovePointer(h) PROVE RollbacksAreAccounted'
    <3>1. Cardinality(InFlight) \in Nat /\ Cardinality(InFlight') = Cardinality(InFlight) + 1
      BY <2>3, InFlightChange DEF MovePointer, Goto, InFlight, Places
    <3>2. /\ moves' = moves + 1
          /\ rollbackCount' = rollbackCount /\ unrecorded' = unrecorded
      BY <2>3 DEF MovePointer
    <3>3. Cardinality(InFlight') \in Nat
      BY <3>1
    <3> QED
      BY <3>1, <3>2, <3>3, <2>1 DEF RollbacksAreAccounted
  <2>4. ASSUME NEW h \in Hooks, NoteMove(h) PROVE RollbacksAreAccounted'
    <3>1. InFlight' = InFlight
      BY <2>4, InFlightChange DEF NoteMove, Goto, InFlight, Places
    <3> QED
      BY <3>1, <2>4 DEF NoteMove, RollbacksAreAccounted
  <2>5. ASSUME NEW h \in Hooks, RecordRollback(h) PROVE RollbacksAreAccounted'
    <3>1. /\ Cardinality(InFlight) \in Nat /\ Cardinality(InFlight') \in Nat
          /\ Cardinality(InFlight) = Cardinality(InFlight') + 1
      <4>1. Cardinality(InFlight) \in Nat /\ Cardinality(InFlight) = Cardinality(InFlight') + 1
        BY <2>5, InFlightChange DEF RecordRollback, Leave, Goto, InFlight, Places
      <4>2. Cardinality(InFlight') \in Nat
        BY HookAssumption, FS_Subset, FS_CardinalityType DEF InFlight
      <4> QED
        BY <4>1, <4>2
    <3>2. rollbackCount' = rollbackCount + 1 /\ unrecorded' = unrecorded /\ moves' = moves
      BY <2>5 DEF RecordRollback
    <3> QED
      BY <3>1, <3>2, <2>1 DEF RollbacksAreAccounted
  <2>6. ASSUME NEW h \in Hooks, Fail(h) PROVE RollbacksAreAccounted'
    <3>1. Leave(h) /\ UNCHANGED <<rollbackCount, moves>> /\ "idle" \in Places
      BY <2>6 DEF Fail, Places
    <3>2. CASE pc[h] \in {"moved", "written"}
      <4>1. unrecorded' = unrecorded + 1
        BY <3>2, <2>6 DEF Fail
      <4>2. Cardinality(InFlight) \in Nat /\ Cardinality(InFlight) = Cardinality(InFlight') + 1
        BY <3>1, <3>2, InFlightChange DEF Leave, Goto, InFlight
      <4>3. Cardinality(InFlight') \in Nat
        BY HookAssumption, FS_Subset, FS_CardinalityType DEF InFlight
      <4> QED
        BY <4>1, <4>2, <4>3, <3>1, <2>1 DEF RollbacksAreAccounted
    <3>3. CASE pc[h] \notin {"moved", "written"}
      BY <3>1, <3>3, <2>2, <2>6 DEF Fail, Leave
    <3> QED
      BY <3>2, <3>3
  <2>7. ASSUME NEW h \in Hooks, HookStep(h),
               ~(MovePointer(h) \/ NoteMove(h) \/ RecordRollback(h) \/ Fail(h))
        PROVE  RollbacksAreAccounted'
    <3>1. Same /\ pc[h] \notin {"moved", "written"}
      BY <2>7 DEF HookStep, Load, RecordObservation, RecordEvaluation, ReadPointer,
         ReadDeviation, ReadFreshness, ReadCooldown, ReadPrevious, MakePointer
    <3>2. \E place \in Places \ {"moved", "written"} : Goto(h, place)
      BY <2>7, Zenon DEF HookStep, Load, RecordObservation, RecordEvaluation, ReadPointer,
         ReadDeviation, ReadFreshness, ReadCooldown, ReadPrevious, MakePointer, Leave,
         Places
    <3> QED
      BY <3>1, <3>2, <2>2
  <2>8. ASSUME UNCHANGED <<pc, rollbackCount, unrecorded, moves>>
        PROVE  RollbacksAreAccounted'
    BY <2>8 DEF RollbacksAreAccounted, InFlight
  <2>9. ASSUME NEW r \in Releases, SetTrusted(r) PROVE RollbacksAreAccounted'
    BY <2>9, <2>8 DEF SetTrusted
  <2>10. CASE SaveTrusted \/ LoadBack \/ NoteSet \/ CooldownElapses \/ UNCHANGED vars
    BY <2>10, <2>8 DEF SaveTrusted, LoadBack, NoteSet, CooldownElapses, vars
  <2> QED
    BY <2>3, <2>4, <2>5, <2>6, <2>7, <2>9, <2>10 DEF Next, HookStep
<1> QED
  BY <1>1, <1>2, TypeCorrect, PTL DEF Spec
=============================================================================
