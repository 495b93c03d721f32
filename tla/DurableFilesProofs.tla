------------------------- MODULE DurableFilesProofs -------------------------
(***************************************************************************)
(* Proofs about DurableFiles for any number of invocations, pids and       *)
(* faults: the types, that no sweep takes a live writer's temporary file,  *)
(* that the three transactional stores show readers only whole documents   *)
(* and keep every acknowledged update and implement AtomicDocument, that   *)
(* damage from before is not passed on, and what the two other stores lose *)
(* and when.                                                               *)
(***************************************************************************)
EXTENDS DurableFiles, TLAPS

-----------------------------------------------------------------------------
(* The inductive invariant.                                                *)

TempSteps == {"write", "sync", "backup", "fill", "rename"}
Unopened == {"start", "lock", "load", "open"}

(* The steps each store's plan can reach.                                  *)
StepsOf(s) ==
    IF s = "policy" THEN WorkSteps \ {"reclaim"}
    ELSE IF s = "telemetry"
    THEN {"load", "lock", "open", "write", "rename", "reclaim", "return"}
    ELSE IF s = "pointer" THEN {"open", "write", "rename", "return"}
    ELSE WorkSteps \ {"backup", "fill"}

OnPlan == \A p \in Invocations :
    pc[p] \in StepsOf(store) \cup {"start", "done", "failed", "killed"}

(* The steps each store takes under its lock.                              *)
HoldSteps ==
    IF store \in Transactional THEN WorkSteps \ {"lock"}
    ELSE IF store = "telemetry" THEN WorkSteps \ {"lock", "load"} ELSE {}

Exclusive == \A p \in Invocations : pc[p] \in HoldSteps => lock = p

(* A temporary file is nobody's document, and has one name.                *)
Apart ==
    /\ current # Bak /\ onDisk # Bak
    /\ \A n \in TempNames :
          temps[n] # NoFile => temps[n] \notin {First, Bak, current, onDisk}
    /\ \A m, n \in TempNames : temps[m] # NoFile /\ temps[m] = temps[n] => m = n
    /\ \A p \in Invocations : pc[p] \in Unopened =>
          p \notin {current, onDisk} /\ \A n \in TempNames : temps[n] # p

(* What the file of a writer holds, step by step.                          *)
Contents == \A p \in Invocations :
    /\ pc[p] = "write" => data[handle[p]] = Empty
    /\ pc[p] \in {"sync", "backup", "fill", "rename"} => data[handle[p]] = Whole(doc[p])
    /\ pc[p] \in {"backup", "fill", "rename"} => handle[p] \in flushed
    /\ pc[p] = "fill" => current # NoFile
    /\ pc[p] \in {"syncdir", "reclaim", "return"} =>
          current # NoFile /\ p \in data[current].updates
    /\ pc[p] \in {"reclaim", "return"} => onDisk = current

(* A document that replaced the first one is whole and on the disk.        *)
Durable(i) == i \notin {NoFile, First} => Parses(i) /\ i \in flushed
Sound ==
    /\ First \in flushed
    /\ data[First] \in {Whole({}), Mixed}
    /\ Durable(current)
    /\ Durable(onDisk)

Acks == \A a \in acked :
    /\ current # NoFile /\ a \in data[current].updates
    /\ onDisk # NoFile /\ a \in data[onDisk].updates

(* What a writer is about to save holds what the store has promised.       *)
Carried == \A p \in Invocations : pc[p] \in {"open"} \cup TempSteps =>
    /\ p \in doc[p]
    /\ acked \subseteq doc[p]
    /\ Promises => doc[p] = PromisedDoc \cup {p}

Kept == store \in Transactional => Apart /\ Contents /\ Sound /\ Acks /\ Carried

IInv == TypeOK /\ OnPlan /\ Exclusive /\ SweepSparesLiveWriters /\ Kept
-----------------------------------------------------------------------------
(* The plans, step by step.                                                *)

NextOf(p) == Plan[store][pc[p]]

(* What follows a step of a transactional store.                           *)
LEMMA TransactionalPlan ==
    ASSUME store \in Transactional, NEW p \in Invocations,
           pc[p] \in StepsOf(store) \cup {"start"}, pc[p] # "return"
    PROVE  /\ NextOf(p) \in StepsOf(store)
           /\ pc[p] = "start" => NextOf(p) = "lock"
           /\ pc[p] = "lock" => NextOf(p) = "load"
           /\ pc[p] = "load" => NextOf(p) = "open"
           /\ pc[p] = "open" => NextOf(p) = "write"
           /\ pc[p] = "write" => NextOf(p) = "sync"
           /\ pc[p] = "sync" => NextOf(p) \in {"backup", "rename"}
           /\ pc[p] = "backup" => NextOf(p) = "fill"
           /\ pc[p] = "fill" => NextOf(p) = "rename"
           /\ pc[p] = "rename" => NextOf(p) = "syncdir"
           /\ pc[p] = "syncdir" => NextOf(p) \in {"reclaim", "return"}
           /\ pc[p] = "reclaim" => NextOf(p) = "return"
<1>1. CASE store = "state"
  BY <1>1 DEF NextOf, Plan, StatePlan, StepsOf, WorkSteps
<1>2. CASE store = "health"
  BY <1>2 DEF NextOf, Plan, HealthPlan, StepsOf, WorkSteps
<1>3. CASE store = "policy"
  BY <1>3 DEF NextOf, Plan, PolicyPlan, StepsOf, WorkSteps
<1> QED
  BY <1>1, <1>2, <1>3 DEF Transactional

(* What follows a step of the other two.                                   *)
LEMMA OtherPlan ==
    ASSUME store \in {"telemetry", "pointer"}, NEW p \in Invocations,
           pc[p] \in StepsOf(store) \cup {"start"}, pc[p] # "return"
    PROVE  /\ NextOf(p) \in StepsOf(store)
           /\ pc[p] = "open" => NextOf(p) = "write"
           /\ pc[p] = "write" => NextOf(p) = "rename"
           /\ pc[p] = "rename" => NextOf(p) \in {"reclaim", "return"}
           /\ pc[p] = "reclaim" => NextOf(p) = "return"
           /\ pc[p] = "start" => NextOf(p) \in {"load", "open"}
           /\ store = "telemetry" =>
                 /\ pc[p] = "start" => NextOf(p) = "load"
                 /\ pc[p] = "load" => NextOf(p) = "lock"
                 /\ pc[p] = "lock" => NextOf(p) = "open"
<1>1. CASE store = "telemetry"
  BY <1>1 DEF NextOf, Plan, TelemetryPlan, StepsOf
<1>2. CASE store = "pointer"
  BY <1>2 DEF NextOf, Plan, PointerPlan, StepsOf
<1> QED
  BY <1>1, <1>2

Steps == WorkSteps \cup {"start", "done", "failed", "killed"}

(* An Advance moves one invocation along its store's plan.                 *)
LEMMA Advancing ==
    ASSUME TypeOK, OnPlan, NEW p \in Invocations, pc[p] \in StepsOf(store) \cup {"start"},
           pc[p] # "return", Advance(p), store' = store
    PROVE  /\ pc' = [pc EXCEPT ![p] = NextOf(p)]
           /\ NextOf(p) \in StepsOf(store)
           /\ pc' \in [Invocations -> Steps]
           /\ OnPlan'
<1>1. pc' = [pc EXCEPT ![p] = NextOf(p)]
  BY DEF Advance, Goto, NextOf
<1>2. NextOf(p) \in StepsOf(store)
  <2>1. CASE store \in Transactional
    BY <2>1, TransactionalPlan
  <2>2. CASE store \in {"telemetry", "pointer"}
    BY <2>2, OtherPlan
  <2> QED
    BY <2>1, <2>2 DEF TypeOK, Stores, Transactional
<1>3. StepsOf(store) \subseteq WorkSteps
  BY DEF StepsOf, WorkSteps
<1>4. pc \in [Invocations -> Steps]
  BY DEF TypeOK, Steps
<1>5. pc' \in [Invocations -> Steps]
  BY <1>1, <1>2, <1>3, <1>4 DEF Steps
<1>6. OnPlan'
  BY <1>1, <1>2, <1>4 DEF OnPlan
<1> QED
  BY <1>1, <1>2, <1>5, <1>6

-----------------------------------------------------------------------------
(* One lemma per action: it preserves the inductive invariant.             *)

LEMMA BeginKeeps ==
    ASSUME IInv, NEW p \in Invocations, Begin(p)
    PROVE  IInv'
<1> USE DEF IInv
<1>0. /\ pc' = [pc EXCEPT ![p] = NextOf(p)]
      /\ pc' \in [Invocations -> Steps]
      /\ OnPlan'
  BY Advancing DEF Begin
<1>1. TypeOK'
  BY <1>0 DEF TypeOK, Begin, files, Steps
<1>2. NextOf(p) \in {"lock", "load", "open"} \ HoldSteps
  <2>1. CASE store \in Transactional
    BY <2>1, TransactionalPlan DEF Begin, HoldSteps
  <2>2. CASE store \in {"telemetry", "pointer"}
    BY <2>2, OtherPlan DEF Begin, HoldSteps, Transactional
  <2> QED
    BY <2>1, <2>2 DEF TypeOK, Stores, Transactional
<1>3. Exclusive'
  BY <1>0, <1>2 DEF Exclusive, Begin, HoldSteps, TypeOK
<1>4. SweepSparesLiveWriters'
  BY <1>0, <1>2 DEF SweepSparesLiveWriters, Begin, files, TempOf, TypeOK
<1>5. ASSUME store \in Transactional
      PROVE  Kept'
  <2> USE <1>5 DEF Begin, files
  <2>0. NextOf(p) = "lock"
    BY TransactionalPlan
  <2>1. Apart'
    BY <1>0, <2>0 DEF Kept, Apart, Unopened, TypeOK
  <2>2. Contents'
    BY <1>0, <2>0 DEF Kept, Contents, TypeOK
  <2>3. Sound' /\ Acks'
    BY DEF Kept, Sound, Durable, Acks, Parses
  <2>4. Carried'
    BY <1>0, <2>0 DEF Kept, Carried, TypeOK, TempSteps, Promises, PromisedDoc, Parses
  <2> QED
    BY <2>1, <2>2, <2>3, <2>4 DEF Kept
<1>6. Kept'
  BY <1>5 DEF Kept, Begin
<1> QED
  BY <1>0, <1>1, <1>3, <1>4, <1>6

(* Only one invocation at a time is in the part its store's lock covers.   *)
LEMMA Alone ==
    ASSUME IInv, NEW p \in Invocations, pc[p] \in HoldSteps,
           NEW q \in Invocations, q # p
    PROVE  pc[q] \notin HoldSteps
BY DEF IInv, Exclusive

LEMMA TempStepsHeld ==
    ASSUME IInv, store # "pointer", NEW p \in Invocations,
           pc[p] \in {"open"} \cup TempSteps
    PROVE  pc[p] \in HoldSteps
<1>1. CASE store \in Transactional
  BY <1>1 DEF HoldSteps, TempSteps, WorkSteps
<1>2. CASE store = "telemetry"
  BY <1>2 DEF IInv, OnPlan, StepsOf, HoldSteps, TempSteps, WorkSteps, Transactional
<1> QED
  BY <1>1, <1>2 DEF IInv, TypeOK, Stores, Transactional

LEMMA NoFileIsNoInode == NoFile \notin Inodes
BY NamesAssumption DEF Inodes

LEMMA WholeIsDocument ==
    ASSUME NEW us \in SUBSET Invocations
    PROVE  /\ Whole(us) \in Document /\ Whole(us).form = "whole"
           /\ Whole(us).updates = us
           /\ Empty \in Document /\ Mixed \in Document
BY DEF Whole, Document, Empty, Mixed

LEMMA LockKeeps ==
    ASSUME IInv, NEW p \in Invocations, Lock(p)
    PROVE  IInv'
<1> USE DEF IInv
<1>0. /\ pc' = [pc EXCEPT ![p] = NextOf(p)]
      /\ NextOf(p) \in StepsOf(store)
      /\ pc' \in [Invocations -> Steps]
      /\ OnPlan'
  BY Advancing DEF Lock, OnPlan
<1>1. TypeOK'
  BY <1>0 DEF TypeOK, Lock, files, history, Steps
<1>2. NextOf(p) \in {"load", "open"}
  <2>1. CASE store \in Transactional
    BY <2>1, TransactionalPlan DEF Lock, OnPlan
  <2>2. CASE store \in {"telemetry", "pointer"}
    BY <2>2, OtherPlan DEF Lock, OnPlan, StepsOf
  <2> QED
    BY <2>1, <2>2 DEF TypeOK, Stores, Transactional
<1>3. Exclusive'
  BY <1>0, NamesAssumption DEF Exclusive, Lock, HoldSteps, TypeOK
<1>4. SweepSparesLiveWriters'
  BY <1>0, <1>2 DEF SweepSparesLiveWriters, Lock, files, TempOf, TypeOK
<1>5. ASSUME store \in Transactional
      PROVE  Kept'
  <2> USE <1>5 DEF Lock, files
  <2>0. NextOf(p) = "load"
    BY TransactionalPlan DEF OnPlan
  <2>1. Apart'
    BY <1>0, <2>0 DEF Kept, Apart, Unopened, TypeOK
  <2>2. Contents'
    BY <1>0, <2>0 DEF Kept, Contents, TypeOK
  <2>3. Sound' /\ Acks'
    BY DEF Kept, Sound, Durable, Acks, Parses
  <2>4. Carried'
    BY <1>0, <2>0 DEF Kept, Carried, TypeOK, TempSteps, Promises, PromisedDoc, Parses
  <2> QED
    BY <2>1, <2>2, <2>3, <2>4 DEF Kept
<1>6. Kept'
  BY <1>5 DEF Kept, Lock
<1> QED
  BY <1>0, <1>1, <1>3, <1>4, <1>6

(* A document that loads holds every acknowledged update.                  *)
LEMMA LoadedHolds ==
    ASSUME IInv, store \in Transactional, Loaded.form = "whole"
    PROVE  /\ acked \subseteq Loaded.updates
           /\ Promises => Loaded.updates = PromisedDoc
<1> USE DEF IInv, Kept
<1>1. CASE current = NoFile
  <2>1. Loaded = Whole({})
    BY <1>1 DEF Loaded, PolicyLoad, HealthLoad, StateLoad, Transactional
  <2>2. acked = {}
    BY <1>1 DEF Acks
  <2> QED
    BY <1>1, <2>1, <2>2 DEF PromisedDoc, Whole
<1>2. CASE current # NoFile /\ Parses(current)
  <2>1. Loaded = data[current]
    BY <1>2 DEF Loaded, PolicyLoad, HealthLoad, StateLoad, Transactional
  <2> QED
    BY <1>2, <2>1 DEF Acks, PromisedDoc
<1>3. CASE current # NoFile /\ ~Parses(current)
  <2>1. current = First
    BY <1>3 DEF Sound, Durable
  <2>2. data[First].updates = {}
    BY WholeIsDocument, <2>1, <1>3 DEF Sound, Mixed, Whole
  <2>3. acked = {}
    BY <2>1, <2>2 DEF Acks
  <2>4. Promises => store # "policy"
    BY <2>1, <1>3 DEF Promises
  <2>5. store # "policy" => Loaded = data[current]
    BY <1>3 DEF Loaded, HealthLoad, StateLoad, Transactional
  <2> QED
    BY <1>3, <2>3, <2>4, <2>5 DEF Parses
<1> QED
  BY <1>1, <1>2, <1>3

LEMMA LoadedIsDocument ==
    ASSUME IInv
    PROVE  Loaded \in Document
<1> USE DEF IInv, TypeOK
<1>1. Whole({}) \in Document
  BY WholeIsDocument
<1>2. current # NoFile => data[current] \in Document
  OBVIOUS
<1>3. backup # NoFile => data[backup] \in Document
  BY DEF Inodes
<1> QED
  BY <1>1, <1>2, <1>3 DEF Loaded, PolicyLoad, TelemetryLoad, HealthLoad, StateLoad

LEMMA LoadKeeps ==
    ASSUME IInv, NEW p \in Invocations, Load(p)
    PROVE  IInv'
<1> USE DEF IInv
<1>0. /\ pc' = [pc EXCEPT ![p] = NextOf(p)]
      /\ NextOf(p) \in StepsOf(store)
      /\ pc' \in [Invocations -> Steps]
      /\ OnPlan'
  BY Advancing DEF Load, OnPlan
<1>a. Loaded.updates \cup {p} \in SUBSET Invocations
  BY LoadedIsDocument DEF Document
<1>1. TypeOK'
  BY <1>0, <1>a DEF TypeOK, Load, files, history, Steps
<1>2. /\ store \in Transactional => NextOf(p) = "open"
      /\ store = "telemetry" => NextOf(p) = "lock"
      /\ store # "pointer"
  <2>1. CASE store \in Transactional
    BY <2>1, TransactionalPlan DEF Load, OnPlan, Transactional
  <2>2. CASE store \in {"telemetry", "pointer"}
    BY <2>2, OtherPlan DEF Load, OnPlan, StepsOf, Transactional
  <2> QED
    BY <2>1, <2>2 DEF TypeOK, Stores, Transactional
<1>3. Exclusive'
  BY <1>0, <1>2 DEF Exclusive, Load, HoldSteps, TypeOK, Transactional, WorkSteps
<1>4. SweepSparesLiveWriters'
  <2>1. NextOf(p) \in {"open", "lock"}
    BY <1>2 DEF TypeOK, Stores, Transactional
  <2> QED
    BY <1>0, <2>1 DEF SweepSparesLiveWriters, Load, files, TempOf, TypeOK
<1>5. ASSUME store \in Transactional
      PROVE  Kept'
  <2> USE <1>5 DEF Load, files
  <2>0. NextOf(p) = "open"
    BY <1>2
  <2>1. Apart'
    BY <1>0, <2>0 DEF Kept, Apart, Unopened, TypeOK
  <2>2. Contents'
    BY <1>0, <2>0 DEF Kept, Contents, TypeOK
  <2>3. Sound' /\ Acks'
    BY DEF Kept, Sound, Durable, Acks, Parses
  <2>4. doc'[p] = Loaded.updates \cup {p} /\ \A q \in Invocations \ {p} : doc'[q] = doc[q]
    BY DEF TypeOK
  <2>5. Promises' = Promises /\ PromisedDoc' = PromisedDoc
    BY DEF Promises, PromisedDoc, Parses
  <2>6. Carried'
    BY <1>0, <2>0, <2>4, <2>5, LoadedHolds DEF Kept, Carried, TypeOK, TempSteps
  <2> QED
    BY <2>1, <2>2, <2>3, <2>6 DEF Kept
<1>6. Kept'
  BY <1>5 DEF Kept, Load
<1> QED
  BY <1>0, <1>1, <1>3, <1>4, <1>6

LEMMA MisreadKeeps ==
    ASSUME IInv, NEW p \in Invocations, Misread(p)
    PROVE  IInv'
<1> USE DEF IInv
<1>0. /\ pc' = [pc EXCEPT ![p] = NextOf(p)]
      /\ NextOf(p) \in StepsOf(store)
      /\ pc' \in [Invocations -> Steps]
      /\ OnPlan'
  BY Advancing DEF Misread, OnPlan
<1>1. TypeOK'
  BY <1>0 DEF TypeOK, Misread, files, Steps
<1>2. NextOf(p) = "lock"
  BY OtherPlan DEF Misread, OnPlan, StepsOf
<1>3. Exclusive'
  BY <1>0, <1>2 DEF Exclusive, Misread, HoldSteps, TypeOK, Transactional, WorkSteps
<1>4. SweepSparesLiveWriters'
  BY <1>0, <1>2 DEF SweepSparesLiveWriters, Misread, files, TempOf, TypeOK
<1>5. Kept'
  BY DEF Kept, Misread, Transactional
<1> QED
  BY <1>0, <1>1, <1>3, <1>4, <1>5

LEMMA RefuseKeeps ==
    ASSUME IInv, NEW p \in Invocations, Refuse(p)
    PROVE  IInv'
<1> USE DEF IInv
<1>0. /\ pc' = [pc EXCEPT ![p] = "failed"]
      /\ pc' \in [Invocations -> Steps]
      /\ OnPlan'
  BY DEF Refuse, Goto, OnPlan, Steps, TypeOK
<1>1. TypeOK'
  BY <1>0 DEF TypeOK, Refuse, Unlocked, files, history, Steps
<1>3. Exclusive'
  BY <1>0 DEF Exclusive, Refuse, Unlocked, HoldSteps, TypeOK, WorkSteps
<1>4. SweepSparesLiveWriters'
  BY <1>0 DEF SweepSparesLiveWriters, Refuse, files, TempOf, TypeOK
<1>5. ASSUME store \in Transactional
      PROVE  Kept'
  <2> USE <1>5 DEF Refuse, files
  <2>1. Apart'
    BY <1>0 DEF Kept, Apart, Unopened, TypeOK
  <2>2. Contents'
    BY <1>0 DEF Kept, Contents, TypeOK
  <2>3. Sound'
    BY DEF Kept, Sound, Durable, Parses
  <2>4. Acks'
    BY DEF Kept, Acks
  <2>5. Carried'
    BY <1>0 DEF Kept, Carried, TypeOK, TempSteps, Promises, PromisedDoc, Parses
  <2> QED
    BY <2>1, <2>2, <2>3, <2>4, <2>5 DEF Kept
<1>6. Kept'
  BY <1>5 DEF Kept, Refuse
<1> QED
  BY <1>0, <1>1, <1>3, <1>4, <1>6

LEMMA KillKeeps ==
    ASSUME IInv, NEW p \in Invocations, Kill(p)
    PROVE  IInv'
<1> USE DEF IInv
<1>0. /\ pc' = [pc EXCEPT ![p] = "killed"]
      /\ pc' \in [Invocations -> Steps]
      /\ OnPlan'
  BY DEF Kill, Goto, OnPlan, Steps, TypeOK
<1>1. TypeOK'
  BY <1>0 DEF TypeOK, Kill, Unlocked, files, history, Steps
<1>3. Exclusive'
  BY <1>0 DEF Exclusive, Kill, Unlocked, HoldSteps, TypeOK, WorkSteps
<1>4. SweepSparesLiveWriters'
  BY <1>0 DEF SweepSparesLiveWriters, Kill, files, TempOf, TypeOK
<1>5. ASSUME store \in Transactional
      PROVE  Kept'
  <2> USE <1>5 DEF Kill, files
  <2>1. Apart'
    BY <1>0 DEF Kept, Apart, Unopened, TypeOK
  <2>2. Contents'
    BY <1>0 DEF Kept, Contents, TypeOK
  <2>3. Sound'
    BY DEF Kept, Sound, Durable, Parses
  <2>4. Acks'
    BY DEF Kept, Acks
  <2>5. Carried'
    BY <1>0 DEF Kept, Carried, TypeOK, TempSteps, Promises, PromisedDoc, Parses
  <2> QED
    BY <2>1, <2>2, <2>3, <2>4, <2>5 DEF Kept
<1>6. Kept'
  BY <1>5 DEF Kept, Kill
<1> QED
  BY <1>0, <1>1, <1>3, <1>4, <1>6

LEMMA OpenTempKeeps ==
    ASSUME IInv, NEW p \in Invocations, OpenTemp(p)
    PROVE  IInv'
<1> USE DEF IInv
<1>0. /\ pc' = [pc EXCEPT ![p] = NextOf(p)]
      /\ NextOf(p) \in StepsOf(store)
      /\ pc' \in [Invocations -> Steps]
      /\ OnPlan'
  BY Advancing DEF OpenTemp, OnPlan
<1>a. TempFile(p) \in Inodes /\ TempOf(p) \in TempNames
  BY NamesAssumption DEF TypeOK, TempFile, TempOf, TempNames, Inodes
<1>1. TypeOK'
  BY <1>0, <1>a, WholeIsDocument DEF TypeOK, OpenTemp, history, Steps
<1>2. NextOf(p) = "write"
  <2>1. CASE store \in Transactional
    BY <2>1, TransactionalPlan DEF OpenTemp, OnPlan
  <2>2. CASE store \in {"telemetry", "pointer"}
    BY <2>2, OtherPlan DEF OpenTemp, OnPlan
  <2> QED
    BY <2>1, <2>2 DEF TypeOK, Stores, Transactional
<1>b. store # "pointer" => pc[p] \in HoldSteps
  BY TempStepsHeld DEF OpenTemp
<1>3. Exclusive'
  <2>1. HoldSteps' = HoldSteps
    BY DEF OpenTemp, HoldSteps
  <2>2. store = "pointer" => HoldSteps = {}
    BY DEF HoldSteps, Transactional
  <2> QED
    BY <1>0, <1>b, <2>1, <2>2 DEF Exclusive, OpenTemp, TypeOK
<1>4. SweepSparesLiveWriters'
  <2>1. ASSUME store # "pointer", NEW q \in Invocations, q # p
        PROVE  pc'[q] \notin TempSteps
    BY <2>1, <1>0, <1>b, Alone, TempStepsHeld DEF TypeOK
  <2> QED
    BY <1>0, <1>a, <2>1 DEF SweepSparesLiveWriters, OpenTemp, TempOf, TypeOK, TempSteps
<1>5. ASSUME store \in Transactional
      PROVE  Kept'
  <2> USE <1>5 DEF OpenTemp
  <2>p. store # "pointer"
    BY DEF Transactional
  <2>0. \A q \in Invocations \ {p} : pc[q] \notin HoldSteps
    BY <1>b, <2>p, Alone
  <2>1. TempFile(p) \notin {First, Bak, current, onDisk, NoFile}
    BY <1>a, NamesAssumption, NoFileIsNoInode DEF TempFile, Kept, Apart, Unopened, Inodes
  <2>2. Apart'
    <3>1. \A n \in TempNames : temps[n] = TempFile(p) => n = TempOf(p)
      BY <1>a, <2>1 DEF TempFile, Kept, Apart, Unopened
    <3>2. temps' = [temps EXCEPT ![TempOf(p)] = TempFile(p)]
      OBVIOUS
    <3>3. \A n \in TempNames : temps'[n] # NoFile => temps'[n] \notin {First, Bak, current, onDisk}
      BY <1>a, <2>1, <3>2 DEF TypeOK, Kept, Apart
    <3>4. \A m, n \in TempNames : temps'[m] # NoFile /\ temps'[m] = temps'[n] => m = n
      BY <1>a, <3>1, <3>2 DEF TypeOK, Kept, Apart
    <3>5. ASSUME NEW q \in Invocations, pc'[q] \in Unopened
          PROVE  /\ q \notin {current, onDisk}
                 /\ \A n \in TempNames : temps'[n] # q
      <4>1. q # p /\ pc[q] \in Unopened
        BY <1>0, <1>2, <3>5 DEF TypeOK, Unopened
      <4>2. TempFile(p) # q
        BY <1>a, <4>1 DEF TempFile, Kept, Apart
      <4> QED
        BY <1>a, <3>2, <4>1, <4>2 DEF TypeOK, Kept, Apart
    <3> QED
      BY <3>3, <3>4, <3>5 DEF Kept, Apart
  <2>3. Contents'
    <3>1. ASSUME NEW q \in Invocations, q # p
          PROVE  pc'[q] \in {"start", "lock", "done", "failed", "killed"}
      BY <1>0, <2>0, <3>1 DEF TypeOK, HoldSteps
    <3>2. pc'[p] = "write" /\ handle'[p] = TempFile(p) /\ data'[TempFile(p)] = Empty
      BY <1>0, <1>2, <1>a DEF TypeOK
    <3> QED
      BY <3>1, <3>2 DEF Contents
  <2>4. /\ \A i \in {First, current, onDisk} : data'[i] = data[i]
        /\ \A i \in {First, current, onDisk} : i \in flushed => i \in flushed'
    BY <2>1 DEF TypeOK
  <2>5. Sound' /\ Acks'
    BY <2>4 DEF Kept, Sound, Acks, Durable, Parses
  <2>6. Promises' = Promises /\ PromisedDoc' = PromisedDoc
    BY <2>4 DEF Promises, PromisedDoc, Parses
  <2>7. Carried'
    BY <1>0, <2>6 DEF Kept, Carried, OpenTemp, TypeOK, TempSteps
  <2> QED
    BY <2>2, <2>3, <2>5, <2>7 DEF Kept
<1>6. Kept'
  BY <1>5 DEF Kept, OpenTemp
<1> QED
  BY <1>0, <1>1, <1>3, <1>4, <1>6

LEMMA WriteKeeps ==
    ASSUME IInv, NEW p \in Invocations, Write(p)
    PROVE  IInv'
<1> USE DEF IInv
<1>0. /\ pc' = [pc EXCEPT ![p] = NextOf(p)]
      /\ NextOf(p) \in StepsOf(store)
      /\ pc' \in [Invocations -> Steps]
      /\ OnPlan'
  BY Advancing DEF Write, OnPlan
<1>b. store # "pointer" => pc[p] \in HoldSteps
  BY TempStepsHeld DEF Write, TempSteps
<1>1. TypeOK'
  <2>1. doc[p] \in SUBSET Invocations
    BY DEF TypeOK
  <2>2. \A d \in {Whole(doc[p]), Mixed} : d \in Document
    BY <2>1, WholeIsDocument
  <2> QED
    BY <1>0, <2>2 DEF TypeOK, Write, history, Steps
<1>2. /\ NextOf(p) \in {"sync", "rename"}
      /\ store \in Transactional => NextOf(p) = "sync"
  <2>1. CASE store \in Transactional
    BY <2>1, TransactionalPlan DEF Write, OnPlan
  <2>2. CASE store \in {"telemetry", "pointer"}
    BY <2>2, OtherPlan DEF Write, OnPlan, Transactional
  <2> QED
    BY <2>1, <2>2 DEF TypeOK, Stores, Transactional
<1>3. Exclusive'
  <2>1. HoldSteps' = HoldSteps
    BY DEF Write, HoldSteps
  <2>2. store = "pointer" => HoldSteps = {}
    BY DEF HoldSteps, Transactional
  <2> QED
    BY <1>0, <1>b, <2>1, <2>2 DEF Exclusive, Write, TypeOK
<1>4. SweepSparesLiveWriters'
  BY <1>0, <1>2 DEF SweepSparesLiveWriters, Write, TempOf, TypeOK
<1>5. ASSUME store \in Transactional
      PROVE  Kept'
  <2> USE <1>5 DEF Write
  <2>0. ASSUME NEW q \in Invocations, q # p
        PROVE  /\ pc'[q] = pc[q]
               /\ pc[q] \in {"start", "lock", "done", "failed", "killed"}
    BY <1>0, <1>b, <2>0, Alone DEF TypeOK, HoldSteps, Transactional
  <2>1. Apart'
    BY <1>0, <1>2 DEF Kept, Apart, Unopened, TypeOK
  <2>2. handle[p] \notin {First, Bak, current, onDisk, NoFile}
    <3>1. handle[p] = temps[TempOf(p)] /\ TempOf(p) \in TempNames
      BY NamesAssumption DEF SweepSparesLiveWriters, Transactional, TempOf, TempNames
    <3> QED
      BY <3>1, NoFileIsNoInode DEF Kept, Apart, TypeOK
  <2>3. data[handle[p]] = Empty
    BY DEF Kept, Contents
  <2>4. data' = [data EXCEPT ![handle[p]] = Whole(doc[p])]
    BY <2>3
  <2>5. Contents'
    BY <1>0, <1>2, <2>0, <2>4 DEF Kept, Contents, TypeOK
  <2>6. /\ \A i \in {First, current, onDisk} : data'[i] = data[i]
        /\ \A i \in {First, current, onDisk} : i \in flushed => i \in flushed'
    BY <2>2, <2>4 DEF TypeOK
  <2>7. Sound' /\ Acks'
    BY <2>6 DEF Kept, Sound, Acks, Durable, Parses
  <2>8. Promises' = Promises /\ PromisedDoc' = PromisedDoc
    BY <2>6 DEF Promises, PromisedDoc, Parses
  <2>9. Carried'
    BY <1>0, <1>2, <2>0, <2>8 DEF Kept, Carried, TypeOK, TempSteps
  <2> QED
    BY <2>1, <2>5, <2>7, <2>9 DEF Kept
<1>6. Kept'
  BY <1>5 DEF Kept, Write
<1> QED
  BY <1>0, <1>1, <1>3, <1>4, <1>6

LEMMA SyncKeeps ==
    ASSUME IInv, NEW p \in Invocations, Sync(p)
    PROVE  IInv'
<1> USE DEF IInv
<1>0. /\ pc' = [pc EXCEPT ![p] = NextOf(p)]
      /\ NextOf(p) \in StepsOf(store)
      /\ pc' \in [Invocations -> Steps]
      /\ OnPlan'
  BY Advancing DEF Sync, OnPlan
<1>b. store # "pointer" => pc[p] \in HoldSteps
  BY TempStepsHeld DEF Sync, TempSteps
<1>t. store \in Transactional
  BY DEF Sync, OnPlan, StepsOf, Transactional, TypeOK, Stores, WorkSteps
<1>2. NextOf(p) \in {"backup", "rename"}
  BY <1>t, TransactionalPlan DEF Sync, OnPlan
<1>1. TypeOK'
  BY <1>0 DEF TypeOK, Sync, history, Steps
<1>3. Exclusive'
  <2>1. HoldSteps' = HoldSteps
    BY DEF Sync, HoldSteps
  <2>2. store = "pointer" => HoldSteps = {}
    BY DEF HoldSteps, Transactional
  <2> QED
    BY <1>0, <1>b, <2>1, <2>2 DEF Exclusive, Sync, TypeOK
<1>4. SweepSparesLiveWriters'
  BY <1>0, <1>2 DEF SweepSparesLiveWriters, Sync, TempOf, TypeOK
<1>6. Kept'
  <2> USE <1>t DEF Sync
  <2>0. ASSUME NEW q \in Invocations, q # p
        PROVE  /\ pc'[q] = pc[q]
               /\ pc[q] \in {"start", "lock", "done", "failed", "killed"}
    BY <1>0, <1>b, <2>0, Alone DEF TypeOK, HoldSteps, Transactional
  <2>1. Apart'
    BY <1>0, <1>2 DEF Kept, Apart, Unopened, TypeOK
  <2>2. Contents'
    BY <1>0, <1>2, <2>0 DEF Kept, Contents, TypeOK
  <2>3. Sound' /\ Acks'
    BY DEF Kept, Sound, Acks, Durable, Parses
  <2>4. Carried'
    BY <1>0, <1>2, <2>0 DEF Kept, Carried, TypeOK, TempSteps, Promises, PromisedDoc, Parses
  <2> QED
    BY <2>1, <2>2, <2>3, <2>4 DEF Kept
<1> QED
  BY <1>0, <1>1, <1>3, <1>4, <1>6

LEMMA OpenBackupKeeps ==
    ASSUME IInv, NEW p \in Invocations, OpenBackup(p)
    PROVE  IInv'
<1> USE DEF IInv
<1>t. store \in Transactional
  BY DEF OpenBackup, OnPlan, StepsOf, Transactional, TypeOK, Stores, WorkSteps
<1>0. /\ \E next \in {"fill", "rename"} :
            pc' = [pc EXCEPT ![p] = next] /\ (next = "fill" => current # NoFile)
      /\ pc' \in [Invocations -> Steps]
      /\ OnPlan'
  <2>1. CASE current = NoFile
    BY <2>1 DEF OpenBackup, Goto, OnPlan, Steps, StepsOf, WorkSteps, TypeOK
  <2>2. CASE current # NoFile
    BY <1>t, <2>2, Advancing, TransactionalPlan DEF OpenBackup, OnPlan
  <2> QED
    BY <2>1, <2>2
<1>b. pc[p] \in HoldSteps
  BY <1>t DEF OpenBackup, HoldSteps, WorkSteps
<1>c. /\ data' = [data EXCEPT ![Bak] = Empty] \/ data' = data
      /\ flushed \ {Bak} \subseteq flushed'
  BY DEF OpenBackup
<1>1. TypeOK'
  BY <1>0, <1>c, WholeIsDocument DEF TypeOK, OpenBackup, history, Steps, Inodes
<1>3. Exclusive'
  BY <1>0, <1>b DEF Exclusive, OpenBackup, HoldSteps, TypeOK
<1>4. SweepSparesLiveWriters'
  BY <1>0 DEF SweepSparesLiveWriters, OpenBackup, TempOf, TypeOK
<1>6. Kept'
  <2> USE <1>t DEF OpenBackup
  <2>0. ASSUME NEW q \in Invocations, q # p
        PROVE  /\ pc'[q] = pc[q]
               /\ pc[q] \in {"start", "lock", "done", "failed", "killed"}
    BY <1>0, <1>b, <2>0, Alone DEF TypeOK, HoldSteps, Transactional
  <2>1. Apart'
    BY <1>0 DEF Kept, Apart, Unopened, TypeOK
  <2>2. handle[p] # Bak
    <3>1. handle[p] = temps[TempOf(p)] /\ TempOf(p) \in TempNames
      BY NamesAssumption DEF SweepSparesLiveWriters, Transactional, TempOf, TempNames
    <3> QED
      BY <3>1, NoFileIsNoInode DEF Kept, Apart, TypeOK
  <2>3. /\ \A i \in {First, current, onDisk, handle[p]} \cap Inodes : data'[i] = data[i]
        /\ \A i \in {First, current, onDisk, handle[p]} : i \in flushed => i \in flushed'
    <3>1. \A i \in {First, current, onDisk, handle[p]} : i # Bak
      BY <2>2, NamesAssumption DEF Kept, Apart
    <3>2. data \in [Inodes -> Document]
      BY DEF TypeOK
    <3> QED
      BY ONLY <1>c, <3>1, <3>2
  <2>4. Contents'
    BY <1>0, <2>0, <2>3 DEF Kept, Contents, TypeOK
  <2>5. Sound' /\ Acks'
    BY <2>3 DEF Kept, Sound, Acks, Durable, Parses, TypeOK, Inodes
  <2>6. Promises' = Promises /\ PromisedDoc' = PromisedDoc
    BY <2>3 DEF Promises, PromisedDoc, Parses, TypeOK, Inodes
  <2>7. Carried'
    BY <1>0, <2>0, <2>6 DEF Kept, Carried, TypeOK, TempSteps
  <2> QED
    BY <2>1, <2>4, <2>5, <2>7 DEF Kept
<1> QED
  BY <1>0, <1>1, <1>3, <1>4, <1>6

LEMMA FillBackupKeeps ==
    ASSUME IInv, NEW p \in Invocations, FillBackup(p)
    PROVE  IInv'
<1> USE DEF IInv
<1>0. /\ pc' = [pc EXCEPT ![p] = NextOf(p)]
      /\ NextOf(p) \in StepsOf(store)
      /\ pc' \in [Invocations -> Steps]
      /\ OnPlan'
  BY Advancing DEF FillBackup, OnPlan
<1>b. store # "pointer" => pc[p] \in HoldSteps
  BY TempStepsHeld DEF FillBackup, TempSteps
<1>t. store \in Transactional
  BY DEF FillBackup, OnPlan, StepsOf, Transactional, TypeOK, Stores, WorkSteps
<1>2. NextOf(p) = "rename"
  BY <1>t, TransactionalPlan DEF FillBackup, OnPlan
<1>1. TypeOK'
  <2>1. data[current] \in Document \/ current = NoFile
    BY DEF TypeOK
  <2>2. current # NoFile
    BY <1>t DEF FillBackup, Kept, Contents
  <2> QED
    BY <1>0, <2>1, <2>2 DEF TypeOK, FillBackup, history, Steps
<1>3. Exclusive'
  <2>1. HoldSteps' = HoldSteps
    BY DEF FillBackup, HoldSteps
  <2>2. store = "pointer" => HoldSteps = {}
    BY DEF HoldSteps, Transactional
  <2> QED
    BY <1>0, <1>b, <2>1, <2>2 DEF Exclusive, FillBackup, TypeOK
<1>4. SweepSparesLiveWriters'
  BY <1>0, <1>2 DEF SweepSparesLiveWriters, FillBackup, TempOf, TypeOK
<1>6. Kept'
  <2> USE <1>t DEF FillBackup
  <2>0. ASSUME NEW q \in Invocations, q # p
        PROVE  /\ pc'[q] = pc[q]
               /\ pc[q] \in {"start", "lock", "done", "failed", "killed"}
    BY <1>0, <1>b, <2>0, Alone DEF TypeOK, HoldSteps, Transactional
  <2>1. Apart'
    BY <1>0, <1>2 DEF Kept, Apart, Unopened, TypeOK
  <2>2. handle[p] # Bak
    <3>1. handle[p] = temps[TempOf(p)] /\ TempOf(p) \in TempNames
      BY NamesAssumption DEF SweepSparesLiveWriters, Transactional, TempOf, TempNames
    <3> QED
      BY <3>1, NoFileIsNoInode DEF Kept, Apart, TypeOK
  <2>3. \A i \in {First, current, onDisk, handle[p]} : data'[i] = data[i]
    BY <2>2, NamesAssumption DEF TypeOK, Kept, Apart
  <2>4. Contents'
    BY <1>0, <1>2, <2>0, <2>3 DEF Kept, Contents, TypeOK
  <2>5. Sound' /\ Acks'
    BY <2>3 DEF Kept, Sound, Acks, Durable, Parses
  <2>6. Promises' = Promises /\ PromisedDoc' = PromisedDoc
    BY <2>3 DEF Promises, PromisedDoc, Parses
  <2>7. Carried'
    BY <1>0, <1>2, <2>0, <2>6 DEF Kept, Carried, TypeOK, TempSteps
  <2> QED
    BY <2>1, <2>4, <2>5, <2>7 DEF Kept
<1> QED
  BY <1>0, <1>1, <1>3, <1>4, <1>6

LEMMA RenameKeeps ==
    ASSUME IInv, NEW p \in Invocations, Rename(p)
    PROVE  IInv'
<1> USE DEF IInv
<1>a. TempOf(p) \in TempNames
  BY NamesAssumption DEF TypeOK, TempOf, TempNames
<1>b. store # "pointer" => pc[p] \in HoldSteps
  BY TempStepsHeld DEF Rename, TempSteps
<1>0. /\ \E next \in {"failed", "syncdir", "reclaim", "return"} :
            pc' = [pc EXCEPT ![p] = next]
      /\ pc' \in [Invocations -> Steps]
      /\ OnPlan'
  <2>1. CASE temps[TempOf(p)] = NoFile
    BY <2>1 DEF Rename, Goto, OnPlan, Steps, TypeOK
  <2>2. CASE temps[TempOf(p)] # NoFile
    <3>1. /\ pc' = [pc EXCEPT ![p] = NextOf(p)]
          /\ pc' \in [Invocations -> Steps]
          /\ OnPlan'
      BY <2>2, Advancing DEF Rename, OnPlan
    <3>2. NextOf(p) \in {"syncdir", "reclaim", "return"}
      <4>1. CASE store \in Transactional
        BY <4>1, TransactionalPlan DEF Rename, OnPlan
      <4>2. CASE store \in {"telemetry", "pointer"}
        BY <4>2, OtherPlan DEF Rename, OnPlan
      <4> QED
        BY <4>1, <4>2 DEF TypeOK, Stores, Transactional
    <3> QED
      BY <3>1, <3>2
  <2> QED
    BY <2>1, <2>2
<1>1. TypeOK'
  BY <1>0, <1>a DEF TypeOK, Rename, Unlocked, history, Steps
<1>3. Exclusive'
  <2>1. HoldSteps' = HoldSteps
    BY DEF Rename, HoldSteps
  <2>2. store = "pointer" => HoldSteps = {}
    BY DEF HoldSteps, Transactional
  <2>3. "failed" \notin HoldSteps
    BY DEF HoldSteps, WorkSteps
  <2> QED
    BY <1>0, <1>b, <2>1, <2>2, <2>3 DEF Exclusive, Rename, Unlocked, Goto, TypeOK
<1>4. SweepSparesLiveWriters'
  <2>1. ASSUME store # "pointer", NEW q \in Invocations, q # p
        PROVE  pc'[q] \notin TempSteps
    BY <2>1, <1>0, <1>b, Alone, TempStepsHeld DEF TypeOK
  <2> QED
    BY <1>0, <2>1 DEF SweepSparesLiveWriters, Rename, TypeOK, TempSteps
<1>5. ASSUME store \in Transactional
      PROVE  Kept'
  <2> USE <1>5 DEF Rename
  <2>0. ASSUME NEW q \in Invocations, q # p
        PROVE  /\ pc'[q] = pc[q]
               /\ pc[q] \in {"start", "lock", "done", "failed", "killed"}
    BY <1>0, <1>b, <2>0, Alone DEF TypeOK, HoldSteps, Transactional
  <2>1. handle[p] = temps[TempOf(p)] /\ handle[p] # NoFile /\ handle[p] \in Inodes
    BY NoFileIsNoInode DEF SweepSparesLiveWriters, Transactional, TypeOK
  <2>2. current' = handle[p] /\ temps' = [temps EXCEPT ![TempOf(p)] = NoFile]
    BY <2>1
  <2>3. pc' = [pc EXCEPT ![p] = "syncdir"]
    BY <2>1, TransactionalPlan DEF Advance, Goto, NextOf, OnPlan
  <2>4. data[handle[p]] = Whole(doc[p]) /\ handle[p] \in flushed
    BY DEF Kept, Contents
  <2>5. p \in doc[p] /\ acked \subseteq doc[p] /\ (Promises => doc[p] = PromisedDoc \cup {p})
    BY DEF Kept, Carried, TempSteps
  <2>6. handle[p] \notin {First, Bak}
    BY <1>a, <2>1 DEF Kept, Apart
  <2>7. Apart'
    <3>1. current' # Bak /\ onDisk' # Bak
      BY <2>2, <2>6 DEF Kept, Apart
    <3>2. \A n \in TempNames : temps'[n] # NoFile =>
             temps'[n] \notin {First, Bak, current', onDisk'}
      BY <1>a, <2>1, <2>2 DEF TypeOK, Kept, Apart
    <3>3. \A m, n \in TempNames : temps'[m] # NoFile /\ temps'[m] = temps'[n] => m = n
      BY <1>a, <2>2 DEF TypeOK, Kept, Apart
    <3>4. ASSUME NEW q \in Invocations, pc'[q] \in Unopened
          PROVE  /\ q \notin {current', onDisk'}
                 /\ \A n \in TempNames : temps'[n] # q
      <4>1. pc[q] \in Unopened
        BY <2>3, <3>4 DEF TypeOK, Unopened
      <4>2. q # NoFile
        BY NamesAssumption
      <4> QED
        BY <1>a, <2>1, <2>2, <4>1, <4>2 DEF TypeOK, Kept, Apart
    <3> QED
      BY <3>1, <3>2, <3>3, <3>4 DEF Apart
  <2>8. data'[current'].updates = doc[p] /\ data'[current'].form = "whole"
    BY <2>2, <2>4, WholeIsDocument DEF TypeOK
  <2>9. Contents'
    BY <2>0, <2>1, <2>2, <2>3, <2>5, <2>8 DEF Contents, TypeOK
  <2>10. Sound' /\ Acks'
    BY <2>1, <2>2, <2>4, <2>5, <2>8 DEF Kept, Sound, Acks, Durable, Parses
  <2>11. Carried'
    BY <2>0, <2>3 DEF Carried, TypeOK, TempSteps
  <2> QED
    BY <2>7, <2>9, <2>10, <2>11 DEF Kept
<1>6. Kept'
  BY <1>5 DEF Kept, Rename
<1> QED
  BY <1>0, <1>1, <1>3, <1>4, <1>6

LEMMA SyncDirKeeps ==
    ASSUME IInv, NEW p \in Invocations, SyncDir(p)
    PROVE  IInv'
<1> USE DEF IInv
<1>0. /\ pc' = [pc EXCEPT ![p] = NextOf(p)]
      /\ NextOf(p) \in StepsOf(store)
      /\ pc' \in [Invocations -> Steps]
      /\ OnPlan'
  BY Advancing DEF SyncDir, OnPlan
<1>t. store \in Transactional
  BY DEF SyncDir, OnPlan, StepsOf, Transactional, TypeOK, Stores, WorkSteps
<1>2. NextOf(p) \in {"reclaim", "return"}
  BY <1>t, TransactionalPlan DEF SyncDir, OnPlan
<1>b. pc[p] \in HoldSteps
  BY <1>t DEF SyncDir, HoldSteps, WorkSteps
<1>1. TypeOK'
  BY <1>0 DEF TypeOK, SyncDir, history, Steps
<1>3. Exclusive'
  BY <1>0, <1>b DEF Exclusive, SyncDir, HoldSteps, TypeOK
<1>4. SweepSparesLiveWriters'
  BY <1>0, <1>2 DEF SweepSparesLiveWriters, SyncDir, TempOf, TypeOK
<1>6. Kept'
  <2> USE <1>t DEF SyncDir
  <2>0. ASSUME NEW q \in Invocations, q # p
        PROVE  /\ pc'[q] = pc[q]
               /\ pc[q] \in {"start", "lock", "done", "failed", "killed"}
    BY <1>0, <1>b, <2>0, Alone DEF TypeOK, HoldSteps, Transactional
  <2>1. Apart'
    BY <1>0, <1>2 DEF Kept, Apart, Unopened, TypeOK
  <2>2. Contents'
    BY <1>0, <1>2, <2>0 DEF Kept, Contents, TypeOK
  <2>3. Sound' /\ Acks'
    BY DEF Kept, Sound, Acks, Durable, Parses
  <2>4. Carried'
    BY <1>0, <1>2, <2>0 DEF Kept, Carried, TypeOK, TempSteps
  <2> QED
    BY <2>1, <2>2, <2>3, <2>4 DEF Kept
<1> QED
  BY <1>0, <1>1, <1>3, <1>4, <1>6

LEMMA ReclaimKeeps ==
    ASSUME IInv, NEW p \in Invocations, Reclaim(p)
    PROVE  IInv'
<1> USE DEF IInv
<1>0. /\ pc' = [pc EXCEPT ![p] = NextOf(p)]
      /\ NextOf(p) \in StepsOf(store)
      /\ pc' \in [Invocations -> Steps]
      /\ OnPlan'
  BY Advancing DEF Reclaim, OnPlan
<1>2. NextOf(p) = "return"
  <2>1. CASE store \in Transactional
    BY <2>1, TransactionalPlan DEF Reclaim, OnPlan
  <2>2. CASE store \in {"telemetry", "pointer"}
    BY <2>2, OtherPlan DEF Reclaim, OnPlan
  <2> QED
    BY <2>1, <2>2 DEF TypeOK, Stores, Transactional
<1>b. store # "pointer" /\ pc[p] \in HoldSteps
  BY DEF Reclaim, HoldSteps, WorkSteps, OnPlan, StepsOf, Transactional, TypeOK, Stores
<1>1. TypeOK'
  BY <1>0 DEF TypeOK, Reclaim, history, Steps
<1>3. Exclusive'
  BY <1>0, <1>b DEF Exclusive, Reclaim, HoldSteps, TypeOK
<1>4. SweepSparesLiveWriters'
  <2>1. ASSUME NEW q \in Invocations, q # p
        PROVE  pc'[q] \notin TempSteps
    BY <2>1, <1>0, <1>b, Alone, TempStepsHeld DEF TypeOK
  <2> QED
    BY <1>0, <1>2, <2>1 DEF SweepSparesLiveWriters, Reclaim, TypeOK, TempSteps
<1>5. ASSUME store \in Transactional
      PROVE  Kept'
  <2> USE <1>5 DEF Reclaim
  <2>0. ASSUME NEW q \in Invocations, q # p
        PROVE  /\ pc'[q] = pc[q]
               /\ pc[q] \in {"start", "lock", "done", "failed", "killed"}
    BY <1>0, <1>b, <2>0, Alone DEF TypeOK, HoldSteps, Transactional
  <2>1. Apart'
    <3>1. \A n \in TempNames : temps'[n] \in {temps[n], NoFile}
      OBVIOUS
    <3>2. \A q \in Invocations : q # NoFile
      BY NamesAssumption
    <3>3. \A q \in Invocations : pc'[q] \in Unopened => pc[q] \in Unopened
      BY <1>0, <1>2 DEF TypeOK, Unopened
    <3> QED
      BY <3>1, <3>2, <3>3 DEF Kept, Apart
  <2>2. Contents'
    BY <1>0, <1>2, <2>0 DEF Kept, Contents, TypeOK
  <2>3. Sound' /\ Acks'
    BY DEF Kept, Sound, Acks, Durable, Parses
  <2>4. Carried'
    BY <1>0, <1>2, <2>0 DEF Kept, Carried, TypeOK, TempSteps
  <2> QED
    BY <2>1, <2>2, <2>3, <2>4 DEF Kept
<1>6. Kept'
  BY <1>5 DEF Kept, Reclaim
<1> QED
  BY <1>0, <1>1, <1>3, <1>4, <1>6

LEMMA ReturnKeeps ==
    ASSUME IInv, NEW p \in Invocations, Return(p)
    PROVE  IInv'
<1> USE DEF IInv
<1>0. /\ pc' = [pc EXCEPT ![p] = "done"]
      /\ pc' \in [Invocations -> Steps]
      /\ OnPlan'
  BY DEF Return, Goto, OnPlan, Steps, TypeOK
<1>1. TypeOK'
  BY <1>0 DEF TypeOK, Return, Unlocked, files, history, Steps
<1>3. Exclusive'
  BY <1>0 DEF Exclusive, Return, Unlocked, HoldSteps, TypeOK, WorkSteps
<1>4. SweepSparesLiveWriters'
  BY <1>0 DEF SweepSparesLiveWriters, Return, files, TempOf, TypeOK
<1>5. ASSUME store \in Transactional
      PROVE  Kept'
  <2> USE <1>5 DEF Return, files
  <2>0. ASSUME NEW q \in Invocations, q # p
        PROVE  /\ pc'[q] = pc[q]
               /\ pc[q] \in {"start", "lock", "done", "failed", "killed"}
    <3>1. pc[p] \in HoldSteps
      BY DEF HoldSteps, WorkSteps
    <3> QED
      BY <1>0, <2>0, <3>1, Alone DEF TypeOK, HoldSteps
  <2>1. Apart'
    BY <1>0 DEF Kept, Apart, Unopened, TypeOK
  <2>2. Contents'
    BY <1>0, <2>0 DEF Contents, TypeOK
  <2>3. Sound'
    BY DEF Kept, Sound, Durable, Parses
  <2>4. Acks'
    <3>1. current # NoFile /\ p \in data[current].updates /\ onDisk = current
      BY DEF Kept, Contents
    <3> QED
      BY <3>1 DEF Kept, Acks
  <2>5. Carried'
    BY <1>0, <2>0 DEF Carried, TypeOK, TempSteps
  <2> QED
    BY <2>1, <2>2, <2>3, <2>4, <2>5 DEF Kept
<1>6. Kept'
  BY <1>5 DEF Kept, Return
<1> QED
  BY <1>0, <1>1, <1>3, <1>4, <1>6

LEMMA FailKeeps ==
    ASSUME IInv, NEW p \in Invocations, Fail(p)
    PROVE  IInv'
<1> USE DEF IInv
<1>0. /\ pc' = [pc EXCEPT ![p] = "failed"]
      /\ pc' \in [Invocations -> Steps]
      /\ OnPlan'
  BY DEF Fail, Goto, OnPlan, Steps, TypeOK
<1>a. temps' \in {temps, [temps EXCEPT ![TempOf(p)] = NoFile]}
  BY DEF Fail
<1>1. TypeOK'
  <2>1. temps' \in [TempNames -> Inodes \cup {NoFile}]
    BY <1>a DEF TypeOK
  <2>2. faults' \in Nat
    BY DEF TypeOK, Fail
  <2>3. lock' \in Invocations \cup {NoOne} /\ halfSaved' \in BOOLEAN
    BY DEF TypeOK, Fail, Unlocked, InSave
  <2> QED
    BY <1>0, <2>1, <2>2, <2>3 DEF TypeOK, Fail, Steps
<1>3. Exclusive'
  BY <1>0 DEF Exclusive, Fail, Unlocked, HoldSteps, TypeOK, WorkSteps
<1>4. SweepSparesLiveWriters'
  <2>1. ASSUME store # "pointer", NEW q \in Invocations, pc'[q] \in TempSteps
        PROVE  temps'[TempOf(q)] = temps[TempOf(q)] /\ pc[q] \in TempSteps
    <3>1. q # p /\ pc[q] \in TempSteps
      BY <1>0, <2>1 DEF TypeOK, TempSteps
    <3>2. CASE store = "policy"
      <4>1. TempOf(q) # TempOf(p)
        BY <3>1, <3>2 DEF TempOf
      <4>2. TempOf(q) \in TempNames /\ temps \in [TempNames -> Inodes \cup {NoFile}]
        BY <3>2 DEF TempOf, TempNames, TypeOK
      <4>3. temps'[TempOf(q)] = temps[TempOf(q)]
        BY ONLY <1>a, <4>1, <4>2
      <4> QED
        BY <3>1, <4>3
    <3>3. CASE store # "policy"
      BY <3>1, <3>3 DEF Fail
    <3> QED
      BY <3>2, <3>3
  <2>2. store' = store /\ handle' = handle
    BY DEF Fail
  <2> QED
    BY <2>1, <2>2 DEF SweepSparesLiveWriters, TempOf, TempSteps
<1>5. ASSUME store \in Transactional
      PROVE  Kept'
  <2> USE <1>5 DEF Fail
  <2>1. Apart'
    <3>1. \A n \in TempNames : temps'[n] \in {temps[n], NoFile}
      BY <1>a DEF TypeOK
    <3>2. \A q \in Invocations : q # NoFile
      BY NamesAssumption
    <3>3. \A q \in Invocations : pc'[q] \in Unopened => pc[q] \in Unopened
      BY <1>0 DEF TypeOK, Unopened
    <3> QED
      BY <3>1, <3>2, <3>3 DEF Kept, Apart
  <2>2. Contents'
    BY <1>0 DEF Kept, Contents, TypeOK
  <2>3. Sound' /\ Acks'
    BY DEF Kept, Sound, Acks, Durable, Parses
  <2>4. Carried'
    BY <1>0 DEF Kept, Carried, TypeOK, TempSteps, Promises, PromisedDoc, Parses
  <2> QED
    BY <2>1, <2>2, <2>3, <2>4 DEF Kept
<1>6. Kept'
  BY <1>5 DEF Kept, Fail
<1> QED
  BY <1>0, <1>1, <1>3, <1>4, <1>6

LEMMA StopKeeps ==
    ASSUME IInv, Stop
    PROVE  IInv'
<1> USE DEF IInv
<1>0. /\ \A q \in Invocations :
             pc'[q] \in {"start", "done", "failed", "killed"}
      /\ \A q \in Invocations : pc'[q] = "start" => pc[q] = "start"
      /\ pc' \in [Invocations -> Steps]
  BY DEF Stop, Running, TypeOK, Steps
<1>1. TypeOK'
  <2>1. data' \in [Inodes -> Document]
    BY WholeIsDocument DEF Stop, TypeOK
  <2>2. temps' \in [TempNames -> Inodes \cup {NoFile}]
    BY DEF Stop, TypeOK
  <2>3. faults' \in Nat
    BY DEF Stop, TypeOK
  <2>4. halfSaved' \in BOOLEAN /\ stopped' \in BOOLEAN
    BY DEF Stop, TypeOK
  <2> QED
    BY <1>0, <2>1, <2>2, <2>3, <2>4 DEF Stop, TypeOK, Steps
<1>2. OnPlan'
  BY <1>0 DEF OnPlan
<1>3. Exclusive'
  BY <1>0 DEF Exclusive, HoldSteps, WorkSteps
<1>4. SweepSparesLiveWriters'
  BY <1>0 DEF SweepSparesLiveWriters
<1>5. ASSUME store \in Transactional
      PROVE  Kept'
  <2> USE <1>5 DEF Stop
  <2>1. \A n \in TempNames : temps'[n] \in {temps[n], NoFile}
    OBVIOUS
  <2>2. current' \in {current, onDisk} /\ onDisk' = current'
    OBVIOUS
  <2>3. Apart'
    <3>1. \A q \in Invocations : q # NoFile
      BY NamesAssumption
    <3>2. \A q \in Invocations : pc'[q] \in Unopened => pc[q] \in Unopened
      BY <1>0 DEF Unopened
    <3> QED
      BY <2>1, <2>2, <3>1, <3>2 DEF Kept, Apart
  <2>4. Contents'
    BY <1>0 DEF Contents
  <2>5. \A i \in {First, current, onDisk} \cap Inodes : data'[i] = data[i]
    <3>1. \A i \in {First, current, onDisk} \cap Inodes : i \in flushed
      BY NoFileIsNoInode DEF Kept, Sound, Durable
    <3> QED
      BY <3>1
  <2>6. Sound'
    <3>1. First \in Inodes
      BY DEF Inodes
    <3> QED
      BY <2>2, <2>5, <3>1 DEF Kept, Sound, Durable, Parses, TypeOK
  <2>7. Acks'
    BY <2>2, <2>5 DEF Kept, Acks, TypeOK
  <2>8. Carried'
    BY <1>0 DEF Carried, TempSteps
  <2> QED
    BY <2>3, <2>4, <2>6, <2>7, <2>8 DEF Kept
<1>6. Kept'
  BY <1>5 DEF Kept, Stop
<1> QED
  BY <1>1, <1>2, <1>3, <1>4, <1>6

LEMMA InitHolds == Init => IInv
<1> SUFFICES ASSUME Init PROVE IInv
  OBVIOUS
<1>1. TypeOK
  <2>1. data \in [Inodes -> Document]
    BY WholeIsDocument DEF Init
  <2>2. handle \in [Invocations -> Inodes]
    BY DEF Init, Inodes
  <2>3. current \in Inodes \cup {NoFile} /\ onDisk \in Inodes \cup {NoFile}
    BY DEF Init, Inodes
  <2> QED
    BY <2>1, <2>2, <2>3 DEF Init, TypeOK
<1>2. OnPlan /\ Exclusive /\ SweepSparesLiveWriters
  BY DEF Init, OnPlan, Exclusive, HoldSteps, WorkSteps, SweepSparesLiveWriters
<1>3. Apart
  BY NamesAssumption DEF Init, Apart
<1>4. Contents /\ Acks /\ Carried
  BY DEF Init, Contents, Acks, Carried, TempSteps
<1>5. Sound
  BY DEF Init, Sound, Durable, Inodes
<1> QED
  BY <1>1, <1>2, <1>3, <1>4, <1>5 DEF IInv, Kept

LEMMA StutterKeeps ==
    ASSUME IInv, UNCHANGED vars
    PROVE  IInv'
<1> USE DEF vars, files, history
<1>1. TypeOK'
  BY DEF IInv, TypeOK
<1>2. OnPlan' /\ Exclusive' /\ SweepSparesLiveWriters'
  BY DEF IInv, OnPlan, Exclusive, HoldSteps, SweepSparesLiveWriters, TempOf
<1>3. Kept'
  BY DEF IInv, Kept, Apart, Contents, Sound, Durable, Parses, Acks, Carried, Promises,
         PromisedDoc
<1> QED
  BY <1>1, <1>2, <1>3 DEF IInv

LEMMA NextKeeps == IInv /\ [Next]_vars => IInv'
<1> SUFFICES ASSUME IInv, [Next]_vars PROVE IInv'
  OBVIOUS
<1>1. ASSUME NEW p \in Invocations, Step(p) PROVE IInv'
  BY <1>1, LockKeeps, LoadKeeps, RefuseKeeps, OpenTempKeeps, WriteKeeps, SyncKeeps,
     OpenBackupKeeps, FillBackupKeeps, RenameKeeps, SyncDirKeeps, ReclaimKeeps,
     ReturnKeeps DEF Step
<1>2. ASSUME NEW p \in Invocations, Begin(p) \/ Misread(p) \/ Fail(p) \/ Kill(p)
      PROVE  IInv'
  BY <1>2, BeginKeeps, MisreadKeeps, FailKeeps, KillKeeps
<1>3. CASE Stop
  BY <1>3, StopKeeps
<1>4. CASE Finished \/ UNCHANGED vars
  BY <1>4, StutterKeeps DEF Finished
<1> QED
  BY <1>1, <1>2, <1>3, <1>4 DEF Next

LEMMA Inductive == Spec => []IInv
BY InitHolds, NextKeeps, PTL DEF Spec

-----------------------------------------------------------------------------
(* The theorems.                                                           *)

(* Every variable keeps its type.                                          *)
THEOREM TypeCorrect == Spec => []TypeOK
BY Inductive, PTL DEF IInv

(* A sweep under the lock never removes a live writer's temporary file, in *)
(* any of the four stores that have a lock.                                *)
THEOREM SweepIsSafe == Spec => []SweepSparesLiveWriters
BY Inductive, PTL DEF IInv

(* A lock-free reader of the state, the health state or the policy never   *)
(* sees a torn document, and an update that returned Ok stays in it.       *)
THEOREM DocumentsDurable == Spec => []DocumentsAreDurable
<1>1. IInv => DocumentsAreDurable
  <2> SUFFICES ASSUME IInv, store \in Transactional PROVE
        /\ current \notin {NoFile, First} => Parses(current)
        /\ \A p \in acked : current # NoFile /\ p \in data[current].updates
    BY DEF DocumentsAreDurable
  <2>1. current \notin {NoFile, First} => Parses(current)
    BY DEF IInv, Kept, Sound, Durable
  <2>2. \A p \in acked : current # NoFile /\ p \in data[current].updates
    BY DEF IInv, Kept, Acks
  <2> QED
    BY <2>1, <2>2
<1> QED
  BY <1>1, Inductive, PTL

-----------------------------------------------------------------------------
(* The refinement: every step is a step of AtomicDocument or none.         *)

PVars == <<PromisedDoc, PromisedAcks>>

LEMMA InitRefines == Init => Promise!Init
<1> SUFFICES ASSUME Init PROVE PromisedDoc = {} /\ PromisedAcks = {}
  BY DEF Promise!Init
<1>1. current # NoFile => data[current] \in {Whole({}), Mixed}
  BY DEF Init, Inodes
<1>2. Whole({}).updates = {} /\ Mixed.updates = {}
  BY DEF Whole, Mixed
<1> QED
  BY <1>1, <1>2 DEF Init, PromisedDoc, PromisedAcks

(* What a writer of a transactional store writes to is no document yet.    *)
LEMMA WriterIsApart ==
    ASSUME IInv, store \in Transactional, NEW p \in Invocations
    PROVE  /\ pc[p] \in TempSteps =>
                 handle[p] \notin {First, Bak, current, onDisk, NoFile}
           /\ pc[p] = "open" =>
                 TempFile(p) \notin {First, Bak, current, onDisk, NoFile}
<1> USE DEF IInv
<1>1. TempOf(p) \in TempNames
  BY NamesAssumption DEF TempOf, TempNames
<1>2. ASSUME pc[p] \in TempSteps
      PROVE  handle[p] \notin {First, Bak, current, onDisk, NoFile}
  <2>1. handle[p] = temps[TempOf(p)] /\ handle[p] \in Inodes
    BY <1>2 DEF SweepSparesLiveWriters, Transactional, TempSteps, TypeOK
  <2> QED
    BY <1>1, <2>1, NoFileIsNoInode DEF Kept, Apart
<1>3. ASSUME pc[p] = "open"
      PROVE  TempFile(p) \notin {First, Bak, current, onDisk, NoFile}
  BY <1>1, <1>3, NamesAssumption DEF TempFile, Kept, Apart, Unopened
<1> QED
  BY <1>2, <1>3

(* A step that leaves every document and every answer alone stutters.      *)
LEMMA SameDocuments ==
    ASSUME IInv, store' = store, current' = current, acked' = acked,
           \A i \in {First, current} \cap Inodes : data'[i] = data[i]
    PROVE  UNCHANGED PVars
<1>1. First \in Inodes /\ current \in Inodes \cup {NoFile}
  BY DEF IInv, TypeOK, Inodes
<1>2. Promises' = Promises
  BY <1>1 DEF Promises, Parses
<1> QED
  BY <1>1, <1>2 DEF PVars, PromisedDoc, PromisedAcks, Parses

(* Every step but a rename, a return and a machine stop is such a step.    *)
Quiet(p) ==
    \/ Begin(p) \/ Lock(p) \/ Load(p) \/ Refuse(p) \/ OpenTemp(p) \/ Write(p)
    \/ Sync(p) \/ OpenBackup(p) \/ FillBackup(p) \/ SyncDir(p) \/ Reclaim(p)
    \/ Misread(p) \/ Fail(p) \/ Kill(p)

LEMMA QuietSteps ==
    ASSUME IInv, store \in Transactional, NEW p \in Invocations, Quiet(p)
    PROVE  /\ store' = store /\ current' = current /\ acked' = acked
           /\ onDisk' \in {onDisk, current}
           /\ \A i \in {First, current, onDisk} \cap Inodes : data'[i] = data[i]
<1>1. store' = store /\ current' = current /\ acked' = acked /\ onDisk' \in {onDisk, current}
  BY DEF Quiet, Begin, Lock, Load, Refuse, OpenTemp, Write, Sync, OpenBackup, FillBackup,
         SyncDir, Reclaim, Misread, Fail, Kill, files
<1>2. data \in [Inodes -> Document]
  BY DEF IInv, TypeOK
<1>3. current # Bak /\ First # Bak /\ onDisk # Bak
  BY NamesAssumption DEF IInv, Kept, Apart
<1>4. \A i \in {First, current, onDisk} \cap Inodes : data'[i] = data[i]
  <2>1. CASE OpenTemp(p)
    BY <1>2, <2>1, WriterIsApart DEF OpenTemp
  <2>2. CASE Write(p)
    BY <1>2, <2>2, WriterIsApart DEF Write, TempSteps
  <2>3. CASE OpenBackup(p) \/ FillBackup(p)
    BY <1>2, <1>3, <2>3 DEF OpenBackup, FillBackup
  <2>4. CASE \/ Begin(p) \/ Lock(p) \/ Load(p) \/ Refuse(p) \/ Sync(p) \/ SyncDir(p)
             \/ Reclaim(p) \/ Misread(p) \/ Fail(p) \/ Kill(p)
    BY <2>4 DEF Begin, Lock, Load, Refuse, Sync, SyncDir, Reclaim, Misread, Fail, Kill, files
  <2> QED
    BY <2>1, <2>2, <2>3, <2>4 DEF Quiet
<1> QED
  BY <1>1, <1>4

(* The rename applies the writer's own update to the promised document.    *)
LEMMA RenameApplies ==
    ASSUME IInv, Promises, NEW p \in Invocations, Rename(p)
    PROVE  Promise!Apply(p)
<1> USE DEF IInv
<1>0. store \in Transactional
  BY DEF Promises
<1>1. handle[p] = temps[TempOf(p)] /\ handle[p] # NoFile /\ handle[p] \in Inodes
  BY <1>0, NoFileIsNoInode DEF Rename, SweepSparesLiveWriters, Transactional, TypeOK
<1>2. current' = handle[p] /\ data' = data /\ store' = store /\ acked' = acked
  BY <1>1 DEF Rename
<1>3. data[handle[p]] = Whole(doc[p]) /\ doc[p] = PromisedDoc \cup {p}
  BY <1>0 DEF Rename, Kept, Contents, Carried, TempSteps
<1>4. Promises'
  BY <1>2 DEF Promises, Parses
<1>5. PromisedDoc' = doc[p]
  BY <1>1, <1>2, <1>3, <1>4 DEF PromisedDoc, Parses, Whole
<1>6. PromisedAcks' = PromisedAcks
  BY <1>2, <1>4 DEF PromisedAcks
<1> QED
  BY <1>3, <1>5, <1>6 DEF Promise!Apply

(* A return acknowledges an update the document holds.                     *)
LEMMA ReturnAcknowledges ==
    ASSUME IInv, Promises, NEW p \in Invocations, Return(p)
    PROVE  Promise!Acknowledge(p)
<1> USE DEF IInv
<1>1. store \in Transactional
  BY DEF Promises
<1>2. current # NoFile /\ p \in data[current].updates
  BY <1>1 DEF Return, Kept, Contents
<1>3. Parses(current)
  <2>1. current # First => Parses(current)
    BY <1>1, <1>2 DEF Kept, Sound, Durable
  <2>2. data[First] = Mixed => data[First].updates = {}
    BY DEF Mixed
  <2> QED
    BY <1>1, <1>2, <2>1, <2>2, WholeIsDocument DEF Kept, Sound, Parses
<1>4. /\ store' = store /\ current' = current /\ data' = data
      /\ acked' = acked \cup {p}
  BY DEF Return, files
<1>5. Promises' /\ PromisedDoc' = PromisedDoc /\ p \in PromisedDoc
  BY <1>2, <1>3, <1>4 DEF Promises, PromisedDoc, Parses
<1>6. PromisedAcks' = PromisedAcks \cup {p}
  BY <1>4, <1>5 DEF PromisedAcks
<1> QED
  BY <1>5, <1>6 DEF Promise!Acknowledge

(* A machine stop finds the documents it can come back with on the disk.   *)
LEMMA StopFindsDocuments ==
    ASSUME IInv, store \in Transactional, Stop
    PROVE  /\ store' = store /\ acked' = acked
           /\ current' \in {current, onDisk} /\ onDisk' = current'
           /\ \A i \in {First, current, onDisk} \cap Inodes : data'[i] = data[i]
<1>1. \A i \in {First, current, onDisk} \cap Inodes : i \in flushed
  BY NoFileIsNoInode DEF IInv, Kept, Sound, Durable
<1> QED
  BY <1>1 DEF Stop

(* The document the disk is sure of is never ahead of the current one.     *)
Behind ==
    Promises /\ onDisk # NoFile =>
        current # NoFile /\ data[onDisk].updates \subseteq data[current].updates

LEMMA BehindKeeps ==
    ASSUME IInv, IInv', Behind, [Next]_vars
    PROVE  Behind'
<1>1. SUFFICES ASSUME Promises', onDisk' # NoFile
      PROVE  current' # NoFile /\ data'[onDisk'].updates \subseteq data'[current'].updates
  BY DEF Behind
<1>t. store' \in Transactional /\ store' = store
  BY <1>1 DEF Promises, Next, vars, files, Step, Begin, Lock, Load, Refuse, OpenTemp, Write,
     Sync, OpenBackup, FillBackup, Rename, SyncDir, Reclaim, Return, Misread, Fail, Kill, Stop,
     Finished
<1>i. First \in Inodes /\ {current, onDisk} \subseteq Inodes \cup {NoFile}
  BY DEF IInv, TypeOK, Inodes
<1>2. ASSUME NEW p \in Invocations, Quiet(p)
      PROVE  current' # NoFile /\ data'[onDisk'].updates \subseteq data'[current'].updates
  <2>1. Promises
    BY <1>1, <1>t, <1>i, <1>2, QuietSteps DEF Promises, Parses
  <2> QED
    BY <1>1, <1>t, <1>i, <1>2, <2>1, QuietSteps DEF Behind
<1>3. ASSUME NEW p \in Invocations, Rename(p)
      PROVE  current' # NoFile /\ data'[onDisk'].updates \subseteq data'[current'].updates
  <2>1. data' = data /\ onDisk' = onDisk
    BY <1>3 DEF Rename
  <2>2. Promises
    BY <1>1, <1>t, <2>1 DEF Promises, Parses
  <2>3. Promise!Apply(p)
    BY <1>3, <2>2, RenameApplies
  <2>4. PromisedDoc = data[current].updates /\ current # NoFile
    <3>1. current # NoFile /\ (current # First => Parses(current))
      BY <1>1, <1>t, <2>1, <2>2 DEF Behind, IInv, Kept, Sound, Durable
    <3>2. ~Parses(First) => data[First].updates = {}
      BY <1>t, WholeIsDocument DEF IInv, Kept, Sound, Parses, Mixed
    <3> QED
      BY <2>2, <3>1, <3>2 DEF PromisedDoc
  <2>5. current' # NoFile
    <3>1. handle[p] = temps[TempOf(p)] /\ handle[p] \in Inodes
      BY <1>3, <1>t DEF Rename, IInv, SweepSparesLiveWriters, Transactional, TypeOK
    <3> QED
      BY <1>3, <3>1, NoFileIsNoInode DEF Rename
  <2>6. PromisedDoc' \subseteq data'[current'].updates
    BY <1>1, <2>5 DEF PromisedDoc
  <2> QED
    BY <1>1, <2>1, <2>2, <2>3, <2>4, <2>5, <2>6 DEF Behind, Promise!Apply
<1>4. ASSUME NEW p \in Invocations, Return(p)
      PROVE  current' # NoFile /\ data'[onDisk'].updates \subseteq data'[current'].updates
  BY <1>1, <1>4 DEF Return, files, Behind, Promises, Parses
<1>5. CASE Stop
  BY <1>1, <1>t, <1>5, StopFindsDocuments
<1>6. CASE Finished \/ UNCHANGED vars
  BY <1>1, <1>6 DEF Finished, vars, files, Behind, Promises, Parses
<1> QED
  BY <1>2, <1>3, <1>4, <1>5, <1>6 DEF Next, Step, Quiet

LEMMA InitBehind == Init => Behind
BY DEF Init, Behind

(* A machine stop may bring back an older document, with every             *)
(* acknowledged update.                                                    *)
LEMMA StopTakesBack ==
    ASSUME IInv, IInv', Behind, Promises, Stop
    PROVE  [Promise!TakeBack]_PVars
<1>0. store \in Transactional
  BY DEF Promises
<1>i. First \in Inodes /\ {current, onDisk} \subseteq Inodes \cup {NoFile}
  BY DEF IInv, TypeOK, Inodes
<1>1. Promises'
  BY <1>0, <1>i, StopFindsDocuments DEF Promises, Parses
<1>2. CASE current' = current
  BY <1>0, <1>2, StopFindsDocuments, SameDocuments
<1>3. CASE current' = onDisk /\ onDisk # current
  <2>1. PromisedAcks' = PromisedAcks /\ PromisedAcks = acked
    BY <1>0, <1>1, StopFindsDocuments DEF PromisedAcks, Promises
  <2>2. ~Parses(First) => data[First].updates = {}
    BY <1>0, WholeIsDocument DEF IInv, Kept, Sound, Parses, Mixed
  <2>3. PromisedDoc = IF current = NoFile THEN {} ELSE data[current].updates
    BY <1>0, <2>2 DEF PromisedDoc, IInv, Kept, Sound, Durable
  <2>4. PromisedDoc' = IF onDisk = NoFile THEN {} ELSE data[onDisk].updates
    <3>1. data'[onDisk] = data[onDisk] \/ onDisk = NoFile
      BY <1>0, <1>i, StopFindsDocuments
    <3>2. onDisk \notin {NoFile, First} => Parses(onDisk)
      BY <1>0 DEF IInv, Kept, Sound, Durable
    <3> QED
      BY <1>1, <1>3, <2>2, <3>1, <3>2 DEF PromisedDoc, Parses
  <2>5. PromisedDoc' \subseteq PromisedDoc
    BY <2>3, <2>4 DEF Behind
  <2>6. acked \subseteq PromisedDoc'
    BY <1>0, <2>4 DEF IInv, Kept, Acks
  <2> QED
    BY <2>1, <2>5, <2>6 DEF Promise!TakeBack
<1> QED
  BY <1>0, <1>2, <1>3, StopFindsDocuments

(* Without a promise nothing is promised after the step either.            *)
LEMMA NoPromiseStays ==
    ASSUME IInv, ~Promises, [Next]_vars
    PROVE  ~Promises'
<1>1. store' = store
  BY DEF Next, vars, files, Step, Begin, Lock, Load, Refuse, OpenTemp, Write,
     Sync, OpenBackup, FillBackup, Rename, SyncDir, Reclaim, Return, Misread, Fail, Kill, Stop,
     Finished
<1>2. CASE store \notin Transactional
  BY <1>1, <1>2 DEF Promises
<1>3. CASE store \in Transactional
  <2>1. First \in Inodes
    BY DEF Inodes
  <2>2. data'[First] = data[First]
    <3>1. ASSUME NEW p \in Invocations, Quiet(p) PROVE data'[First] = data[First]
      BY <1>3, <2>1, <3>1, QuietSteps
    <3>2. ASSUME NEW p \in Invocations, Rename(p) \/ Return(p) PROVE data'[First] = data[First]
      BY <3>2 DEF Rename, Return, files
    <3>3. CASE Stop
      BY <1>3, <2>1, <3>3, StopFindsDocuments
    <3>4. CASE Finished \/ UNCHANGED vars
      BY <3>4 DEF Finished, vars, files
    <3> QED
      BY <3>1, <3>2, <3>3, <3>4 DEF Next, Step, Quiet
  <2> QED
    BY <1>1, <2>2 DEF Promises, Parses
<1> QED
  BY <1>2, <1>3

LEMMA NextRefines ==
    ASSUME IInv, IInv', Behind, [Next]_vars
    PROVE  [Promise!Next]_PVars
<1>1. CASE ~Promises
  BY <1>1, NoPromiseStays DEF PVars, PromisedDoc, PromisedAcks
<1>2. CASE Promises
  <2>1. ASSUME NEW p \in Invocations, Quiet(p) PROVE UNCHANGED PVars
    <3>1. store \in Transactional
      BY <1>2 DEF Promises
    <3> QED
      BY <2>1, <3>1, QuietSteps, SameDocuments
  <2>2. ASSUME NEW p \in Invocations, Rename(p) PROVE Promise!Next
    BY <1>2, <2>2, RenameApplies DEF Promise!Next
  <2>3. ASSUME NEW p \in Invocations, Return(p) PROVE Promise!Next
    BY <1>2, <2>3, ReturnAcknowledges DEF Promise!Next
  <2>4. CASE Stop
    BY <1>2, <2>4, StopTakesBack DEF Promise!Next
  <2>5. CASE Finished \/ UNCHANGED vars
    BY <2>5 DEF Finished, vars, files, PVars, PromisedDoc, PromisedAcks, Promises, Parses
  <2> QED
    BY <2>1, <2>2, <2>3, <2>4, <2>5 DEF Next, Step, Quiet
<1> QED
  BY <1>1, <1>2

(* The session state, the health state and an undamaged policy are atomic  *)
(* documents, through any number of writers, kills, errors and stops.      *)
THEOREM Refinement == Spec => ImplementsAtomicDocument
<1>1. Spec => []Behind
  <2>1. IInv /\ IInv' /\ Behind /\ [Next]_vars => Behind'
    BY BehindKeeps
  <2> QED
    BY <2>1, InitBehind, Inductive, PTL DEF Spec
<1>2. IInv /\ IInv' /\ Behind /\ [Next]_vars => [Promise!Next]_PVars
  BY NextRefines
<1> QED
  BY <1>1, <1>2, InitRefines, Inductive, PTL DEF Spec, ImplementsAtomicDocument, Promise!Spec, PVars

-----------------------------------------------------------------------------
(* Damage from before the first update.                                    *)

(* A strict store that is damaged stays as it is, and nobody gets beyond   *)
(* loading it.                                                             *)
Refused ==
    store \in {"state", "health"} /\ ~Parses(First) =>
        /\ current = First /\ onDisk = First
        /\ \A p \in Invocations : pc[p] \in {"start", "lock", "load", "done", "failed", "killed"}

(* Until a save of the policy has replaced the damaged document or failed  *)
(* on the way, the backup is whole, and on the disk.                       *)
BackupStands ==
    /\ store = "policy" /\ ~halfSaved /\ current = First /\ ~Parses(First)
    /\ \A p \in Invocations : ~InSave(p)
    => backup = Bak /\ Parses(Bak) /\ Bak \in flushed

DamageInv == Refused /\ BackupStands

(* No step of a transactional store touches the file of the first document.*)
LEMMA FirstStays ==
    ASSUME IInv, store \in Transactional, [Next]_vars
    PROVE  store' = store /\ data'[First] = data[First] /\ Parses(First)' = Parses(First)
<1>1. store' = store
  BY DEF Next, vars, files, Step, Begin, Lock, Load, Refuse, OpenTemp, Write,
     Sync, OpenBackup, FillBackup, Rename, SyncDir, Reclaim, Return, Misread, Fail, Kill, Stop,
     Finished
<1>2. First \in Inodes
  BY DEF Inodes
<1>3. data'[First] = data[First]
  <2>1. ASSUME NEW p \in Invocations, Quiet(p) PROVE data'[First] = data[First]
    BY <1>2, <2>1, QuietSteps
  <2>2. ASSUME NEW p \in Invocations, Rename(p) \/ Return(p) PROVE data'[First] = data[First]
    BY <2>2 DEF Rename, Return, files
  <2>3. CASE Stop
    BY <1>2, <2>3, StopFindsDocuments
  <2>4. CASE Finished \/ UNCHANGED vars
    BY <2>4 DEF Finished, vars, files
  <2> QED
    BY <2>1, <2>2, <2>3, <2>4 DEF Next, Step, Quiet
<1> QED
  BY <1>1, <1>3 DEF Parses

LEMMA RefusedKeeps ==
    ASSUME IInv, Refused, [Next]_vars
    PROVE  Refused'
<1> DEFINE outside == {"start", "lock", "load", "done", "failed", "killed"}
<1> SUFFICES ASSUME store' \in {"state", "health"}, ~Parses(First)'
             PROVE  current' = First /\ onDisk' = First /\ \A p \in Invocations : pc'[p] \in outside
  BY DEF Refused
<1>1. store' = store
  BY DEF Next, vars, files, Step, Begin, Lock, Load, Refuse, OpenTemp, Write,
     Sync, OpenBackup, FillBackup, Rename, SyncDir, Reclaim, Return, Misread, Fail, Kill, Stop,
     Finished
<1>2. store \in {"state", "health"} /\ store \in Transactional /\ ~Parses(First)
  BY <1>1, FirstStays DEF Transactional
<1>3. current = First /\ onDisk = First /\ \A p \in Invocations : pc[p] \in outside
  BY <1>2 DEF Refused
<1>4. Loaded.form # "whole"
  BY <1>2, <1>3, NamesAssumption DEF Loaded, HealthLoad, StateLoad, Parses
<1>5. ASSUME NEW p \in Invocations, Begin(p) \/ Step(p) \/ Misread(p) \/ Fail(p) \/ Kill(p)
      PROVE  /\ current' = current /\ onDisk' = onDisk
             /\ \E next \in outside : pc' = [pc EXCEPT ![p] = next]
  <2>0. pc[p] \in outside
    BY <1>3
  <2>1. CASE Begin(p)
    <3>1. NextOf(p) = "lock"
      BY <1>2, <2>1, TransactionalPlan DEF Begin
    <3> QED
      BY <2>1, <3>1 DEF Begin, Advance, Goto, NextOf, files
  <2>2. CASE Lock(p)
    <3>1. NextOf(p) = "load"
      BY <1>2, <2>2, TransactionalPlan DEF Lock, IInv, OnPlan
    <3> QED
      BY <2>2, <3>1 DEF Lock, Advance, Goto, NextOf, files
  <2>3. CASE Refuse(p) \/ Fail(p) \/ Kill(p)
    BY <2>3 DEF Refuse, Fail, Kill, Goto, files
  <2>4. CASE Load(p)
    BY <1>4, <2>4 DEF Load
  <2>5. CASE \/ OpenTemp(p) \/ Write(p) \/ Sync(p) \/ OpenBackup(p) \/ FillBackup(p) \/ Rename(p)
             \/ SyncDir(p) \/ Reclaim(p) \/ Return(p)
    BY <2>0, <2>5 DEF OpenTemp, Write, Sync, OpenBackup, FillBackup, Rename, SyncDir, Reclaim, Return
  <2>6. CASE Misread(p)
    BY <1>2, <2>6 DEF Misread
  <2> QED
    BY <1>5, <2>1, <2>2, <2>3, <2>4, <2>5, <2>6 DEF Step
<1>6. pc \in [Invocations -> Steps]
  BY DEF IInv, TypeOK, Steps
<1>7. CASE Stop
  BY <1>3, <1>6, <1>7 DEF Stop, Running, WorkSteps
<1>8. CASE Finished \/ UNCHANGED vars
  BY <1>3, <1>8 DEF Finished, vars, files
<1> QED
  BY <1>3, <1>5, <1>6, <1>7, <1>8 DEF Next

LEMMA BackupStandsKeeps ==
    ASSUME IInv, BackupStands, [Next]_vars
    PROVE  BackupStands'
<1> SUFFICES ASSUME store' = "policy", ~halfSaved', current' = First, ~Parses(First)',
                    \A p \in Invocations : ~InSave(p)'
             PROVE  backup' = Bak /\ data'[Bak].form = "whole" /\ Bak \in flushed'
  BY DEF BackupStands, Parses
<1>1. store = "policy" /\ store \in Transactional /\ ~Parses(First)
  <2>1. store' = store
    BY DEF Next, vars, files, Step, Begin, Lock, Load, Refuse, OpenTemp, Write,
       Sync, OpenBackup, FillBackup, Rename, SyncDir, Reclaim, Return, Misread, Fail, Kill, Stop,
     Finished
  <2> QED
    BY <2>1, FirstStays DEF Transactional
<1>2. Bak \in Inodes /\ First # NoFile
  BY NamesAssumption DEF Inodes
<1>3. pc \in [Invocations -> Steps] /\ data \in [Inodes -> Document]
  BY DEF IInv, TypeOK, Steps
<1>4. SUFFICES /\ ~halfSaved /\ current = First /\ \A p \in Invocations : ~InSave(p)
               /\ backup' = backup /\ data'[Bak] = data[Bak]
               /\ Bak \in flushed => Bak \in flushed'
  BY <1>1 DEF BackupStands, Parses
<1>5. ASSUME NEW p \in Invocations,
             pc' = [pc EXCEPT ![p] = NextOf(p)] \/ pc' = [pc EXCEPT ![p] = "failed"]
               \/ pc' = [pc EXCEPT ![p] = "killed"] \/ pc' = [pc EXCEPT ![p] = "done"],
             pc[p] \notin {"fill", "rename"}
      PROVE  \A q \in Invocations : ~InSave(q)
  BY <1>3, <1>5 DEF InSave
<1>6. ASSUME NEW p \in Invocations, Begin(p) \/ Step(p) \/ Misread(p) \/ Fail(p) \/ Kill(p)
      PROVE  /\ ~halfSaved /\ current = First /\ \A q \in Invocations : ~InSave(q)
             /\ backup' = backup /\ data'[Bak] = data[Bak]
             /\ Bak \in flushed => Bak \in flushed'
  <2>1. CASE Begin(p) \/ Lock(p) \/ Load(p) \/ Sync(p) \/ SyncDir(p) \/ Reclaim(p)
    BY <1>5, <2>1 DEF Begin, Lock, Load, Sync, SyncDir, Reclaim, Advance, Goto, NextOf, files, history
  <2>2. CASE Refuse(p) \/ Return(p)
    BY <1>5, <2>2 DEF Refuse, Return, Goto, files, history
  <2>3. CASE OpenTemp(p) \/ Write(p)
    <3>1. \A q \in Invocations : ~InSave(q)
      BY <1>5, <2>3 DEF OpenTemp, Write, Advance, Goto, NextOf
    <3>2. data'[Bak] = data[Bak] /\ (Bak \in flushed => Bak \in flushed')
      BY <1>1, <1>2, <1>3, <2>3, WriterIsApart DEF OpenTemp, Write, TempSteps
    <3> QED
      BY <2>3, <3>1, <3>2 DEF OpenTemp, Write, history
  <2>4. CASE OpenBackup(p)
    <3>1. current = First
      BY <2>4 DEF OpenBackup
    <3>2. NextOf(p) = "fill"
      BY <1>1, <2>4, TransactionalPlan DEF OpenBackup, IInv, OnPlan
    <3>3. pc'[p] = "fill"
      BY <1>2, <1>3, <2>4, <3>1, <3>2 DEF OpenBackup, Advance, Goto, NextOf
    <3> QED
      BY <3>3 DEF InSave
  <2>5. CASE FillBackup(p)
    <3>1. NextOf(p) = "rename"
      BY <1>1, <2>5, TransactionalPlan DEF FillBackup, IInv, OnPlan
    <3>2. pc'[p] = "rename"
      BY <1>3, <2>5, <3>1 DEF FillBackup, Advance, Goto, NextOf
    <3> QED
      BY <3>2 DEF InSave
  <2>6. CASE Rename(p)
    <3>1. handle[p] = temps[TempOf(p)] /\ handle[p] \notin {First, NoFile}
      BY <1>1, <2>6, WriterIsApart DEF Rename, TempSteps, IInv, SweepSparesLiveWriters
    <3> QED
      BY <2>6, <3>1 DEF Rename
  <2>7. CASE Fail(p) \/ Kill(p)
    <3>1. ~InSave(p) /\ ~halfSaved
      BY <2>7 DEF Fail, Kill
    <3>2. \A q \in Invocations : ~InSave(q)
      BY <1>5, <2>7, <3>1 DEF Fail, Kill, Goto, InSave
    <3> QED
      BY <2>7, <3>1, <3>2 DEF Fail, Kill, files
  <2>8. CASE Misread(p)
    BY <1>1, <2>8 DEF Misread
  <2> QED
    BY <1>6, <2>1, <2>2, <2>3, <2>4, <2>5, <2>6, <2>7, <2>8 DEF Step
<1>7. CASE Stop
  <2>1. current' = current /\ ~halfSaved /\ \A p \in Invocations : ~InSave(p)
    BY <1>7 DEF Stop
  <2>2. backup' = backup /\ flushed' = Inodes /\ (Bak \in flushed => data'[Bak] = data[Bak])
    BY <1>2, <1>7 DEF Stop
  <2>3. Bak \in flushed
    BY <1>1, <2>1 DEF BackupStands
  <2> QED
    BY <1>2, <2>1, <2>2, <2>3
<1>8. CASE Finished \/ UNCHANGED vars
  BY <1>8 DEF Finished, vars, files, history, InSave
<1> QED
  BY <1>6, <1>7, <1>8 DEF Next

LEMMA DamageStart == Init => DamageInv
<1> SUFFICES ASSUME Init PROVE DamageInv
  OBVIOUS
<1>1. First \in Inodes /\ Bak \in Inodes /\ First # Bak
  BY NamesAssumption DEF Inodes
<1>2. current = NoFile => Parses(First)
  BY <1>1, WholeIsDocument, NamesAssumption DEF Init, Parses
<1>3. Parses(Bak)
  BY <1>1, WholeIsDocument DEF Init, Parses
<1>4. Refused
  BY <1>2 DEF Init, Refused
<1>5. BackupStands
  BY <1>1, <1>2, <1>3, NamesAssumption DEF Init, BackupStands
<1> QED
  BY <1>4, <1>5 DEF DamageInv

(* A damaged document is not passed on: the policy stays readable unless a *)
(* save was cut after it began to overwrite the backup, and the session    *)
(* and health state are never written over.                                *)
THEOREM DamageContained == Spec => DamageIsContained
<1>1. Spec => []DamageInv
  <2>1. IInv /\ DamageInv /\ [Next]_vars => DamageInv'
    BY RefusedKeeps, BackupStandsKeeps DEF DamageInv
  <2> QED
    BY <2>1, DamageStart, Inductive, PTL DEF Spec
<1>2. IInv /\ DamageInv =>
        (store = "policy" /\ current # NoFile =>
            \/ Parses(current)
            \/ backup # NoFile /\ Parses(backup)
            \/ halfSaved
            \/ \E p \in Invocations : InSave(p))
  <2> SUFFICES ASSUME IInv, DamageInv, store = "policy", current # NoFile, ~Parses(current), ~halfSaved,
                      \A p \in Invocations : ~InSave(p)
               PROVE  backup # NoFile /\ Parses(backup)
    OBVIOUS
  <2>1. current = First
    BY DEF IInv, Kept, Sound, Durable, Transactional
  <2> QED
    BY <2>1, NamesAssumption, NoFileIsNoInode DEF DamageInv, BackupStands, Inodes
<1>3. IInv /\ DamageInv /\ DamageInv' /\ [Next]_vars =>
        [current # NoFile /\ ~Parses(current) /\ store \in {"state", "health"} =>
            current' = current /\ data'[current] = data[current]]_vars
  <2> SUFFICES ASSUME IInv, DamageInv, DamageInv', [Next]_vars,
                      current # NoFile, ~Parses(current), store \in {"state", "health"}
               PROVE  current' = current /\ data'[current] = data[current]
    OBVIOUS
  <2>1. current = First
    BY DEF IInv, Kept, Sound, Durable, Transactional
  <2>2. store' = store /\ data'[First] = data[First] /\ ~Parses(First)'
    BY <2>1, FirstStays DEF Transactional
  <2>3. current' = First
    BY <2>2 DEF DamageInv, Refused
  <2> QED
    BY <2>1, <2>2, <2>3
<1> QED
  BY <1>1, <1>2, <1>3, Inductive, PTL DEF Spec, DamageIsContained

-----------------------------------------------------------------------------
(* The two other stores, as long as nothing has happened that may cost     *)
(* them a document: telemetry until the machine stops, the trust pointer   *)
(* also until two writers meet.                                            *)
Calm == ~stopped /\ (store = "telemetry" \/ (store = "pointer" /\ ~raced))

(* Before two invocations meet there is one at most.                       *)
OneRuns == ~raced => \A p, q \in Invocations : Running(p) /\ Running(q) => p = q

(* As Apart: a temporary file is nobody's document, and has one name.      *)
CalmNames ==
    /\ \A n \in TempNames : temps[n] # NoFile => temps[n] \notin {First, current}
    /\ \A m, n \in TempNames : temps[m] # NoFile /\ temps[m] = temps[n] => m = n
    /\ \A p \in Invocations : pc[p] \in Unopened =>
          p # current /\ \A n \in TempNames : temps[n] # p

(* What the file of a writer holds, and what was renamed into place.       *)
CalmContents ==
    /\ \A p \in Invocations :
          /\ pc[p] \in {"write", "rename"} => temps[TempOf(p)] = handle[p]
          /\ pc[p] = "write" => data[handle[p]] = Empty
          /\ pc[p] = "rename" => data[handle[p]] = Whole(doc[p])
    /\ data[First] \in {Whole({}), Mixed}
    /\ current \notin {NoFile, First} => Parses(current)

(* All that was counted, or the trace of somebody who could not read it.   *)
Counted(us) == acked \subseteq us \/ us \cap misread # {}

(* While invocations follow one another, what one has read and is about to *)
(* write holds all that was counted before.                                *)
CalmCounts ==
    store = "telemetry" /\ ~raced =>
        /\ acked # {} => current # NoFile /\ Counted(data[current].updates)
        /\ \A p \in Invocations :
              /\ pc[p] \in {"lock", "open", "write", "rename"} => p \in doc[p] /\ Counted(doc[p])
              /\ pc[p] \in {"reclaim", "return"} => current # NoFile /\ p \in data[current].updates

CalmInv == OneRuns /\ (Calm => CalmNames /\ CalmContents /\ CalmCounts)


LEMMA CalmStart == Init => CalmInv
<1> SUFFICES ASSUME Init PROVE CalmInv
  OBVIOUS
<1>1. OneRuns
  BY DEF Init, OneRuns, Running, WorkSteps
<1>2. CalmNames
  BY NamesAssumption DEF Init, CalmNames, Inodes
<1>3. CalmContents
  <2>1. data[First] \in {Whole({}), Mixed}
    BY DEF Init, Inodes
  <2> QED
    BY <2>1 DEF Init, CalmContents
<1>4. CalmCounts
  BY DEF Init, CalmCounts
<1> QED
  BY <1>1, <1>2, <1>3, <1>4 DEF CalmInv

LEMMA OneRunsKeeps ==
    ASSUME IInv, OneRuns, [Next]_vars
    PROVE  OneRuns'
<1> SUFFICES ASSUME ~raced', NEW p \in Invocations, NEW q \in Invocations, Running(p)', Running(q)'
             PROVE  p = q
  BY DEF OneRuns
<1>1. pc \in [Invocations -> Steps]
  BY DEF IInv, TypeOK, Steps
<1>2. ASSUME NEW r \in Invocations, Begin(r)
      PROVE  p = q
  <2>1. \A s \in Invocations : ~Running(s)
    BY <1>2 DEF Begin
  <2>2. \A s \in Invocations \ {r} : pc'[s] = pc[s]
    BY <1>1, <1>2 DEF Begin, Advance, Goto
  <2> QED
    BY <2>1, <2>2 DEF Running
<1>3. ASSUME NEW r \in Invocations, Step(r) \/ Misread(r) \/ Fail(r) \/ Kill(r)
      PROVE  p = q
  <2>1. Running(r)
    BY <1>3 DEF Step, Lock, Load, Refuse, OpenTemp, Write, Sync, OpenBackup, FillBackup, Rename,
                SyncDir, Reclaim, Return, Misread, Fail, Kill, Running, WorkSteps
  <2>2. raced' = raced
    BY <1>3 DEF Step, Lock, Load, Refuse, OpenTemp, Write, Sync, OpenBackup, FillBackup, Rename,
                SyncDir, Reclaim, Return, Misread, Fail, Kill, history
  <2>3. \A s \in Invocations \ {r} : pc'[s] = pc[s]
    BY <1>1, <1>3 DEF Step, Lock, Load, Refuse, OpenTemp, Write, Sync, OpenBackup, FillBackup, Rename,
                SyncDir, Reclaim, Return, Misread, Fail, Kill, Advance, Goto
  <2> QED
    BY <2>1, <2>2, <2>3 DEF OneRuns, Running
<1>4. CASE Stop
  <2>1. ~Running(p)'
    BY <1>1, <1>4 DEF Stop, Running, WorkSteps
  <2> QED
    BY <2>1
<1>5. CASE Finished \/ UNCHANGED vars
  BY <1>5 DEF Finished, vars, history, OneRuns, Running
<1> QED
  BY <1>2, <1>3, <1>4, <1>5 DEF Next

(* A step of a calm store finds it calm.                                   *)
LEMMA CalmBefore ==
    ASSUME IInv, [Next]_vars, Calm'
    PROVE  /\ Calm /\ store' = store /\ store \in {"telemetry", "pointer"}
           /\ ~raced' => ~raced
<1>1. ASSUME NEW p \in Invocations, Begin(p)
      PROVE  store' = store /\ stopped' = stopped /\ (~raced' => ~raced)
  BY <1>1 DEF Begin
<1>2. ASSUME NEW p \in Invocations, Step(p) \/ Misread(p) \/ Fail(p) \/ Kill(p)
      PROVE  store' = store /\ stopped' = stopped /\ raced' = raced
  BY <1>2 DEF Step, Lock, Load, Refuse, OpenTemp, Write, Sync, OpenBackup, FillBackup, Rename,
              SyncDir, Reclaim, Return, Misread, Fail, Kill, history
<1>3. CASE Stop
  BY <1>3 DEF Stop, Calm
<1>4. CASE Finished \/ UNCHANGED vars
  BY <1>4 DEF Finished, vars, history, Calm
<1> QED
  BY <1>1, <1>2, <1>3, <1>4 DEF Next, Calm

(* One writer at a time is at its file.                                    *)
FileSteps == {"open", "write", "rename", "reclaim", "return"}
LEMMA Sole ==
    ASSUME IInv, OneRuns, Calm, NEW p \in Invocations, pc[p] \in FileSteps,
           NEW q \in Invocations, q # p
    PROVE  pc[q] \notin FileSteps
<1>1. CASE store = "telemetry"
  BY <1>1 DEF IInv, Exclusive, HoldSteps, FileSteps, WorkSteps, Transactional
<1>2. CASE store = "pointer"
  BY <1>2 DEF Calm, OneRuns, Running, FileSteps, WorkSteps
<1> QED
  BY <1>1, <1>2 DEF Calm

(* Where the steps of the two stores lead.                                 *)
LEMMA CalmPlan ==
    ASSUME IInv, store \in {"telemetry", "pointer"}, NEW p \in Invocations
    PROVE  /\ pc[p] \in {"start", "load", "lock", "done", "failed", "killed"} \cup FileSteps
           /\ pc[p] = "open" => NextOf(p) = "write"
           /\ pc[p] = "write" => NextOf(p) = "rename"
           /\ pc[p] = "rename" => NextOf(p) \in {"reclaim", "return"}
           /\ pc[p] = "reclaim" => NextOf(p) = "return"
           /\ pc[p] = "start" => NextOf(p) \in {"load", "open"}
           /\ store = "telemetry" =>
                 /\ pc[p] = "start" => NextOf(p) = "load"
                 /\ pc[p] = "load" => NextOf(p) = "lock"
                 /\ pc[p] = "lock" => NextOf(p) = "open"
           /\ store = "pointer" => pc[p] \notin {"load", "lock"}
<1>1. pc[p] \in StepsOf(store) \cup {"start", "done", "failed", "killed"}
  BY DEF IInv, OnPlan
<1>2. /\ pc[p] \in {"start", "load", "lock", "done", "failed", "killed"} \cup FileSteps
      /\ store = "pointer" => pc[p] \notin {"load", "lock"}
  BY <1>1 DEF StepsOf, FileSteps
<1>3. pc[p] \in {"start", "load", "lock", "open", "write", "rename", "reclaim"} =>
        pc[p] \in StepsOf(store) \cup {"start"} /\ pc[p] # "return"
  BY <1>1 DEF StepsOf
<1> QED
  BY <1>2, <1>3, OtherPlan

(* What every proof about a step of a calm store starts from.              *)
CalmStep == IInv /\ CalmInv /\ [Next]_vars /\ Calm'
CalmAfter == (CalmNames /\ CalmContents /\ CalmCounts)'

LEMMA CalmFacts ==
    ASSUME CalmStep
    PROVE  /\ CalmNames /\ CalmContents /\ CalmCounts /\ OneRuns /\ Calm
           /\ store' = store /\ store \in {"telemetry", "pointer"}
           /\ ~raced' => ~raced
           /\ pc \in [Invocations -> Steps]
BY CalmBefore DEF CalmStep, CalmInv, IInv, TypeOK, Steps

LEMMA CalmTempOf ==
    ASSUME store \in {"telemetry", "pointer"}, NEW p \in Invocations
    PROVE  TempOf(p) \in TempNames /\ (store' = store => TempOf(p)' = TempOf(p))
BY NamesAssumption DEF TempOf, TempNames

(* Steps that leave the files alone.                                       *)
LEMMA CalmControl ==
    ASSUME CalmStep, NEW p \in Invocations,
           \/ Begin(p) \/ Lock(p) \/ Load(p) \/ Misread(p) \/ Refuse(p)
           \/ Return(p) \/ Fail(p) \/ Kill(p)
    PROVE  CalmAfter
<1> USE CalmFacts
<1>1. /\ current' = current /\ temps' = temps /\ data' = data /\ handle' = handle
      /\ \E next \in Steps : /\ pc' = [pc EXCEPT ![p] = next]
                             /\ next \in Unopened => pc[p] \in Unopened
                             /\ next \notin {"write", "rename", "reclaim", "return"}
  <2>1. CASE Begin(p)
    <3>1. NextOf(p) \in {"load", "open"}
      BY <2>1, CalmPlan DEF Begin, CalmStep
    <3> QED
      BY <2>1, <3>1 DEF Begin, Advance, Goto, NextOf, files, Steps, WorkSteps, Unopened
  <2>2. CASE Lock(p) \/ Load(p) \/ Misread(p)
    <3>1. NextOf(p) \in {"lock", "open"}
      BY <2>2, CalmPlan DEF Lock, Load, Misread, CalmStep
    <3> QED
      BY <2>2, <3>1 DEF Lock, Load, Misread, Advance, Goto, NextOf, files, Steps, WorkSteps, Unopened
  <2>3. CASE Refuse(p) \/ Return(p) \/ Kill(p)
    BY <2>3 DEF Refuse, Return, Kill, Goto, files, Steps, Unopened
  <2>4. CASE Fail(p)
    <3>1. store # "policy"
      OBVIOUS
    <3>2. temps' = temps /\ current' = current /\ data' = data /\ handle' = handle
      BY <2>4, <3>1 DEF Fail
    <3>3. pc' = [pc EXCEPT ![p] = "failed"]
      BY <2>4 DEF Fail, Goto
    <3>4. /\ "failed" \in Steps
          /\ "failed" \in Unopened => pc[p] \in Unopened
          /\ "failed" \notin {"write", "rename", "reclaim", "return"}
      BY DEF Steps, Unopened
    <3> HIDE CalmFacts
    <3> QED
      BY <3>2, <3>3, <3>4
  <2> QED
    BY <2>1, <2>2, <2>3, <2>4
<1>2. PICK next \in Steps : /\ pc' = [pc EXCEPT ![p] = next]
                            /\ next \in Unopened => pc[p] \in Unopened
                            /\ next \notin {"write", "rename", "reclaim", "return"}
  BY <1>1
<1>3. CalmNames'
  BY <1>1, <1>2 DEF CalmNames
<1>4. CalmContents'
  <2>1. ASSUME NEW q \in Invocations, pc'[q] \in {"write", "rename"}
        PROVE  q # p /\ pc[q] = pc'[q] /\ TempOf(q)' = TempOf(q) /\ doc'[q] = doc[q]
    <3>1. q # p /\ pc[q] = pc'[q]
      BY <1>2, <2>1
    <3>2. doc'[q] = doc[q]
      BY <3>1 DEF Begin, Lock, Load, Misread, Refuse, Return, Fail, Kill, CalmStep, IInv, TypeOK
    <3> QED
      BY <3>1, <3>2, CalmTempOf
  <2>2. \A q \in Invocations : pc'[q] \in {"write", "rename"} => temps'[TempOf(q)'] = handle'[q]
    BY <1>1, <2>1 DEF CalmContents
  <2>3. \A q \in Invocations : /\ pc'[q] = "write" => data'[handle'[q]] = Empty
                               /\ pc'[q] = "rename" => data'[handle'[q]] = Whole(doc'[q])
    BY <1>1, <2>1 DEF CalmContents
  <2>4. data'[First] \in {Whole({}), Mixed} /\ (current' \notin {NoFile, First} => Parses(current)')
    BY <1>1 DEF CalmContents, Parses
  <2> QED
    BY <2>2, <2>3, <2>4 DEF CalmContents
<1>5. CalmCounts'
  <2> DEFINE Now(us) == acked' \subseteq us \/ us \cap misread' # {}
  <2> SUFFICES ASSUME store = "telemetry", ~raced'
               PROVE  /\ acked' # {} => current' # NoFile /\ Now(data'[current'].updates)
                      /\ \A q \in Invocations :
                           /\ pc'[q] \in {"lock", "open", "write", "rename"} => q \in doc'[q] /\ Now(doc'[q])
                           /\ pc'[q] \in {"reclaim", "return"} =>
                                current' # NoFile /\ q \in data'[current'].updates
    BY DEF CalmCounts, Counted
  <2>0. ~raced /\ misread \subseteq misread'
    BY DEF CalmStep, Begin, Lock, Load, Misread, Refuse, Return, Fail, Kill, history
  <2>1. acked' # {} => current' # NoFile /\ Now(data'[current'].updates)
    <3>1. CASE Return(p)
      <4>1. acked' = acked \cup {p} /\ current # NoFile /\ p \in data[current].updates
        BY <2>0, <3>1 DEF Return, CalmCounts
      <4>2. acked = {} \/ acked \subseteq data[current].updates \/ data[current].updates \cap misread # {}
        BY <2>0 DEF CalmCounts, Counted
      <4> QED
        BY <1>1, <2>0, <4>1, <4>2
    <3>2. CASE ~Return(p)
      <4>1. acked' = acked
        BY <3>2 DEF Begin, Lock, Load, Misread, Refuse, Fail, Kill
      <4> QED
        BY <1>1, <2>0, <4>1 DEF CalmCounts, Counted
    <3> QED
      BY <3>1, <3>2
  <2>2. ASSUME NEW q \in Invocations, pc'[q] \in {"lock", "open", "write", "rename"}
        PROVE  q \in doc'[q] /\ Now(doc'[q])
    <3> DEFINE Same == /\ doc' = doc /\ acked' = acked
                       /\ pc[q] \in {"lock", "open", "write", "rename"}
    <3>0. ASSUME Same PROVE q \in doc'[q] /\ Now(doc'[q])
      BY <2>0, <3>0 DEF CalmCounts, Counted
    <3>1. CASE Load(p) \/ Misread(p)
      <4>1. acked' = acked /\ pc[p] = "load"
        BY <3>1 DEF Load, Misread
      <4>2. acked \subseteq Loaded.updates \/ Loaded.updates \cap misread # {}
        <5>1. CASE current # NoFile /\ Parses(current)
          BY <2>0, <5>1 DEF CalmCounts, Counted, Loaded, TelemetryLoad
        <5>2. CASE current = NoFile
          BY <2>0, <5>2 DEF CalmCounts
        <5>3. CASE current # NoFile /\ ~Parses(current)
          <6>1. current = First /\ data[First] = Mixed
            BY <5>3, WholeIsDocument DEF CalmContents, Parses
          <6>2. data[First].updates = {}
            BY <6>1 DEF Mixed
          <6> QED
            BY <2>0, <6>1, <6>2 DEF CalmCounts, Counted
        <5> QED
          BY <5>1, <5>2, <5>3
      <4>3. doc \in [Invocations -> SUBSET Invocations]
        BY DEF CalmStep, IInv, TypeOK
      <4>4. q # p => ~Running(q)
        BY <2>0, <4>1 DEF OneRuns, Running, WorkSteps
      <4>5. q = p
        BY <1>2, <2>2, <4>4 DEF Running, WorkSteps
      <4>6. CASE Load(p)
        <5>1. doc'[p] = Loaded.updates \cup {p}
          BY <4>3, <4>6 DEF Load
        <5> QED
          BY <2>0, <4>1, <4>2, <4>5, <5>1
      <4>7. CASE Misread(p)
        <5>1. doc'[p] = {p} /\ p \in misread'
          BY <4>3, <4>7 DEF Misread
        <5> QED
          BY <4>5, <5>1
      <4> QED
        BY <3>1, <4>6, <4>7
    <3>2. CASE Lock(p)
      <4>1. Same
        BY <1>2, <2>2, <3>2 DEF Lock
      <4> QED
        BY <3>0, <4>1
    <3>3. CASE Return(p)
      <4>1. q # p => ~Running(q)
        BY <2>0, <3>3 DEF OneRuns, Running, WorkSteps, Return
      <4>2. q # p
        BY <2>2, <3>3 DEF Return, Goto
      <4> QED
        BY <1>2, <2>2, <4>1, <4>2 DEF Running, WorkSteps
    <3>4. CASE Begin(p)
      <4>1. NextOf(p) = "load"
        BY <3>4, CalmPlan DEF Begin, CalmStep
      <4>2. Same
        BY <2>2, <3>4, <4>1 DEF Begin, Advance, Goto, NextOf
      <4> QED
        BY <3>0, <4>2
    <3>5. CASE Refuse(p) \/ Fail(p) \/ Kill(p)
      <4>1. Same
        BY <2>2, <3>5 DEF Refuse, Fail, Kill, Goto
      <4> QED
        BY <3>0, <4>1
    <3> HIDE DEF Same
    <3> QED
      BY <3>1, <3>2, <3>3, <3>4, <3>5
  <2>3. ASSUME NEW q \in Invocations, pc'[q] \in {"reclaim", "return"}
        PROVE  current' # NoFile /\ q \in data'[current'].updates
    BY <1>1, <1>2, <2>0, <2>3 DEF CalmCounts
  <2> QED
    BY <2>1, <2>2, <2>3
<1> QED
  BY <1>3, <1>4, <1>5 DEF CalmAfter

LEMMA CalmOpenTemp ==
    ASSUME CalmStep, NEW p \in Invocations, OpenTemp(p)
    PROVE  CalmAfter
<1> DEFINE file == TempFile(p)
           name == TempOf(p)
<1>1. /\ CalmNames /\ CalmContents /\ CalmCounts /\ OneRuns /\ Calm /\ store' = store
      /\ store \in {"telemetry", "pointer"} /\ (~raced' => ~raced) /\ pc \in [Invocations -> Steps]
  BY CalmFacts
<1>2. name \in TempNames /\ \A q \in Invocations : TempOf(q)' = TempOf(q)
  BY <1>1, CalmTempOf
<1>3. pc[p] = "open" /\ pc' = [pc EXCEPT ![p] = "write"]
  <2>1. NextOf(p) = "write"
    BY <1>1, CalmPlan DEF OpenTemp, CalmStep
  <2> QED
    BY <2>1 DEF OpenTemp, Advance, Goto, NextOf
<1>4. \A q \in Invocations : q # p => pc'[q] = pc[q] /\ pc'[q] \notin FileSteps
  BY <1>1, <1>3, Sole DEF CalmStep, FileSteps
<1>5. /\ temps \in [TempNames -> Inodes \cup {NoFile}] /\ data \in [Inodes -> Document]
      /\ handle \in [Invocations -> Inodes] /\ file \in Inodes
  BY <1>2 DEF CalmStep, IInv, TypeOK, TempFile, Inodes
<1>6. /\ handle' = [handle EXCEPT ![p] = file] /\ temps' = [temps EXCEPT ![name] = file]
      /\ data' = [data EXCEPT ![file] = Empty]
      /\ current' = current /\ doc' = doc /\ acked' = acked /\ misread' = misread
  BY DEF OpenTemp, history
<1>7. /\ file \notin {First, current} /\ \A n \in TempNames : n # name => temps[n] # file
      /\ \A q \in Invocations : q # p /\ pc[q] \in Unopened => file # q
  <2>1. CASE temps[name] = NoFile
    <3>1. file = p /\ pc[p] \in Unopened
      BY <1>3, <2>1 DEF TempFile, Unopened
    <3>2. p # First
      BY NamesAssumption
    <3> QED
      BY <1>1, <3>1, <3>2 DEF CalmNames
  <2>2. CASE temps[name] # NoFile
    <3>1. file = temps[name]
      BY <2>2 DEF TempFile
    <3> QED
      BY <1>1, <1>2, <2>2, <3>1 DEF CalmNames
  <2> QED
    BY <2>1, <2>2
<1> HIDE DEF file, name
<1>8. CalmNames'
  <2>1. \A n \in TempNames : temps'[n] = IF n = name THEN file ELSE temps[n]
    BY <1>2, <1>5, <1>6
  <2>2. \A n \in TempNames : temps'[n] # NoFile => temps'[n] \notin {First, current'}
    BY <1>1, <1>6, <1>7, <2>1 DEF CalmNames
  <2>3. \A m, n \in TempNames : temps'[m] # NoFile /\ temps'[m] = temps'[n] => m = n
    BY <1>1, <1>7, <2>1 DEF CalmNames
  <2>4. ASSUME NEW q \in Invocations, pc'[q] \in Unopened
        PROVE  q # current' /\ \A n \in TempNames : temps'[n] # q
    <3>1. q # p /\ pc[q] \in Unopened
      BY <1>1, <1>3, <2>4 DEF Unopened
    <3> QED
      BY <1>1, <1>6, <1>7, <2>1, <3>1 DEF CalmNames
  <2> QED
    BY <2>2, <2>3, <2>4 DEF CalmNames
<1>9. CalmContents'
  <2>1. handle'[p] = file /\ temps'[name] = file /\ data'[file] = Empty
    BY <1>2, <1>5, <1>6
  <2>2. data'[First] = data[First] /\ (current' \in Inodes => data'[current'] = data[current])
    BY <1>5, <1>6, <1>7 DEF Inodes
  <2>3. current \in Inodes \cup {NoFile}
    BY DEF CalmStep, IInv, TypeOK
  <2>4. ASSUME NEW q \in Invocations, pc'[q] \in {"write", "rename"} PROVE q = p /\ pc'[q] = "write"
    BY <1>1, <1>3, <1>4, <2>4 DEF FileSteps
  <2>5. TempOf(p)' = name
    BY <1>2 DEF name
  <2>6. data'[First] \in {Whole({}), Mixed} /\ (current' \notin {NoFile, First} => Parses(current)')
    BY <1>1, <1>6, <2>2, <2>3 DEF CalmContents, Parses
  <2> QED
    BY <2>1, <2>4, <2>5, <2>6 DEF CalmContents
<1>10. CalmCounts'
  <2> SUFFICES ASSUME store = "telemetry", ~raced PROVE CalmCounts'
    BY <1>1 DEF CalmCounts
  <2>1. current \in Inodes \cup {NoFile}
    BY DEF CalmStep, IInv, TypeOK
  <2>2. current # NoFile => data'[current'] = data[current]
    BY <1>5, <1>6, <1>7, <2>1
  <2>3. acked' # {} => current' # NoFile /\ Counted(data[current].updates)'
    BY <1>1, <1>6, <2>2 DEF CalmCounts, Counted
  <2>4. ASSUME NEW q \in Invocations
        PROVE  /\ pc'[q] \in {"lock", "open", "write", "rename"} => (q \in doc[q] /\ Counted(doc[q]))'
               /\ pc'[q] \notin {"reclaim", "return"}
    <3>1. CASE q = p
      BY <1>1, <1>3, <1>6, <3>1 DEF CalmCounts, Counted
    <3>2. CASE q # p
      BY <1>1, <1>4, <1>6, <3>2 DEF CalmCounts, Counted, FileSteps
    <3> QED
      BY <3>1, <3>2
  <2> QED
    BY <2>3, <2>4 DEF CalmCounts
<1> QED
  BY <1>8, <1>9, <1>10 DEF CalmAfter

LEMMA CalmWrite ==
    ASSUME CalmStep, NEW p \in Invocations, Write(p)
    PROVE  CalmAfter
<1>1. /\ CalmNames /\ CalmContents /\ CalmCounts /\ OneRuns /\ Calm /\ store' = store
      /\ store \in {"telemetry", "pointer"} /\ (~raced' => ~raced) /\ pc \in [Invocations -> Steps]
  BY CalmFacts
<1>2. TempOf(p) \in TempNames /\ \A q \in Invocations : TempOf(q)' = TempOf(q)
  BY <1>1, CalmTempOf
<1>3. pc[p] = "write" /\ pc' = [pc EXCEPT ![p] = "rename"]
  <2>1. NextOf(p) = "rename"
    BY <1>1, CalmPlan DEF Write, CalmStep
  <2> QED
    BY <2>1 DEF Write, Advance, Goto, NextOf
<1>4. \A q \in Invocations : q # p => pc'[q] = pc[q] /\ pc'[q] \notin FileSteps
  BY <1>1, <1>3, Sole DEF CalmStep, FileSteps
<1>5. /\ data \in [Inodes -> Document] /\ handle[p] \in Inodes /\ First \in Inodes
      /\ current \in Inodes \cup {NoFile}
  BY DEF CalmStep, IInv, TypeOK, Inodes
<1>6. /\ temps[TempOf(p)] = handle[p] /\ handle[p] \notin {First, current}
      /\ data[handle[p]] = Empty
  BY <1>1, <1>2, <1>3, <1>5, NoFileIsNoInode DEF CalmNames, CalmContents
<1>7. /\ data' = [data EXCEPT ![handle[p]] = Whole(doc[p])]
      /\ handle' = handle /\ temps' = temps /\ current' = current /\ doc' = doc
      /\ acked' = acked /\ misread' = misread
  BY <1>6 DEF Write, history
<1>8. /\ data'[handle[p]] = Whole(doc[p]) /\ data'[First] = data[First]
      /\ current # NoFile => data'[current] = data[current]
  BY <1>5, <1>6, <1>7
<1>9. CalmNames'
  BY <1>1, <1>3, <1>7 DEF CalmNames, Unopened
<1>10. CalmContents'
  <2>1. ASSUME NEW q \in Invocations, pc'[q] \in {"write", "rename"} PROVE q = p /\ pc'[q] = "rename"
    BY <1>1, <1>3, <1>4, <2>1 DEF FileSteps
  <2>2. data'[First] \in {Whole({}), Mixed} /\ (current' \notin {NoFile, First} => Parses(current)')
    BY <1>1, <1>7, <1>8 DEF CalmContents, Parses
  <2> QED
    BY <1>2, <1>6, <1>7, <1>8, <2>1, <2>2 DEF CalmContents
<1>11. CalmCounts'
  <2> SUFFICES ASSUME store = "telemetry", ~raced PROVE CalmCounts'
    BY <1>1 DEF CalmCounts
  <2>1. acked' # {} => current' # NoFile /\ Counted(data[current].updates)'
    BY <1>1, <1>7, <1>8 DEF CalmCounts, Counted
  <2>2. ASSUME NEW q \in Invocations
        PROVE  /\ pc'[q] \in {"lock", "open", "write", "rename"} => (q \in doc[q] /\ Counted(doc[q]))'
               /\ pc'[q] \notin {"reclaim", "return"}
    <3>1. CASE q = p
      BY <1>1, <1>3, <1>7, <3>1 DEF CalmCounts, Counted
    <3>2. CASE q # p
      BY <1>1, <1>4, <1>7, <3>2 DEF CalmCounts, Counted, FileSteps
    <3> QED
      BY <3>1, <3>2
  <2> QED
    BY <2>1, <2>2 DEF CalmCounts
<1> QED
  BY <1>9, <1>10, <1>11 DEF CalmAfter

LEMMA CalmRename ==
    ASSUME CalmStep, NEW p \in Invocations, Rename(p)
    PROVE  CalmAfter
<1>1. /\ CalmNames /\ CalmContents /\ CalmCounts /\ OneRuns /\ Calm /\ store' = store
      /\ store \in {"telemetry", "pointer"} /\ (~raced' => ~raced) /\ pc \in [Invocations -> Steps]
  BY CalmFacts
<1>2. TempOf(p) \in TempNames
  BY <1>1, CalmTempOf
<1>3. handle[p] \in Inodes /\ handle[p] # NoFile /\ temps \in [TempNames -> Inodes \cup {NoFile}]
  BY NoFileIsNoInode DEF CalmStep, IInv, TypeOK
<1>4. pc[p] = "rename" /\ temps[TempOf(p)] = handle[p] /\ data[handle[p]] = Whole(doc[p])
  BY <1>1 DEF Rename, CalmContents
<1>5. /\ current' = handle[p] /\ temps' = [temps EXCEPT ![TempOf(p)] = NoFile]
      /\ data' = data /\ doc' = doc /\ acked' = acked /\ misread' = misread
  BY <1>3, <1>4 DEF Rename, history
<1>6. PICK next \in {"reclaim", "return"} : pc' = [pc EXCEPT ![p] = next]
  <2>1. NextOf(p) \in {"reclaim", "return"}
    BY <1>1, <1>4, CalmPlan DEF CalmStep
  <2> QED
    BY <1>3, <1>4, <2>1 DEF Rename, Advance, Goto, NextOf
<1>7. \A q \in Invocations : q # p => pc'[q] = pc[q] /\ pc'[q] \notin FileSteps
  BY <1>1, <1>4, <1>6, Sole DEF CalmStep, FileSteps
<1>8. pc'[p] = next /\ pc'[p] \in {"reclaim", "return"}
  BY <1>1, <1>6
<1>9. CalmNames'
  <2>1. \A n \in TempNames : temps'[n] = IF n = TempOf(p) THEN NoFile ELSE temps[n]
    BY <1>2, <1>3, <1>5
  <2>2. \A n \in TempNames : temps'[n] # NoFile => temps'[n] \notin {First, current'}
    BY <1>1, <1>2, <1>3, <1>4, <1>5, <2>1 DEF CalmNames
  <2>3. \A m, n \in TempNames : temps'[m] # NoFile /\ temps'[m] = temps'[n] => m = n
    BY <1>1, <2>1 DEF CalmNames
  <2>4. ASSUME NEW q \in Invocations, pc'[q] \in Unopened
        PROVE  q # current' /\ \A n \in TempNames : temps'[n] # q
    <3>1. q # p /\ pc[q] \in Unopened
      BY <1>7, <1>8, <2>4 DEF Unopened
    <3>2. q # NoFile
      BY NamesAssumption
    <3> QED
      BY <1>1, <1>2, <1>4, <1>5, <2>1, <3>1, <3>2 DEF CalmNames
  <2> QED
    BY <2>2, <2>3, <2>4 DEF CalmNames
<1>10. CalmContents'
  <2>1. ASSUME NEW q \in Invocations PROVE pc'[q] \notin {"write", "rename"}
    BY <1>7, <1>8 DEF FileSteps
  <2>2. Parses(current)'
    BY <1>4, <1>5 DEF Parses, Whole
  <2> QED
    BY <1>1, <1>5, <2>1, <2>2 DEF CalmContents
<1>11. CalmCounts'
  <2> SUFFICES ASSUME store = "telemetry", ~raced PROVE CalmCounts'
    BY <1>1 DEF CalmCounts
  <2>1. p \in doc[p] /\ Counted(doc[p]) /\ Counted(doc[p])'
    BY <1>1, <1>4, <1>5 DEF CalmCounts, Counted
  <2>2. current' # NoFile /\ data'[current'].updates = doc[p]
    BY <1>3, <1>4, <1>5 DEF Whole
  <2>3. ASSUME NEW q \in Invocations
        PROVE  /\ pc'[q] \in {"lock", "open", "write", "rename"} => (q \in doc[q] /\ Counted(doc[q]))'
               /\ pc'[q] \in {"reclaim", "return"} => q \in data'[current'].updates
    <3>1. CASE q = p
      BY <1>8, <2>1, <2>2, <3>1
    <3>2. CASE q # p
      BY <1>1, <1>5, <1>7, <3>2 DEF CalmCounts, Counted, FileSteps
    <3> QED
      BY <3>1, <3>2
  <2> QED
    BY <1>5, <2>1, <2>2, <2>3 DEF CalmCounts, Counted
<1> QED
  BY <1>9, <1>10, <1>11 DEF CalmAfter

LEMMA CalmReclaim ==
    ASSUME CalmStep, NEW p \in Invocations, Reclaim(p)
    PROVE  CalmAfter
<1>1. /\ CalmNames /\ CalmContents /\ CalmCounts /\ OneRuns /\ Calm /\ store' = store
      /\ store \in {"telemetry", "pointer"} /\ (~raced' => ~raced) /\ pc \in [Invocations -> Steps]
  BY CalmFacts
<1>2. pc[p] = "reclaim" /\ pc' = [pc EXCEPT ![p] = "return"]
  <2>1. pc[p] = "reclaim" /\ NextOf(p) = "return"
    BY <1>1, CalmPlan DEF Reclaim, CalmStep
  <2> QED
    BY <2>1 DEF Reclaim, Advance, Goto, NextOf
<1>3. \A q \in Invocations : q # p => pc'[q] = pc[q] /\ pc'[q] \notin FileSteps
  BY <1>1, <1>2, Sole DEF CalmStep, FileSteps
<1>4. /\ \A n \in TempNames : temps'[n] = temps[n] \/ temps'[n] = NoFile
      /\ current' = current /\ data' = data /\ handle' = handle /\ doc' = doc /\ acked' = acked
      /\ misread' = misread
  BY DEF Reclaim, history
<1>5. pc'[p] = "return"
  BY <1>1, <1>2
<1>6. CalmNames'
  <2>1. ASSUME NEW q \in Invocations, pc'[q] \in Unopened PROVE pc[q] \in Unopened /\ q # NoFile
    BY <1>3, <1>5, <2>1, NamesAssumption DEF Unopened
  <2>2. \A n \in TempNames : temps'[n] # NoFile => temps'[n] \notin {First, current'}
    BY <1>1, <1>4 DEF CalmNames
  <2>3. \A m, n \in TempNames : temps'[m] # NoFile /\ temps'[m] = temps'[n] => m = n
    BY <1>1, <1>4 DEF CalmNames
  <2>4. \A q \in Invocations : pc'[q] \in Unopened => q # current' /\ \A n \in TempNames : temps'[n] # q
    BY <1>1, <1>4, <2>1 DEF CalmNames
  <2> QED
    BY <2>2, <2>3, <2>4 DEF CalmNames
<1>7. CalmContents'
  <2>1. ASSUME NEW q \in Invocations PROVE pc'[q] \notin {"write", "rename"}
    BY <1>3, <1>5 DEF FileSteps
  <2> QED
    BY <1>1, <1>4, <2>1 DEF CalmContents, Parses
<1>8. CalmCounts'
  <2> SUFFICES ASSUME store = "telemetry", ~raced PROVE CalmCounts'
    BY <1>1 DEF CalmCounts
  <2>1. ASSUME NEW q \in Invocations
        PROVE  /\ pc'[q] \in {"lock", "open", "write", "rename"} => (q \in doc[q] /\ Counted(doc[q]))'
               /\ pc'[q] \in {"reclaim", "return"} => current' # NoFile /\ q \in data'[current'].updates
    <3>1. CASE q = p
      BY <1>1, <1>2, <1>4, <1>5, <3>1 DEF CalmCounts, Counted
    <3>2. CASE q # p
      BY <1>1, <1>3, <1>4, <3>2 DEF CalmCounts, Counted, FileSteps
    <3> QED
      BY <3>1, <3>2
  <2> QED
    BY <1>1, <1>4, <2>1 DEF CalmCounts, Counted
<1> QED
  BY <1>6, <1>7, <1>8 DEF CalmAfter

LEMMA CalmKeeps ==
    ASSUME IInv, CalmInv, [Next]_vars
    PROVE  CalmInv'
<1>0. OneRuns'
  BY OneRunsKeeps DEF CalmInv
<1> SUFFICES ASSUME Calm' PROVE CalmAfter
  BY <1>0 DEF CalmInv, CalmAfter
<1>1. CalmStep
  BY DEF CalmStep
<1>2. store \in {"telemetry", "pointer"}
  BY <1>1, CalmFacts
<1>3. ASSUME NEW p \in Invocations, Begin(p) \/ Step(p) \/ Misread(p) \/ Fail(p) \/ Kill(p)
      PROVE  CalmAfter
  <2>1. pc[p] \notin {"sync", "backup", "fill", "syncdir"}
    BY <1>2, CalmPlan DEF FileSteps
  <2>2. ~(Sync(p) \/ OpenBackup(p) \/ FillBackup(p) \/ SyncDir(p))
    BY <2>1 DEF Sync, OpenBackup, FillBackup, SyncDir
  <2> QED
    BY <1>1, <1>3, <2>2, CalmControl, CalmOpenTemp, CalmWrite, CalmRename, CalmReclaim DEF Step
<1>4. CASE Stop
  BY <1>4 DEF Stop, Calm
<1>5. CASE Finished \/ UNCHANGED vars
  BY <1>1, <1>5, CalmFacts DEF Finished, vars, files, history, CalmAfter, CalmNames, CalmContents,
     CalmCounts, Counted, TempOf, Parses
<1> QED
  BY <1>3, <1>4, <1>5 DEF Next

(* Telemetry is torn only by a machine stop and the trust pointer only by  *)
(* that or by two writers; and telemetry counts are lost only to an        *)
(* invocation that overlapped theirs, or to one that could not read them.  *)
THEOREM LossesCaused == Spec => []LossesHaveCauses
<1>1. Spec => []CalmInv
  <2>1. IInv /\ CalmInv /\ [Next]_vars => CalmInv'
    BY CalmKeeps
  <2> QED
    BY <2>1, CalmStart, Inductive, PTL DEF Spec
<1>2. IInv /\ CalmInv => LossesHaveCauses
  <2> SUFFICES ASSUME IInv, CalmInv PROVE LossesHaveCauses
    OBVIOUS
  <2>1. ASSUME current \notin {NoFile, First}, ~Parses(current), ~stopped, ~(store = "pointer" /\ raced)
        PROVE  FALSE
    <3>1. CASE store \in Transactional
      BY <2>1, <3>1 DEF IInv, Kept, Sound, Durable
    <3>2. CASE store \notin Transactional
      <4>1. store \in {"telemetry", "pointer"}
        BY <3>2 DEF IInv, TypeOK, Stores, Transactional
      <4> QED
        BY <2>1, <4>1 DEF CalmInv, Calm, CalmContents
    <3> QED
      BY <3>1, <3>2
  <2>2. ASSUME store = "telemetry", ~raced, ~stopped, NEW a \in acked
        PROVE  /\ current # NoFile
               /\ a \in data[current].updates \/ data[current].updates \cap misread # {}
    BY <2>2 DEF CalmInv, Calm, CalmCounts, Counted
  <2> QED
    BY <2>1, <2>2 DEF LossesHaveCauses
<1> QED
  BY <1>1, <1>2, Inductive, PTL
=============================================================================
