-------------------------- MODULE DeploymentProofs --------------------------
(***************************************************************************)
(* A machine that is deployed to behaves as each of its parts: the pack    *)
(* directory, the wrapper links and the harness installers keep what they  *)
(* promise, for any updates and archives, any set of keywords and of       *)
(* hooks, any changes others make meanwhile and any failing system calls.  *)
(* The pack directory comes first, by itself, and is then found again in   *)
(* the whole machine.                                                      *)
(***************************************************************************)
EXTENDS Deployment, Sequences, FiniteSetsExt, FiniteSetTheorems, WellFoundedInduction, TLAPS

-----------------------------------------------------------------------------
(* The inductive invariant.                                                *)

(* A tree is at one place at most: renames move trees and never copy them. *)
OnePlace ==
    /\ active \in Trees => active # previous
    /\ \A v \in Updates :
         /\ active \in Trees => active \notin {staging[v], retired[v]}
         /\ previous \in Trees => previous \notin {staging[v], retired[v]}
    /\ \A u \in Updates : \A v \in Updates :
         /\ staging[u] \in Trees => staging[u] # retired[v]
         /\ u # v /\ staging[u] \in Trees => staging[u] # staging[v]
         /\ u # v /\ retired[u] \in Trees => retired[u] # retired[v]

(* The tree is at no path and was not the last one taken out of use.       *)
Unplaced(t) ==
    /\ t \notin {active, previous, displaced}
    /\ \A v \in Updates : t \notin {staging[v], retired[v]}

Built == {"inspect", "initial", "look", "retire", "exchange"}

(* The tree is out of use: at most in the staging directory of its update. *)
AtMostStaged(u) ==
    /\ u \notin {active, previous, displaced}
    /\ \A v \in Updates : u # retired[v] /\ (u # v => u # staging[v])

(* An update's own tree is in its staging directory from its extraction to *)
(* its activation, nowhere before that, and after a failure only where the *)
(* clean-up could not remove it.                                           *)
StagedByPhase ==
    \A u \in Updates :
        /\ upc[u] \in {"start", "extract"} => Unplaced(u)
        /\ upc[u] \in {"restore", "discard", "failed"} => AtMostStaged(u)
        /\ upc[u] \in {"restore", "discard"} => staging[u] \in {u, Partial}
        /\ upc[u] = "failed" /\ staging[u] # NoTree => u \in littered
        /\ upc[u] = "start" => staging[u] = NoTree
        /\ upc[u] \notin {"done", "dead"} => retired[u] # Partial
        /\ upc[u] = "extract" => staging[u] = Partial
        /\ upc[u] \in Built => staging[u] = u /\ displaced # u
        /\ upc[u] = "keep" => staging[u] \in Trees
        /\ upc[u] \in {"start", "extract", "inspect", "initial", "look", "retire"}
             => retired[u] = NoTree

(* Whatever is at a path was validated.                                    *)
PlacedIsAccepted == \A t \in Trees : ArchiveAccepted(release[t]) \/ Unplaced(t)

(* Past its look at the active path an update knows that there is one.     *)
Installed ==
    /\ displaced # NoTree => active # NoTree
    /\ \A u \in Updates :
         upc[u] \in {"look", "retire", "exchange", "keep", "drop"} => active # NoTree

(* Without an overlap one update works at a time, and it finds the         *)
(* rollback path free when it has to.                                      *)
Alone ==
    ~overlapped =>
        /\ \A u \in Updates : \A v \in Updates :
             upc[u] \notin Ended /\ upc[v] \notin Ended => u = v
        /\ \A u \in Updates : upc[u] \in {"exchange", "keep", "restore"} => previous = NoTree
        /\ \A u \in Updates :
             upc[u] \in {"discard", "failed"} => retired[u] = NoTree \/ u \in stranded

(* The tree taken out of use is at a path, and not at the one an update is *)
(* about to remove; undisturbed, it is on its way to the rollback path.    *)
DisplacedIsKept ==
    /\ displaced # NoTree =>
         displaced = previous \/ \E v \in Updates : displaced \in {staging[v], retired[v]}
    /\ \A u \in Updates :
         upc[u] \in {"keep", "drop"} /\ displaced # NoTree => retired[u] # displaced
    /\ faults = 0 /\ ~overlapped /\ displaced # NoTree =>
         \/ previous = displaced
         \/ \E u \in Updates : upc[u] = "exchange" /\ retired[u] = displaced
         \/ \E u \in Updates : upc[u] = "keep" /\ staging[u] = displaced

IInv ==
    /\ TypeOK /\ OnePlace /\ StagedByPhase /\ PlacedIsAccepted
    /\ Installed /\ Alone /\ DisplacedIsKept

-----------------------------------------------------------------------------
(* Each step keeps the parts of IInv it can disturb: one lemma a step.     *)
LEMMA FetchKeeps ==
    ASSUME IInv, NEW u \in Updates, NEW r \in Releases, Fetch(u, r)
    PROVE  IInv'
<1> USE TreesAssumption DEF IInv, Fetch, Goto, Fault, paths, hookVars, mishaps
<1>1. TypeOK'
  BY DEF TypeOK, Trees, UpdateSteps, StagedByPhase, Built, Installed
<1>2. OnePlace'
  BY DEF TypeOK, Trees, OnePlace, StagedByPhase, Unplaced, AtMostStaged, Built
<1>3. StagedByPhase'
  BY DEF TypeOK, Trees, StagedByPhase, OnePlace, Unplaced, AtMostStaged, Built, Installed
<1>4. PlacedIsAccepted'
  <2>1. Unplaced(u)
    BY DEF StagedByPhase
  <2>2. Unplaced(u)'
    BY <2>1, <1>1 DEF TypeOK, Unplaced, Trees
  <2>3. ASSUME NEW t \in Trees, t # u PROVE (ArchiveAccepted(release[t]) \/ Unplaced(t))'
    <3>1. release'[t] = release[t]
      <4>1. release \in [Trees -> Releases] /\ release' = [release EXCEPT ![u] = r]
        BY DEF TypeOK
      <4> HIDE DEF Fetch, IInv
      <4> QED
        BY <2>3, <4>1
    <3>2. Unplaced(t) => Unplaced(t)'
      BY DEF TypeOK, Unplaced, Trees
    <3>3. ArchiveAccepted(release[t])' <=> ArchiveAccepted(release[t])
      <4> HIDE DEF Fetch, IInv
      <4> QED
        BY <3>1 DEF ArchiveAccepted
    <3>4. ArchiveAccepted(release[t]) \/ Unplaced(t)
      BY DEF PlacedIsAccepted
    <3> HIDE DEF Fetch, IInv
    <3> QED
      BY <3>2, <3>3, <3>4
  <2> QED
    BY <2>2, <2>3 DEF PlacedIsAccepted
<1>5. Installed'
  BY DEF TypeOK, Trees, Installed, StagedByPhase, Built
<1>6. Alone'
  <2> SUFFICES ASSUME ~overlapped' PROVE Alone'
    BY DEF Alone
  <2>1. ~overlapped /\ (\A v \in Updates : v # u => upc[v] \in Ended)
    BY DEF TypeOK
  <2>2. \A v \in Updates : v # u => upc'[v] = upc[v]
    BY DEF TypeOK
  <2>3. upc'[u] = "extract"
    BY DEF TypeOK
  <2> HIDE DEF Fetch
  <2>4. UNCHANGED <<previous, retired, stranded>>
    BY DEF Fetch
  <2> QED
    BY <2>1, <2>2, <2>3, <2>4 DEF Alone, Ended
<1>7. DisplacedIsKept'
  BY DEF TypeOK, Trees, DisplacedIsKept, Alone, Ended, StagedByPhase, Unplaced, AtMostStaged, Built, OnePlace, Installed
<1> QED
  BY <1>1, <1>2, <1>3, <1>4, <1>5, <1>6, <1>7

LEMMA ExtractKeeps ==
    ASSUME IInv, NEW u \in Updates, Extract(u)
    PROVE  IInv'
<1> USE TreesAssumption DEF IInv, Extract, Goto, Fault, paths, hookVars, mishaps
<1>1. TypeOK'
  BY DEF TypeOK, Trees, UpdateSteps, StagedByPhase, Built, Installed
<1>2. OnePlace'
  BY DEF TypeOK, Trees, OnePlace, StagedByPhase, Unplaced, AtMostStaged, Built
<1>3. StagedByPhase'
  BY DEF TypeOK, Trees, StagedByPhase, OnePlace, Unplaced, AtMostStaged, Built, Installed
<1>4. PlacedIsAccepted'
  BY DEF TypeOK, Trees, PlacedIsAccepted, StagedByPhase, Unplaced, AtMostStaged, Built
<1>5. Installed'
  BY DEF TypeOK, Trees, Installed, StagedByPhase, Built
<1>6. Alone'
  BY DEF TypeOK, Trees, Alone, Ended, StagedByPhase, Built
<1>7. DisplacedIsKept'
  BY DEF TypeOK, Trees, DisplacedIsKept, Alone, Ended, StagedByPhase, Unplaced, AtMostStaged, Built, OnePlace, Installed
<1> QED
  BY <1>1, <1>2, <1>3, <1>4, <1>5, <1>6, <1>7

LEMMA RejectKeeps ==
    ASSUME IInv, NEW u \in Updates, Reject(u)
    PROVE  IInv'
<1> USE TreesAssumption DEF IInv, Reject, Goto, Fault, paths, hookVars, mishaps
<1>1. TypeOK'
  BY BoundsAssumption DEF TypeOK, Trees, UpdateSteps, StagedByPhase, Built, Installed
<1>2. OnePlace'
  BY DEF TypeOK, Trees, OnePlace, StagedByPhase, Unplaced, AtMostStaged, Built
<1>3. StagedByPhase'
  BY DEF TypeOK, Trees, StagedByPhase, OnePlace, Unplaced, AtMostStaged, Built, Installed
<1>4. PlacedIsAccepted'
  BY DEF TypeOK, Trees, PlacedIsAccepted, StagedByPhase, Unplaced, AtMostStaged, Built
<1>5. Installed'
  BY DEF TypeOK, Trees, Installed, StagedByPhase, Built
<1>6. Alone'
  BY DEF TypeOK, Trees, Alone, Ended, StagedByPhase, Built
<1>7. DisplacedIsKept'
  BY DEF TypeOK, Trees, DisplacedIsKept, Alone, Ended, StagedByPhase, Unplaced, AtMostStaged, Built, OnePlace, Installed
<1> QED
  BY <1>1, <1>2, <1>3, <1>4, <1>5, <1>6, <1>7

LEMMA InspectKeeps ==
    ASSUME IInv, NEW u \in Updates, Inspect(u)
    PROVE  IInv'
<1> USE TreesAssumption DEF IInv, Inspect, Goto, Fault, paths, hookVars, mishaps
<1>1. TypeOK'
  BY DEF TypeOK, Trees, UpdateSteps, StagedByPhase, Built, Installed
<1>2. OnePlace'
  BY DEF TypeOK, Trees, OnePlace, StagedByPhase, Unplaced, AtMostStaged, Built
<1>3. StagedByPhase'
  BY DEF TypeOK, Trees, StagedByPhase, OnePlace, Unplaced, AtMostStaged, Built, Installed
<1>4. PlacedIsAccepted'
  BY DEF TypeOK, Trees, PlacedIsAccepted, StagedByPhase, Unplaced, AtMostStaged, Built
<1>5. Installed'
  BY DEF TypeOK, Trees, Installed, StagedByPhase, Built
<1>6. Alone'
  BY DEF TypeOK, Trees, Alone, Ended, StagedByPhase, Built
<1>7. DisplacedIsKept'
  BY DEF TypeOK, Trees, DisplacedIsKept, Alone, Ended, StagedByPhase, Unplaced, AtMostStaged, Built, OnePlace, Installed
<1> QED
  BY <1>1, <1>2, <1>3, <1>4, <1>5, <1>6, <1>7

LEMMA ActivateInitialKeeps ==
    ASSUME IInv, NEW u \in Updates, ActivateInitial(u)
    PROVE  IInv'
<1> USE TreesAssumption DEF IInv, ActivateInitial, Goto, Fault, paths, hookVars, mishaps
<1>1. TypeOK'
  BY DEF TypeOK, Trees, UpdateSteps, StagedByPhase, Built, Installed
<1>2. OnePlace'
  BY DEF TypeOK, Trees, OnePlace, StagedByPhase, Unplaced, AtMostStaged, Built
<1>3. StagedByPhase'
  BY DEF TypeOK, Trees, StagedByPhase, OnePlace, Unplaced, AtMostStaged, Built, Installed
<1>4. PlacedIsAccepted'
  BY DEF TypeOK, Trees, PlacedIsAccepted, StagedByPhase, Unplaced, AtMostStaged, Built
<1>5. Installed'
  BY DEF TypeOK, Trees, Installed, StagedByPhase, Built
<1>6. Alone'
  BY DEF TypeOK, Trees, Alone, Ended, StagedByPhase, Built
<1>7. DisplacedIsKept'
  BY DEF TypeOK, Trees, DisplacedIsKept, Alone, Ended, StagedByPhase, Unplaced, AtMostStaged, Built, OnePlace, Installed
<1> QED
  BY <1>1, <1>2, <1>3, <1>4, <1>5, <1>6, <1>7

LEMMA InitialIsTakenKeeps ==
    ASSUME IInv, NEW u \in Updates, InitialIsTaken(u)
    PROVE  IInv'
<1> USE TreesAssumption DEF IInv, InitialIsTaken, Goto, Fault, paths, hookVars, mishaps
<1>1. TypeOK'
  BY BoundsAssumption DEF TypeOK, Trees, UpdateSteps, StagedByPhase, Built, Installed
<1>2. OnePlace'
  BY DEF TypeOK, Trees, OnePlace, StagedByPhase, Unplaced, AtMostStaged, Built
<1>3. StagedByPhase'
  BY DEF TypeOK, Trees, StagedByPhase, OnePlace, Unplaced, AtMostStaged, Built, Installed
<1>4. PlacedIsAccepted'
  BY DEF TypeOK, Trees, PlacedIsAccepted, StagedByPhase, Unplaced, AtMostStaged, Built
<1>5. Installed'
  BY DEF TypeOK, Trees, Installed, StagedByPhase, Built
<1>6. Alone'
  BY DEF TypeOK, Trees, Alone, Ended, StagedByPhase, Built
<1>7. DisplacedIsKept'
  BY DEF TypeOK, Trees, DisplacedIsKept, Alone, Ended, StagedByPhase, Unplaced, AtMostStaged, Built, OnePlace, Installed
<1> QED
  BY <1>1, <1>2, <1>3, <1>4, <1>5, <1>6, <1>7

LEMMA LookKeeps ==
    ASSUME IInv, NEW u \in Updates, Look(u)
    PROVE  IInv'
<1> USE TreesAssumption DEF IInv, Look, Goto, Fault, paths, hookVars, mishaps
<1>1. TypeOK'
  BY DEF TypeOK, Trees, UpdateSteps, StagedByPhase, Built, Installed
<1>2. OnePlace'
  BY DEF TypeOK, Trees, OnePlace, StagedByPhase, Unplaced, AtMostStaged, Built
<1>3. StagedByPhase'
  BY DEF TypeOK, Trees, StagedByPhase, OnePlace, Unplaced, AtMostStaged, Built, Installed
<1>4. PlacedIsAccepted'
  BY DEF TypeOK, Trees, PlacedIsAccepted, StagedByPhase, Unplaced, AtMostStaged, Built
<1>5. Installed'
  BY DEF TypeOK, Trees, Installed, StagedByPhase, Built
<1>6. Alone'
  BY DEF TypeOK, Trees, Alone, Ended, StagedByPhase, Built
<1>7. DisplacedIsKept'
  BY DEF TypeOK, Trees, DisplacedIsKept, Alone, Ended, StagedByPhase, Unplaced, AtMostStaged, Built, OnePlace, Installed
<1> QED
  BY <1>1, <1>2, <1>3, <1>4, <1>5, <1>6, <1>7

LEMMA RetireKeeps ==
    ASSUME IInv, NEW u \in Updates, Retire(u)
    PROVE  IInv'
<1> USE TreesAssumption DEF IInv, Retire, Goto, Fault, paths, hookVars, mishaps
<1>1. TypeOK'
  BY DEF TypeOK, Trees, UpdateSteps, StagedByPhase, Built, Installed
<1>2. OnePlace'
  BY DEF TypeOK, Trees, OnePlace, StagedByPhase, Unplaced, AtMostStaged, Built
<1>3. StagedByPhase'
  BY DEF TypeOK, Trees, StagedByPhase, OnePlace, Unplaced, AtMostStaged, Built, Installed
<1>4. PlacedIsAccepted'
  BY DEF TypeOK, Trees, PlacedIsAccepted, StagedByPhase, Unplaced, AtMostStaged, Built
<1>5. Installed'
  BY DEF TypeOK, Trees, Installed, StagedByPhase, Built
<1>6. Alone'
  BY DEF TypeOK, Trees, Alone, Ended, StagedByPhase, Built
<1>7. DisplacedIsKept'
  BY DEF TypeOK, Trees, DisplacedIsKept, Alone, Ended, StagedByPhase, Unplaced, AtMostStaged, Built, OnePlace, Installed
<1> QED
  BY <1>1, <1>2, <1>3, <1>4, <1>5, <1>6, <1>7

LEMMA RetireFailsKeeps ==
    ASSUME IInv, NEW u \in Updates, RetireFails(u)
    PROVE  IInv'
<1> USE TreesAssumption DEF IInv, RetireFails, Goto, Fault, paths, hookVars, mishaps
<1>1. TypeOK'
  BY BoundsAssumption DEF TypeOK, Trees, UpdateSteps, StagedByPhase, Built, Installed
<1>2. OnePlace'
  BY DEF TypeOK, Trees, OnePlace, StagedByPhase, Unplaced, AtMostStaged, Built
<1>3. StagedByPhase'
  BY DEF TypeOK, Trees, StagedByPhase, OnePlace, Unplaced, AtMostStaged, Built, Installed
<1>4. PlacedIsAccepted'
  BY DEF TypeOK, Trees, PlacedIsAccepted, StagedByPhase, Unplaced, AtMostStaged, Built
<1>5. Installed'
  BY DEF TypeOK, Trees, Installed, StagedByPhase, Built
<1>6. Alone'
  BY DEF TypeOK, Trees, Alone, Ended, StagedByPhase, Built
<1>7. DisplacedIsKept'
  BY DEF TypeOK, Trees, DisplacedIsKept, Alone, Ended, StagedByPhase, Unplaced, AtMostStaged, Built, OnePlace, Installed
<1> QED
  BY <1>1, <1>2, <1>3, <1>4, <1>5, <1>6, <1>7

LEMMA ExchangeKeeps ==
    ASSUME IInv, NEW u \in Updates, Exchange(u)
    PROVE  IInv'
<1> USE TreesAssumption DEF IInv, Exchange, Goto, Fault, SeenByLoads, paths, hookVars, mishaps
<1>1. TypeOK'
  BY BoundsAssumption DEF TypeOK, Trees, UpdateSteps, StagedByPhase, Built, Installed
<1>2. OnePlace'
  BY DEF TypeOK, Trees, OnePlace, StagedByPhase, Unplaced, AtMostStaged, Built
<1>3. StagedByPhase'
  BY DEF TypeOK, Trees, StagedByPhase, OnePlace, Unplaced, AtMostStaged, Built, Installed
<1>4. PlacedIsAccepted'
  BY DEF TypeOK, Trees, PlacedIsAccepted, StagedByPhase, Unplaced, AtMostStaged, Built
<1>5. Installed'
  BY DEF TypeOK, Trees, Installed, StagedByPhase, Built
<1>6. Alone'
  BY DEF TypeOK, Trees, Alone, Ended, StagedByPhase, Built
<1>7. DisplacedIsKept'
  BY DEF TypeOK, Trees, DisplacedIsKept, Alone, Ended, StagedByPhase, Unplaced, AtMostStaged, Built, OnePlace, Installed
<1> QED
  BY <1>1, <1>2, <1>3, <1>4, <1>5, <1>6, <1>7

LEMMA ExchangeFailsKeeps ==
    ASSUME IInv, NEW u \in Updates, ExchangeFails(u)
    PROVE  IInv'
<1> USE TreesAssumption DEF IInv, ExchangeFails, Goto, Fault, paths, hookVars, mishaps
<1>1. TypeOK'
  BY BoundsAssumption DEF TypeOK, Trees, UpdateSteps, StagedByPhase, Built, Installed
<1>2. OnePlace'
  BY DEF TypeOK, Trees, OnePlace, StagedByPhase, Unplaced, AtMostStaged, Built
<1>3. StagedByPhase'
  BY DEF TypeOK, Trees, StagedByPhase, OnePlace, Unplaced, AtMostStaged, Built, Installed
<1>4. PlacedIsAccepted'
  BY DEF TypeOK, Trees, PlacedIsAccepted, StagedByPhase, Unplaced, AtMostStaged, Built
<1>5. Installed'
  BY DEF TypeOK, Trees, Installed, StagedByPhase, Built
<1>6. Alone'
  BY DEF TypeOK, Trees, Alone, Ended, StagedByPhase, Built
<1>7. DisplacedIsKept'
  BY DEF TypeOK, Trees, DisplacedIsKept, Alone, Ended, StagedByPhase, Unplaced, AtMostStaged, Built, OnePlace, Installed
<1> QED
  BY <1>1, <1>2, <1>3, <1>4, <1>5, <1>6, <1>7

LEMMA RestoreKeeps ==
    ASSUME IInv, NEW u \in Updates, Restore(u)
    PROVE  IInv'
<1> USE TreesAssumption DEF IInv, Restore, Goto, Fault, paths, hookVars, mishaps
<1>1. TypeOK'
  BY BoundsAssumption DEF TypeOK, Trees, UpdateSteps, StagedByPhase, Built, Installed
<1>2. OnePlace'
  BY DEF TypeOK, Trees, OnePlace, StagedByPhase, Unplaced, AtMostStaged, Built
<1>3. StagedByPhase'
  BY DEF TypeOK, Trees, StagedByPhase, OnePlace, Unplaced, AtMostStaged, Built, Installed
<1>4. PlacedIsAccepted'
  BY DEF TypeOK, Trees, PlacedIsAccepted, StagedByPhase, Unplaced, AtMostStaged, Built
<1>5. Installed'
  BY DEF TypeOK, Trees, Installed, StagedByPhase, Built
<1>6. Alone'
  <2>1. overlapped' = overlapped
    OBVIOUS
  <2>2. ASSUME ~overlapped, NEW v \in Updates, v # u
        PROVE  upc'[v] = upc[v] /\ upc[v] \in Ended /\ retired'[v] = retired[v]
    BY <2>2 DEF TypeOK, Alone, Ended
  <2>3. upc'[u] = "discard" /\ stranded \subseteq stranded'
    BY DEF TypeOK
  <2>4. ~overlapped => retired'[u] = NoTree \/ u \in stranded'
    BY DEF TypeOK, Alone
  <2> HIDE DEF Restore
  <2> QED
    BY <2>1, <2>2, <2>3, <2>4 DEF Alone, Ended
<1>7. DisplacedIsKept'
  BY DEF TypeOK, Trees, DisplacedIsKept, Alone, Ended, StagedByPhase, Unplaced, AtMostStaged, Built, OnePlace, Installed
<1> QED
  BY <1>1, <1>2, <1>3, <1>4, <1>5, <1>6, <1>7

LEMMA DiscardKeeps ==
    ASSUME IInv, NEW u \in Updates, Discard(u)
    PROVE  IInv'
<1> USE TreesAssumption DEF IInv, Discard, Goto, Fault, paths, hookVars, mishaps
<1>1. TypeOK'
  BY BoundsAssumption DEF TypeOK, Trees, UpdateSteps, StagedByPhase, Built, Installed
<1>2. OnePlace'
  BY DEF TypeOK, Trees, OnePlace, StagedByPhase, Unplaced, AtMostStaged, Built
<1>3. StagedByPhase'
  BY DEF TypeOK, Trees, StagedByPhase, OnePlace, Unplaced, AtMostStaged, Built, Installed
<1>4. PlacedIsAccepted'
  BY DEF TypeOK, Trees, PlacedIsAccepted, StagedByPhase, Unplaced, AtMostStaged, Built
<1>5. Installed'
  BY DEF TypeOK, Trees, Installed, StagedByPhase, Built
<1>6. Alone'
  BY DEF TypeOK, Trees, Alone, Ended, StagedByPhase, Built
<1>7. DisplacedIsKept'
  BY DEF TypeOK, Trees, DisplacedIsKept, Alone, Ended, StagedByPhase, Unplaced, AtMostStaged, Built, OnePlace, Installed
<1> QED
  BY <1>1, <1>2, <1>3, <1>4, <1>5, <1>6, <1>7

LEMMA KeepPriorKeeps ==
    ASSUME IInv, NEW u \in Updates, KeepPrior(u)
    PROVE  IInv'
<1> USE TreesAssumption DEF IInv, KeepPrior, Goto, Fault, paths, hookVars, mishaps
<1>1. TypeOK'
  BY DEF TypeOK, Trees, UpdateSteps, StagedByPhase, Built, Installed
<1>2. OnePlace'
  BY DEF TypeOK, Trees, OnePlace, StagedByPhase, Unplaced, AtMostStaged, Built
<1>3. StagedByPhase'
  BY DEF TypeOK, Trees, StagedByPhase, OnePlace, Unplaced, AtMostStaged, Built, Installed
<1>4. PlacedIsAccepted'
  BY DEF TypeOK, Trees, PlacedIsAccepted, StagedByPhase, Unplaced, AtMostStaged, Built
<1>5. Installed'
  BY DEF TypeOK, Trees, Installed, StagedByPhase, Built
<1>6. Alone'
  <2>1. ASSUME ~overlapped, NEW v \in Updates, v # u
        PROVE  upc'[v] = upc[v] /\ upc[v] \in Ended
    BY <2>1 DEF TypeOK, Alone, Ended
  <2>2. upc'[u] = "drop"
    BY DEF TypeOK
  <2>3. UNCHANGED <<overlapped, retired, stranded>>
    OBVIOUS
  <2> HIDE DEF KeepPrior
  <2> QED
    BY <2>1, <2>2, <2>3 DEF Alone, Ended
<1>7. DisplacedIsKept'
  BY DEF TypeOK, Trees, DisplacedIsKept, Alone, Ended, StagedByPhase, Unplaced, AtMostStaged, Built, OnePlace, Installed
<1> QED
  BY <1>1, <1>2, <1>3, <1>4, <1>5, <1>6, <1>7

LEMMA KeepFailsKeeps ==
    ASSUME IInv, NEW u \in Updates, KeepFails(u)
    PROVE  IInv'
<1> USE TreesAssumption DEF IInv, KeepFails, Goto, Fault, paths, hookVars, mishaps
<1>1. TypeOK'
  BY BoundsAssumption DEF TypeOK, Trees, UpdateSteps, StagedByPhase, Built, Installed
<1>2. OnePlace'
  BY DEF TypeOK, Trees, OnePlace, StagedByPhase, Unplaced, AtMostStaged, Built
<1>3. StagedByPhase'
  BY DEF TypeOK, Trees, StagedByPhase, OnePlace, Unplaced, AtMostStaged, Built, Installed
<1>4. PlacedIsAccepted'
  BY DEF TypeOK, Trees, PlacedIsAccepted, StagedByPhase, Unplaced, AtMostStaged, Built
<1>5. Installed'
  BY DEF TypeOK, Trees, Installed, StagedByPhase, Built
<1>6. Alone'
  BY DEF TypeOK, Trees, Alone, Ended, StagedByPhase, Built
<1>7. DisplacedIsKept'
  BY DEF TypeOK, Trees, DisplacedIsKept, Alone, Ended, StagedByPhase, Unplaced, AtMostStaged, Built, OnePlace, Installed
<1> QED
  BY <1>1, <1>2, <1>3, <1>4, <1>5, <1>6, <1>7

LEMMA DropRetiredKeeps ==
    ASSUME IInv, NEW u \in Updates, DropRetired(u)
    PROVE  IInv'
<1> USE TreesAssumption DEF IInv, DropRetired, Goto, Fault, paths, hookVars, mishaps
<1>1. TypeOK'
  BY BoundsAssumption DEF TypeOK, Trees, UpdateSteps, StagedByPhase, Built, Installed
<1>2. OnePlace'
  BY DEF TypeOK, Trees, OnePlace, StagedByPhase, Unplaced, AtMostStaged, Built
<1>3. StagedByPhase'
  BY DEF TypeOK, Trees, StagedByPhase, OnePlace, Unplaced, AtMostStaged, Built, Installed
<1>4. PlacedIsAccepted'
  BY DEF TypeOK, Trees, PlacedIsAccepted, StagedByPhase, Unplaced, AtMostStaged, Built
<1>5. Installed'
  BY DEF TypeOK, Trees, Installed, StagedByPhase, Built
<1>6. Alone'
  BY DEF TypeOK, Trees, Alone, Ended, StagedByPhase, Built
<1>7. DisplacedIsKept'
  BY DEF TypeOK, Trees, DisplacedIsKept, Alone, Ended, StagedByPhase, Unplaced, AtMostStaged, Built, OnePlace, Installed
<1> QED
  BY <1>1, <1>2, <1>3, <1>4, <1>5, <1>6, <1>7

LEMMA KillKeeps ==
    ASSUME IInv, NEW u \in Updates, Kill(u)
    PROVE  IInv'
<1> USE TreesAssumption DEF IInv, Kill, Goto, Fault, paths, hookVars, mishaps
<1>1. TypeOK'
  BY BoundsAssumption DEF TypeOK, Trees, UpdateSteps, StagedByPhase, Built, Installed
<1>2. OnePlace'
  BY DEF TypeOK, Trees, OnePlace, StagedByPhase, Unplaced, AtMostStaged, Built
<1>3. StagedByPhase'
  BY DEF TypeOK, Trees, StagedByPhase, OnePlace, Unplaced, AtMostStaged, Built, Installed
<1>4. PlacedIsAccepted'
  BY DEF TypeOK, Trees, PlacedIsAccepted, StagedByPhase, Unplaced, AtMostStaged, Built
<1>5. Installed'
  BY DEF TypeOK, Trees, Installed, StagedByPhase, Built
<1>6. Alone'
  BY DEF TypeOK, Trees, Alone, Ended, StagedByPhase, Built
<1>7. DisplacedIsKept'
  BY DEF TypeOK, Trees, DisplacedIsKept, Alone, Ended, StagedByPhase, Unplaced, AtMostStaged, Built, OnePlace, Installed
<1> QED
  BY <1>1, <1>2, <1>3, <1>4, <1>5, <1>6, <1>7

(* A step of a hook moves no directory and ends no update.                 *)
HookStep(h) == List(h) \/ Open(h) \/ Exit(h)

LEMMA HookKeeps ==
    ASSUME IInv, NEW h \in Hooks, HookStep(h)
    PROVE  IInv'
<1> USE DEF IInv, HookStep, paths, mishaps
<1>1. TypeOK'
  <2>1. CASE List(h)
    <3>1. active # NoTree => FileNames(release[active]) \subseteq AllNames
      BY DEF TypeOK, AllNames
    <3> QED
      BY <2>1, <3>1 DEF List, TypeOK, NoPacks, Trees
  <2>2. CASE Open(h)
    <3>1. hpc'[h] \in {"idle", "loading", "loaded"} /\ hpc' = [hpc EXCEPT ![h] = hpc'[h]]
      BY <2>2 DEF Open, TypeOK
    <3>2. /\ active \in Trees \cup {NoTree}
          /\ packs \in [Hooks -> [AllIds -> Trees \cup {NoTree}]]
      BY DEF TypeOK
    <3>3. PICK n \in todo[h] :
            \/ /\ todo' = [todo EXCEPT ![h] = @ \ {n}]
               /\ packs' = [packs EXCEPT ![h][IdOf(release[active], n)] = active]
               /\ n \in FileNames(release[active])
               /\ UNCHANGED failOpen
            \/ /\ todo' = [todo EXCEPT ![h] = {}]
               /\ failOpen' = failOpen \cup {h}
               /\ UNCHANGED packs
      BY <2>2 DEF Open
    <3>4. packs' \in [Hooks -> [AllIds -> Trees \cup {NoTree}]]
      <4>1. PICK i : packs' = [packs EXCEPT ![h][i] = active] \/ packs' = packs
        BY <3>3
      <4> HIDE DEF IInv
      <4> QED
        BY <3>2, <4>1
    <3>5. todo' \in [Hooks -> SUBSET AllNames] /\ failOpen' \in SUBSET Hooks
      BY <3>3 DEF TypeOK
    <3> QED
      BY <2>2, <3>1, <3>4, <3>5 DEF Open, TypeOK
  <2>3. CASE Exit(h)
    BY <2>3 DEF Exit, TypeOK, NoPacks
  <2> QED
    BY <2>1, <2>2, <2>3
<1>2. UNCHANGED <<paths, upc, faults, displaced, overlapped, mishaps>>
  BY DEF List, Open, Exit
<1> QED
  BY <1>1, <1>2 DEF OnePlace, StagedByPhase, PlacedIsAccepted, Installed, Alone,
                    DisplacedIsKept, Unplaced, AtMostStaged

UpdateStep(u) ==
    \/ \E r \in Releases : Fetch(u, r)
    \/ Extract(u) \/ Reject(u) \/ Inspect(u)
    \/ ActivateInitial(u) \/ InitialIsTaken(u)
    \/ Look(u) \/ Retire(u) \/ RetireFails(u)
    \/ Exchange(u) \/ ExchangeFails(u) \/ Restore(u) \/ Discard(u)
    \/ KeepPrior(u) \/ KeepFails(u) \/ DropRetired(u)
    \/ Kill(u)

LEMMA Inductive == IInv /\ [Next]_vars => IInv'
<1> SUFFICES ASSUME IInv, [Next]_vars PROVE IInv'
  OBVIOUS
<1>1. CASE UNCHANGED vars
  BY <1>1 DEF vars, paths, hookVars, mishaps, IInv, TypeOK, OnePlace, StagedByPhase,
              PlacedIsAccepted, Installed, Alone, DisplacedIsKept, Unplaced, AtMostStaged
<1>2. CASE \E u \in Updates : UpdateStep(u)
  BY <1>2, FetchKeeps, ExtractKeeps, RejectKeeps, InspectKeeps, ActivateInitialKeeps,
     InitialIsTakenKeeps, LookKeeps, RetireKeeps, RetireFailsKeeps, ExchangeKeeps,
     ExchangeFailsKeeps, RestoreKeeps, DiscardKeeps, KeepPriorKeeps, KeepFailsKeeps, DropRetiredKeeps, KillKeeps
  DEF UpdateStep
<1>3. CASE \E h \in Hooks : HookStep(h)
  BY <1>3, HookKeeps
<1> QED
  BY <1>1, <1>2, <1>3 DEF Next, UpdateStep, HookStep

LEMMA InvariantCorrect == Spec => []IInv
<1>1. Init => IInv
  <2> SUFFICES ASSUME Init PROVE IInv
    OBVIOUS
  <2>1. TypeOK
    <3>1. /\ active \in Trees \cup {NoTree} /\ release \in [Trees -> Releases]
          /\ upc \in [Updates -> UpdateSteps] /\ faults \in 0..MaxFaults
      BY FirstAssumption, BoundsAssumption DEF Init, Trees, UpdateSteps
    <3>2. todo \in [Hooks -> SUBSET AllNames] /\ packs \in [Hooks -> [AllIds -> Trees \cup {NoTree}]]
      BY DEF Init, NoPacks
    <3> QED
      BY <3>1, <3>2 DEF Init, TypeOK
  <2>2. OnePlace /\ StagedByPhase
    BY TreesAssumption DEF Init, OnePlace, StagedByPhase, Unplaced, AtMostStaged, Built, Trees
  <2>3. PlacedIsAccepted /\ Installed /\ Alone /\ DisplacedIsKept
    BY FirstAssumption DEF Init, PlacedIsAccepted, Installed, Alone, DisplacedIsKept, Ended
  <2> QED
    BY <2>1, <2>2, <2>3 DEF IInv
<1> QED
  BY <1>1, Inductive, PTL DEF Spec

-----------------------------------------------------------------------------
(* The theorems about the directory.                                       *)

(* Every variable of the updates and of the loads keeps its type.          *)
THEOREM TypeCorrect == Spec => []TypeOK
<1>1. IInv => TypeOK
  BY DEF IInv
<1> QED
  BY <1>1, InvariantCorrect, PTL

(* An archive that is accepted unpacks to a manifest for each of its files *)
(* and to as many packs.                                                   *)
LEMMA AcceptedLoadsInFull ==
    ASSUME NEW r \in Releases, ArchiveAccepted(r)
    PROVE  LoadsInFull(r)
<1> DEFINE files == {i \in DOMAIN Archive[r] : Archive[r][i].kind # "root"}
           name == [i \in files |-> Archive[r][i].name]
           id == [i \in files |-> Archive[r][i].id]
<1>1. IsFiniteSet(files)
  BY ArchiveAssumption, FS_Subset
<1>2. Manifests(r) = {Archive[r][i] : i \in files}
  BY DEF Manifests, ArchiveAccepted
<1>3. /\ FileNames(r) = {Archive[r][i].name : i \in files}
      /\ PackIds(r) = {Archive[r][i].id : i \in files}
  BY <1>2 DEF FileNames, PackIds
<1>4. \A i \in files : \A j \in files : i # j =>
          Archive[r][i].name # Archive[r][j].name /\ Archive[r][i].id # Archive[r][j].id
  BY DEF ArchiveAccepted
<1>5. name \in Bijection(files, FileNames(r)) /\ id \in Bijection(files, PackIds(r))
  <2>1. name \in [files -> FileNames(r)] /\ id \in [files -> PackIds(r)]
    BY <1>3
  <2>2. name \in Injection(files, FileNames(r)) /\ id \in Injection(files, PackIds(r))
    BY <2>1, <1>4 DEF Injection, IsInjective
  <2>3. name \in Surjection(files, FileNames(r)) /\ id \in Surjection(files, PackIds(r))
    BY <2>1, <1>3 DEF Surjection
  <2> QED
    BY <2>2, <2>3 DEF Bijection
<1>6. Cardinality(FileNames(r)) = Cardinality(files) /\ Cardinality(PackIds(r)) = Cardinality(files)
  BY <1>1, <1>5, FS_Bijection DEF ExistsBijection
<1>7. \A i \in files : Archive[r][i] \in Manifests(r) /\ Archive[r][i].loads
  BY <1>2 DEF ArchiveAccepted
<1> QED
  BY <1>6, <1>7 DEF LoadsInFull

(* Whatever updates overlap, fail or die, the active directory holds all   *)
(* of one validated release, and once there is one it never goes away      *)
(* (update.rs, atomic_replace_directory).                                  *)
THEOREM ActiveWhole == Spec => []ActiveIsWhole
<1>1. IInv => ActiveIsWhole
  <2> SUFFICES ASSUME IInv PROVE ActiveIsWhole
    OBVIOUS
  <2>1. ASSUME active # NoTree PROVE release[active] \in WholeReleases
    <3>1. active \in Trees /\ release[active] \in Releases
      BY <2>1 DEF IInv, TypeOK
    <3>2. ArchiveAccepted(release[active])
      BY <3>1 DEF IInv, PlacedIsAccepted, Unplaced
    <3> QED
      BY <3>1, <3>2, AcceptedLoadsInFull DEF WholeReleases
  <2> QED
    BY <2>1 DEF IInv, Installed, ActiveIsWhole
<1> QED
  BY <1>1, InvariantCorrect, PTL

(* A failed update has left no tree of its own in use, nor anywhere if it  *)
(* could remove its staging directory, and gave back the rollback tree it  *)
(* had retired unless updates overlapped or that rename failed as well     *)
(* (update.rs, run_update and restore_retired_rollback).                   *)
THEOREM FailureHarmless == Spec => []FailureLeavesPolicy
<1>1. IInv => FailureLeavesPolicy
  BY DEF IInv, StagedByPhase, AtMostStaged, Alone, FailureLeavesPolicy
<1> QED
  BY <1>1, InvariantCorrect, PTL

(* The tree an exchange took out of use is on the disk until the next      *)
(* exchange, and undisturbed it is the rollback directory in the end.      *)
THEOREM RollbackKept == Spec => []RollbackTreeIsKept
<1>1. IInv => RollbackTreeIsKept
  BY DEF IInv, DisplacedIsKept, RollbackTreeIsKept, Ended
<1> QED
  BY <1>1, InvariantCorrect, PTL

(* The trees of an update are where its outcome says (update.rs).          *)
THEOREM TreesAccounted == Spec => []TreesAreAccountedFor
BY RollbackKept, FailureHarmless, PTL DEF TreesAreAccountedFor

-----------------------------------------------------------------------------
(* The loads of the hooks.                                                 *)

(* What a hook that has only met the tree it listed has loaded so far.     *)
Opened(h) == [i \in AllIds |->
    IF /\ listed[h] \in Trees
       /\ \E n \in FileNames(release[listed[h]]) \ todo[h] : IdOf(release[listed[h]], n) = i
    THEN listed[h] ELSE NoTree]

(* A manifest of that name is loaded, from one tree or another.            *)
Loaded(h, n) ==
    \E t \in Trees : /\ t \in Updates => upc[t] # "start"
                     /\ n \in FileNames(release[t])
                     /\ packs[h][IdOf(release[t], n)] \in Trees

(* The inductive invariant of a load: while no exchange has met it, the    *)
(* tree it listed is the active one, so what it opens is there.            *)
ListedIsWhole(h) ==
    listed[h] \in Trees => /\ ArchiveAccepted(release[listed[h]])
                           /\ listed[h] \in Updates => upc[listed[h]] # "start"
LoadInv(h) ==
    /\ hpc[h] = "loading" => /\ listed[h] \in Trees /\ active \in Trees
                             /\ h \notin exchanged => active = listed[h]
    /\ hpc[h] = "loaded" => todo[h] = {}
    /\ h \in failOpen => h \in exchanged
OpenedInv(h) ==
    hpc[h] # "idle" =>
        /\ listed[h] \in Trees => todo[h] \subseteq FileNames(release[listed[h]])
        /\ h \notin exchanged => packs[h] = Opened(h)
        /\ listed[h] \in Trees /\ h \notin failOpen =>
             \A n \in FileNames(release[listed[h]]) \ todo[h] : Loaded(h, n)
LoadsInv == \A h \in Hooks : ListedIsWhole(h) /\ LoadInv(h) /\ OpenedInv(h)

(* What a step of an update changes that a load can see.                   *)
SeenOfUpdates ==
    /\ UNCHANGED hookVars
    /\ \/ UNCHANGED <<active, exchanged>>
       \/ active = NoTree /\ UNCHANGED exchanged
       \/ active' \in Trees /\ exchanged' = SeenByLoads
    /\ \A t \in Trees : (t \in Updates => upc[t] # "start") =>
           release'[t] = release[t] /\ (t \in Updates => upc'[t] # "start")

LEMMA UpdateIsSeen ==
    ASSUME IInv, NEW u \in Updates, UpdateStep(u)
    PROVE  SeenOfUpdates
<1> USE DEF SeenOfUpdates, IInv, TypeOK, Goto, paths
<1>1. CASE \E r \in Releases : Fetch(u, r)
  BY <1>1, TreesAssumption DEF Fetch, Trees
<1>2. CASE Exchange(u)
  <2>1. active' \in Trees
    BY <1>2 DEF Exchange, StagedByPhase, Built, Trees
  <2> QED
    BY <1>2, <2>1 DEF Exchange
<1>3. CASE ActivateInitial(u)
  BY <1>3 DEF ActivateInitial
<1>4. CASE Extract(u) \/ Reject(u) \/ Inspect(u) \/ InitialIsTaken(u) \/ Look(u)
  BY <1>4 DEF Extract, Reject, Inspect, InitialIsTaken, Look
<1>5. CASE Retire(u) \/ RetireFails(u) \/ ExchangeFails(u) \/ Restore(u) \/ Discard(u)
  BY <1>5 DEF Retire, RetireFails, ExchangeFails, Restore, Discard
<1>6. CASE KeepPrior(u) \/ KeepFails(u) \/ DropRetired(u) \/ Kill(u)
  BY <1>6 DEF KeepPrior, KeepFails, DropRetired, Kill, Ended
<1> QED
  BY <1>1, <1>2, <1>3, <1>4, <1>5, <1>6 DEF UpdateStep

LEMMA UpdateKeepsLoads ==
    ASSUME IInv, LoadsInv, NEW u \in Updates, UpdateStep(u)
    PROVE  LoadsInv'
<1>1. SeenOfUpdates
  BY UpdateIsSeen
<1> SUFFICES ASSUME NEW h \in Hooks
             PROVE  (ListedIsWhole(h) /\ LoadInv(h) /\ OpenedInv(h))'
  BY DEF LoadsInv
<1>2. ListedIsWhole(h) /\ LoadInv(h) /\ OpenedInv(h)
  BY DEF LoadsInv
<1>3. UNCHANGED <<hpc, listed, todo, packs, failOpen>> /\ exchanged \subseteq exchanged'
  BY <1>1 DEF SeenOfUpdates, hookVars, SeenByLoads
<1>4. listed[h] \in Trees =>
         release'[listed[h]] = release[listed[h]]
         /\ (listed[h] \in Updates => upc'[listed[h]] # "start")
  BY <1>1, <1>2 DEF SeenOfUpdates, ListedIsWhole
<1>5. ListedIsWhole(h)'
  BY <1>2, <1>3, <1>4 DEF ListedIsWhole, ArchiveAccepted
<1>6. LoadInv(h)'
  BY <1>1, <1>2, <1>3, TreesAssumption DEF LoadInv, SeenOfUpdates, SeenByLoads, Trees
<1>7. \A n \in AllNames : Loaded(h, n) => Loaded(h, n)'
  BY <1>1, <1>3 DEF SeenOfUpdates, Loaded
<1>8. OpenedInv(h)'
  <2>1. listed[h] \in Trees => FileNames(release[listed[h]]) \subseteq AllNames
    BY DEF IInv, TypeOK, AllNames
  <2>2. Opened(h)' = Opened(h)
    BY <1>3, <1>4 DEF Opened
  <2> QED
    BY <1>2, <1>3, <1>4, <1>7, <2>1, <2>2 DEF OpenedInv
<1> QED
  BY <1>5, <1>6, <1>8

(* A hook's step leaves the loads of the others alone.                     *)
LEMMA OtherLoads ==
    ASSUME LoadsInv, IInv, NEW h \in Hooks, HookStep(h), NEW g \in Hooks \ {h}
    PROVE  (ListedIsWhole(g) /\ LoadInv(g) /\ OpenedInv(g))'
<1>1. /\ UNCHANGED <<active, release, upc>>
      /\ UNCHANGED <<hpc[g], listed[g], todo[g], packs[g]>>
      /\ g \in failOpen <=> g \in failOpen'
      /\ g \in exchanged <=> g \in exchanged'
  BY DEF HookStep, List, Open, Exit, paths, IInv, TypeOK
<1>2. ListedIsWhole(g) /\ LoadInv(g) /\ OpenedInv(g)
  BY DEF LoadsInv
<1>3. ListedIsWhole(g)' /\ LoadInv(g)'
  BY <1>1, <1>2 DEF ListedIsWhole, LoadInv, ArchiveAccepted
<1>4. Opened(g)' = Opened(g) /\ \A n : Loaded(g, n)' = Loaded(g, n)
  BY <1>1 DEF Opened, Loaded
<1> QED
  BY <1>1, <1>2, <1>3, <1>4 DEF OpenedInv

LEMMA ListKeepsLoad ==
    ASSUME LoadsInv, IInv, NEW h \in Hooks, List(h)
    PROVE  (ListedIsWhole(h) /\ LoadInv(h) /\ OpenedInv(h))'
<1>1. /\ UNCHANGED <<active, release, upc>>
      /\ hpc'[h] = (IF active = NoTree THEN "loaded" ELSE "loading")
      /\ listed'[h] = active /\ packs'[h] = NoPacks
      /\ todo'[h] = (IF active = NoTree THEN {} ELSE FileNames(release[active]))
      /\ h \notin failOpen' /\ h \notin exchanged'
  BY DEF List, paths, IInv, TypeOK
<1>2. active \in Trees \cup {NoTree} /\ NoTree \notin Trees
  BY TreesAssumption DEF IInv, TypeOK, Trees
<1>3. ListedIsWhole(h)'
  <2>1. active \in Trees => ArchiveAccepted(release[active])
    BY DEF IInv, PlacedIsAccepted, Unplaced
  <2>2. active \in Updates => upc[active] # "start"
    BY DEF IInv, StagedByPhase, Unplaced
  <2> QED
    BY <1>1, <2>1, <2>2 DEF ListedIsWhole, ArchiveAccepted
<1>4. LoadInv(h)'
  BY <1>1, <1>2 DEF LoadInv
<1>5. OpenedInv(h)'
  BY <1>1, <1>2 DEF OpenedInv, Opened, NoPacks
<1> QED
  BY <1>3, <1>4, <1>5

(* A manifest's id is one of the packs there may be.                       *)
LEMMA IdType ==
    ASSUME NEW r \in Releases, NEW n \in FileNames(r)
    PROVE  IdOf(r, n) \in PackIds(r) /\ IdOf(r, n) \in AllIds
<1>1. \E m \in Manifests(r) : m.name = n
  BY DEF FileNames
<1>2. IdOf(r, n) \in PackIds(r)
  BY <1>1 DEF IdOf, PackIds
<1> QED
  BY <1>2 DEF AllIds

LEMMA OpenKeepsLoad ==
    ASSUME LoadsInv, IInv, NEW h \in Hooks, Open(h)
    PROVE  (ListedIsWhole(h) /\ LoadInv(h) /\ OpenedInv(h))'
<1>1. /\ UNCHANGED <<active, release, upc, listed, exchanged>>
      /\ hpc[h] = "loading"
      /\ hpc'[h] = (IF todo'[h] = {} THEN "loaded" ELSE "loading")
  BY DEF Open, paths, IInv, TypeOK
<1>2. ListedIsWhole(h) /\ LoadInv(h) /\ OpenedInv(h)
  BY DEF LoadsInv
<1>3. /\ listed[h] \in Trees /\ active \in Trees
      /\ release[listed[h]] \in Releases /\ release[active] \in Releases
      /\ packs[h] \in [AllIds -> Trees \cup {NoTree}]
  BY <1>1, <1>2 DEF LoadInv, IInv, TypeOK
<1>4. ListedIsWhole(h)'
  BY <1>1, <1>2 DEF ListedIsWhole, ArchiveAccepted
<1>5. PICK n \in todo[h] :
        IF n \in FileNames(release[active])
        THEN /\ todo' = [todo EXCEPT ![h] = @ \ {n}]
             /\ packs' = [packs EXCEPT ![h][IdOf(release[active], n)] = active]
             /\ UNCHANGED failOpen
        ELSE /\ todo' = [todo EXCEPT ![h] = {}]
             /\ failOpen' = failOpen \cup {h}
             /\ UNCHANGED packs
  BY DEF Open
<1>6. n \in FileNames(release[listed[h]])
  BY <1>1, <1>2, <1>3 DEF OpenedInv
<1>7. CASE n \notin FileNames(release[active])
  <2>1. h \in exchanged
    BY <1>1, <1>2, <1>6, <1>7 DEF LoadInv
  <2>2. todo'[h] = {} /\ h \in failOpen'
    BY <1>5, <1>7 DEF IInv, TypeOK
  <2> QED
    BY <1>1, <1>2, <1>4, <2>1, <2>2 DEF LoadInv, OpenedInv
<1>8. CASE n \in FileNames(release[active])
  <2> DEFINE id == IdOf(release[active], n)
  <2>1. /\ todo'[h] = todo[h] \ {n} /\ UNCHANGED failOpen
        /\ id \in AllIds
        /\ packs'[h] = [packs[h] EXCEPT ![id] = active]
    BY <1>3, <1>5, <1>8, IdType DEF IInv, TypeOK
  <2>2. LoadInv(h)'
    BY <1>1, <1>2, <2>1 DEF LoadInv
  <2>3. ASSUME h \notin exchanged PROVE packs'[h] = Opened(h)'
    <3>1. active = listed[h]
      BY <1>1, <1>2, <2>3 DEF LoadInv
    <3>2. packs[h] = Opened(h)
      BY <1>1, <1>2, <2>3 DEF OpenedInv
    <3> QED
      BY <1>1, <1>3, <1>6, <2>1, <3>1, <3>2 DEF Opened
  <2>4. ASSUME h \notin failOpen, NEW m \in FileNames(release[listed[h]]) \ (todo[h] \ {n})
        PROVE  Loaded(h, m)'
    <3>1. CASE m = n
      <4>1. active \in Updates => upc[active] # "start"
        BY DEF IInv, StagedByPhase, Unplaced
      <4>2. packs'[h][id] \in Trees
        BY <1>3, <2>1
      <4> QED
        BY <1>1, <1>3, <1>8, <3>1, <4>1, <4>2 DEF Loaded
    <3>2. CASE m # n
      <4>1. Loaded(h, m)
        BY <1>1, <1>2, <1>3, <2>4, <3>2 DEF OpenedInv
      <4>2. PICK t \in Trees : /\ t \in Updates => upc[t] # "start"
                               /\ m \in FileNames(release[t])
                               /\ packs[h][IdOf(release[t], m)] \in Trees
        BY <4>1 DEF Loaded
      <4>3. IdOf(release[t], m) \in AllIds
        BY <4>2, IdType DEF IInv, TypeOK
      <4>4. packs'[h][IdOf(release[t], m)] \in Trees
        BY <1>3, <2>1, <4>2, <4>3
      <4> QED
        BY <1>1, <4>2, <4>4 DEF Loaded
    <3> QED
      BY <3>1, <3>2
  <2>5. OpenedInv(h)'
    BY <1>1, <1>2, <1>3, <2>1, <2>3, <2>4 DEF OpenedInv
  <2> QED
    BY <1>4, <2>2, <2>5
<1> QED
  BY <1>7, <1>8

LEMMA ExitKeepsLoad ==
    ASSUME LoadsInv, IInv, NEW h \in Hooks, Exit(h)
    PROVE  (ListedIsWhole(h) /\ LoadInv(h) /\ OpenedInv(h))'
<1>1. hpc'[h] = "idle" /\ listed'[h] = NoTree /\ h \notin failOpen'
  BY DEF Exit, IInv, TypeOK
<1>2. NoTree \notin Trees
  BY TreesAssumption DEF Trees
<1> QED
  BY <1>1, <1>2 DEF ListedIsWhole, LoadInv, OpenedInv

LEMMA LoadsInductive == IInv /\ LoadsInv /\ [Next]_vars => LoadsInv'
<1> SUFFICES ASSUME IInv, LoadsInv, [Next]_vars PROVE LoadsInv'
  OBVIOUS
<1>1. CASE UNCHANGED vars
  <2>1. UNCHANGED <<active, release, upc, hpc, listed, todo, packs, failOpen, exchanged>>
    BY <1>1 DEF vars, paths, hookVars
  <2> SUFFICES ASSUME NEW h \in Hooks
               PROVE  (ListedIsWhole(h) /\ LoadInv(h) /\ OpenedInv(h))'
    BY DEF LoadsInv
  <2>2. ListedIsWhole(h) /\ LoadInv(h) /\ OpenedInv(h)
    BY DEF LoadsInv
  <2>3. Opened(h)' = Opened(h) /\ \A n : Loaded(h, n)' = Loaded(h, n)
    BY <2>1 DEF Opened, Loaded
  <2> QED
    BY <2>1, <2>2, <2>3 DEF ListedIsWhole, LoadInv, OpenedInv, ArchiveAccepted
<1>2. CASE \E u \in Updates : UpdateStep(u)
  BY <1>2, UpdateKeepsLoads
<1>3. ASSUME NEW h \in Hooks, HookStep(h) PROVE LoadsInv'
  <2>1. (ListedIsWhole(h) /\ LoadInv(h) /\ OpenedInv(h))'
    BY <1>3, ListKeepsLoad, OpenKeepsLoad, ExitKeepsLoad DEF HookStep
  <2>2. ASSUME NEW g \in Hooks, g # h
        PROVE  (ListedIsWhole(g) /\ LoadInv(g) /\ OpenedInv(g))'
    BY <1>3, <2>2, OtherLoads
  <2> QED
    BY <2>1, <2>2 DEF LoadsInv
<1> QED
  BY <1>1, <1>2, <1>3 DEF Next, UpdateStep, HookStep

(* The manifests of an accepted archive carry an id each.                  *)
LEMMA IdsAreOpened ==
    ASSUME NEW r \in Releases, ArchiveAccepted(r)
    PROVE  PackIds(r) = {IdOf(r, n) : n \in FileNames(r)}
<1>1. \A m1 \in Manifests(r) : \A m2 \in Manifests(r) : m1.name = m2.name => m1 = m2
  BY DEF Manifests, ArchiveAccepted
<1>2. \A m \in Manifests(r) : IdOf(r, m.name) = m.id
  BY <1>1 DEF IdOf
<1> QED
  BY <1>2 DEF PackIds, FileNames

(* A load that no exchange meets ends with exactly the packs of one tree,  *)
(* and one that an exchange meets is never silently short (engine.rs,      *)
(* load_packs_from_dir_inner).                                             *)
THEOREM LoadsWhole == Spec => []LoadsAreWhole
<1>1. Init => LoadsInv
  BY TreesAssumption DEF Init, LoadsInv, ListedIsWhole, LoadInv, OpenedInv, Trees
<1>2. IInv /\ LoadsInv => LoadsAreWhole
  <2> SUFFICES ASSUME IInv, LoadsInv, NEW h \in Hooks, hpc[h] = "loaded"
               PROVE  /\ h \notin exchanged \cup failOpen =>
                           packs[h] = [i \in AllIds |->
                               IF listed[h] # NoTree /\ i \in PackIds(release[listed[h]])
                               THEN listed[h] ELSE NoTree]
                      /\ h \in failOpen => h \in exchanged
                      /\ h \notin failOpen /\ listed[h] # NoTree =>
                           \A n \in FileNames(release[listed[h]]) :
                              \E t \in Trees : /\ n \in FileNames(release[t])
                                               /\ packs[h][IdOf(release[t], n)] \in Trees
    BY DEF LoadsAreWhole
  <2>1. ListedIsWhole(h) /\ LoadInv(h) /\ OpenedInv(h)
    BY DEF LoadsInv
  <2>2. /\ NoTree \notin Trees
        /\ listed[h] = NoTree \/ (listed[h] \in Trees /\ release[listed[h]] \in Releases)
    BY TreesAssumption DEF IInv, TypeOK, Trees
  <2>3. todo[h] = {}
    BY <2>1 DEF LoadInv
  <2>4. listed[h] \in Trees =>
           PackIds(release[listed[h]]) = {IdOf(release[listed[h]], n) : n \in FileNames(release[listed[h]])}
    BY <2>1, <2>2, IdsAreOpened DEF ListedIsWhole
  <2>5. h \notin exchanged => packs[h] = Opened(h)
    BY <2>1 DEF OpenedInv
  <2>6. Opened(h) = [i \in AllIds |->
                        IF listed[h] # NoTree /\ i \in PackIds(release[listed[h]])
                        THEN listed[h] ELSE NoTree]
    BY <2>2, <2>3, <2>4 DEF Opened
  <2>7. h \in failOpen => h \in exchanged
    BY <2>1 DEF LoadInv
  <2>8. h \notin failOpen /\ listed[h] # NoTree =>
           \A n \in FileNames(release[listed[h]]) : Loaded(h, n)
    BY <2>1, <2>2, <2>3 DEF OpenedInv
  <2> QED
    BY <2>5, <2>6, <2>7, <2>8 DEF Loaded
<1> QED
  BY <1>1, <1>2, LoadsInductive, InvariantCorrect, PTL DEF Spec

(* The active directory and every load from it are whole (update.rs,       *)
(* engine.rs).                                                             *)
THEOREM PacksWhole == Spec => []PacksAreWhole
BY ActiveWhole, LoadsWhole, PTL DEF PacksAreWhole

-----------------------------------------------------------------------------
(* The parts of a deployment.                                              *)

(* A step of one part is a step of it or a stutter of every other one.     *)
LEMMA StepOfParts ==
    ASSUME [DeploymentNext]_deploymentVars
    PROVE  [Next]_vars /\ [Harness!Next]_Harness!vars /\ [Wrapper!Next]_Wrapper!vars
BY DEF DeploymentNext, deploymentVars, harnessVars, wrapperVars, Harness!vars, Wrapper!vars

(* Every behaviour of the deployment is one of each of its parts.          *)
THEOREM ImplementsParts == DeploymentSpec => Spec /\ Harness!Spec /\ Wrapper!Spec
<1>1. DeploymentInit => Init /\ Harness!Init /\ Wrapper!Init
  BY DEF DeploymentInit
<1>2. [DeploymentNext]_deploymentVars =>
         [Next]_vars /\ [Harness!Next]_Harness!vars /\ [Wrapper!Next]_Wrapper!vars
  BY StepOfParts
<1> QED
  BY <1>1, <1>2, PTL DEF DeploymentSpec, Spec, Harness!Spec, Wrapper!Spec

(* Whatever else is deployed, the pack directory keeps its promises.       *)
THEOREM DeployedPacks ==
    DeploymentSpec => [](PacksAreWhole /\ TreesAreAccountedFor)
BY ImplementsParts, PacksWhole, TreesAccounted, PTL

-----------------------------------------------------------------------------
(* The wrapper links: what an installer at work owes.                      *)

(* While it works, an installer has linked what is neither pending nor     *)
(* failed; what it has not listed does not exist, but may be a dangling    *)
(* link, and such a link is all that fails without a trouble.              *)
InstallGoesOn ==
    /\ pending \subseteq Wrapper!Shadowed
    /\ \A t \in Wrapper!Shadowed \ touched : t \in pending \cup failed \/ links[t] = "icg"
    /\ \A t \in pending \ touched : t \notin found => links[t] \in {"absent", "dangling"}
    /\ wpc = "link" => current \in pending
                       /\ (current \notin touched => links[current] \in {"absent", "dangling"})
    /\ troubles = 0 => \A t \in failed \ touched : links[t] = "dangling"

(* An uninstaller's pending links are still ICG's, and no others are.      *)
UninstallGoesOn ==
    /\ wpc # "link"
    /\ \A t \in pending \ touched : links[t] = "icg"
    /\ \A t \in Tools \ touched : t \in pending \cup failed \/ links[t] # "icg"
    /\ troubles = 0 => failed \subseteq touched

WrapperWorks ==
    wpc # "idle" =>
        /\ outcome = "none"
        /\ pending \cap failed = {}
        /\ wop = "install" => InstallGoesOn
        /\ wop = "uninstall" => UninstallGoesOn

WrapperInv == Wrapper!TypeOK /\ WrapperWorks /\ Wrapper!WrapperReportIsTrue

-----------------------------------------------------------------------------
LEMMA WrapperTypes ==
    ASSUME Wrapper!ToolsAreKnown, Wrapper!TypeOK, [Wrapper!Next]_Wrapper!vars
    PROVE  Wrapper!TypeOK'
<1> USE DEF Wrapper!ToolsAreKnown, Wrapper!TypeOK
<1>1. CASE UNCHANGED Wrapper!vars
  BY <1>1 DEF Wrapper!vars
<1>2. CASE \E forced \in BOOLEAN : Wrapper!StartInstall(forced) \/ Wrapper!StartUninstall(forced)
  BY <1>2 DEF Wrapper!StartInstall, Wrapper!StartUninstall, Wrapper!Begin, Wrapper!Shadowed
<1>3. CASE Wrapper!Answer \/ Wrapper!Report \/ Wrapper!KillRun
  BY <1>3 DEF Wrapper!Answer, Wrapper!Report, Wrapper!KillRun, Wrapper!End, Wrapper!Trouble
<1>4. CASE Wrapper!Link
  BY <1>4 DEF Wrapper!Link, Wrapper!Handled, Wrapper!Trouble, Wrapper!Files
<1>5. CASE \E t \in Tools : Wrapper!Clear(t) \/ Wrapper!Unlink(t)
  BY <1>5 DEF Wrapper!Clear, Wrapper!Unlink, Wrapper!Removed, Wrapper!Handled, Wrapper!End, Wrapper!Trouble, Wrapper!Files
<1>6. CASE \E t \in Tools, file \in {"absent", "other"} : Wrapper!Replace(t, file)
  BY <1>6 DEF Wrapper!Replace, Wrapper!Files
<1>7. CASE \E left \in {"dangling", "other"} : Wrapper!MoveBinary(left)
  BY <1>7 DEF Wrapper!MoveBinary, Wrapper!Files
<1> QED
  BY <1>1, <1>2, <1>3, <1>4, <1>5, <1>6, <1>7 DEF Wrapper!Next

LEMMA WrapperReports ==
    ASSUME Wrapper!ToolsAreKnown, WrapperInv, [Wrapper!Next]_Wrapper!vars
    PROVE  (WrapperWorks /\ Wrapper!WrapperReportIsTrue)'
<1> USE DEF WrapperInv, Wrapper!TypeOK, WrapperWorks, InstallGoesOn, UninstallGoesOn, Wrapper!WrapperReportIsTrue
<1>1. CASE UNCHANGED Wrapper!vars
  BY <1>1 DEF Wrapper!vars
<1>2. CASE \E forced \in BOOLEAN : Wrapper!StartInstall(forced)
  BY <1>2 DEF Wrapper!StartInstall, Wrapper!Begin, Wrapper!Shadowed, Wrapper!Exists, Wrapper!Files
<1>3. CASE \E forced \in BOOLEAN : Wrapper!StartUninstall(forced)
  BY <1>3 DEF Wrapper!StartUninstall, Wrapper!Begin
<1>4. CASE Wrapper!Answer
  BY <1>4 DEF Wrapper!Answer, Wrapper!End
<1>5. CASE Wrapper!Link
  <2>1. /\ wpc = "link" /\ wpc' = "work" /\ pending' = pending \ {current}
        /\ UNCHANGED <<wop, force, found, current, outcome, touched, unlisted>>
        /\ \/ links[current] = "absent" /\ links' = [links EXCEPT ![current] = "icg"]
              /\ UNCHANGED <<failed, troubles>>
           \/ failed' = failed \cup {current} /\ links[current] # "absent"
              /\ UNCHANGED <<links, troubles>>
           \/ failed' = failed \cup {current} /\ troubles' # 0
              /\ UNCHANGED links
    BY <1>5 DEF Wrapper!Link, Wrapper!Handled, Wrapper!Trouble
  <2>2. wop = "install" /\ InstallGoesOn /\ outcome = "none" /\ pending \cap failed = {}
    BY <2>1
  <2>3. links \in [Tools -> Wrapper!Files] /\ current \in Tools
    OBVIOUS
  <2>4. \A t \in Wrapper!Shadowed \ touched' : t \in (pending \cup failed)' \/ links'[t] = "icg"
    BY <2>1, <2>2, <2>3 DEF Wrapper!Shadowed
  <2>5. \A t \in (pending \ touched)' : t \notin found' => links'[t] \in {"absent", "dangling"}
    BY <2>1, <2>2, <2>3 DEF Wrapper!Shadowed
  <2>6. troubles' = 0 => \A t \in (failed \ touched)' : links'[t] = "dangling"
    BY <2>1, <2>2, <2>3
  <2>7. pending' \subseteq Wrapper!Shadowed /\ pending' \cap failed' = {}
    BY <2>1, <2>2
  <2> QED
    BY <2>1, <2>2, <2>4, <2>5, <2>6, <2>7
<1>6. CASE Wrapper!Report \/ Wrapper!KillRun
  BY <1>6 DEF Wrapper!Report, Wrapper!KillRun, Wrapper!End, Wrapper!Trouble, Wrapper!Shadowed
<1>7. ASSUME NEW t \in Tools, Wrapper!Clear(t) PROVE (WrapperWorks /\ Wrapper!WrapperReportIsTrue)'
  <2>1. /\ wop = "install" /\ wpc = "work" /\ t \in pending
        /\ UNCHANGED <<wop, force, found, pending, failed, touched>> /\ current' = t
        /\ \/ /\ wpc' = "link" /\ UNCHANGED <<outcome, troubles>>
              /\ \/ ~Wrapper!Exists(t) /\ UNCHANGED <<links, unlisted>>
                 \/ Wrapper!Removed(t) /\ Wrapper!Exists(t)
           \/ troubles' # 0 /\ Wrapper!End("aborted") /\ UNCHANGED <<links, unlisted>>
    BY <1>7 DEF Wrapper!Clear, Wrapper!Trouble
  <2>2. InstallGoesOn /\ outcome = "none" /\ pending \cap failed = {}
    BY <2>1
  <2>3. ASSUME wpc' = "link" PROVE InstallGoesOn'
    <3>1. /\ UNCHANGED <<troubles, failed, pending, touched, found>>
          /\ \/ UNCHANGED links /\ links[t] \in {"absent", "dangling"}
             \/ links' = [links EXCEPT ![t] = "absent"] /\ links \in [Tools -> Wrapper!Files]
      BY <2>1, <2>3 DEF Wrapper!Removed, Wrapper!Exists, Wrapper!End, Wrapper!Files
    <3>2. troubles' = 0 => \A q \in (failed \ touched)' : links'[q] = "dangling"
      BY <2>1, <2>2, <3>1
    <3>3. \A q \in Wrapper!Shadowed \ touched' : q \in (pending \cup failed)' \/ links'[q] = "icg"
      BY <2>1, <2>2, <3>1 DEF Wrapper!Shadowed
    <3>4. \A q \in (pending \ touched)' : q \notin found' => links'[q] \in {"absent", "dangling"}
      BY <2>2, <3>1 DEF Wrapper!Shadowed
    <3> QED
      BY <2>1, <2>2, <3>1, <3>2, <3>3, <3>4
  <2>4. unlisted' \subseteq touched'
    BY <2>1, <2>2 DEF Wrapper!Removed
  <2> QED
    BY <2>1, <2>2, <2>3, <2>4 DEF Wrapper!End
<1>8. ASSUME NEW t \in Tools, Wrapper!Unlink(t) PROVE (WrapperWorks /\ Wrapper!WrapperReportIsTrue)'
  BY <1>8 DEF Wrapper!Unlink, Wrapper!Removed, Wrapper!Handled, Wrapper!Trouble
<1>9. ASSUME NEW t \in Tools, NEW file \in {"absent", "other"}, Wrapper!Replace(t, file)
      PROVE (WrapperWorks /\ Wrapper!WrapperReportIsTrue)'
  BY <1>9 DEF Wrapper!Replace
<1>10. CASE \E left \in {"dangling", "other"} : Wrapper!MoveBinary(left)
  BY <1>10 DEF Wrapper!MoveBinary
<1> QED
  BY <1>1, <1>2, <1>3, <1>4, <1>5, <1>6, <1>7, <1>8, <1>9, <1>10 DEF Wrapper!Next

(* A successful install has linked every keyword and a successful          *)
(* uninstall has removed every link it listed, others' changes aside; only *)
(* a dangling link makes an undisturbed install fail; and no file of       *)
(* somebody else goes unlisted (documented_commands.rs, run_install and    *)
(* run_uninstall).                                                         *)
THEOREM DeployedWrappers == DeploymentSpec => []WrapperReportIsTrue
<1> USE WrapperAssumption
<1>1. Wrapper!Init => WrapperInv
  <2>1. ASSUME Wrapper!Init PROVE Wrapper!TypeOK
    <3>1. current \in Tools
      BY <2>1 DEF Wrapper!ToolsAreKnown, Wrapper!Init
    <3>2. troubles \in 0..MaxCalls
      BY <2>1 DEF Wrapper!ToolsAreKnown, Wrapper!Init
    <3>3. {found, pending, failed} \subseteq SUBSET Tools
      BY <2>1 DEF Wrapper!Init
    <3>4. touched \subseteq Tools /\ unlisted \subseteq Tools /\ force \in BOOLEAN
      BY <2>1 DEF Wrapper!Init
    <3>5. links \in [Tools -> Wrapper!Files] /\ wop = "install" /\ wpc = "idle" /\ outcome = "none"
      BY <2>1 DEF Wrapper!Init
    <3> QED
      BY <3>1, <3>2, <3>3, <3>4, <3>5 DEF Wrapper!TypeOK
  <2> QED
    BY <2>1 DEF Wrapper!Init, WrapperInv, WrapperWorks, Wrapper!WrapperReportIsTrue
<1>2. WrapperInv /\ [Wrapper!Next]_Wrapper!vars => WrapperInv'
  BY WrapperTypes, WrapperReports DEF WrapperInv
<1>3. WrapperInv => WrapperReportIsTrue
  BY DEF WrapperInv, WrapperReportIsTrue
<1> QED
  BY <1>1, <1>2, <1>3, ImplementsParts, PTL DEF Wrapper!Spec

-----------------------------------------------------------------------------
(* Retaining some places of a sequence.                                    *)

(* A set of places has a first one.                                        *)
LEMMA Least ==
    ASSUME NEW S \in SUBSET Nat, S # {}
    PROVE  Min(S) \in S /\ \A m \in S : Min(S) <= m
<1>1. IsWellFoundedOn(OpToRel(<, Nat), Nat)
  BY NatLessThanWellFounded
<1>2. PICK n \in S : \A m \in S : ~ (<<m, n>> \in OpToRel(<, Nat))
  BY <1>1, WFMin
<1>3. \A m \in S : ~ (m < n)
  BY <1>2 DEF OpToRel
<1>4. \A m \in S : n <= m
  BY <1>3
<1> QED
  BY <1>4 DEF Min

(* The members of a set of places are numbered in their order.             *)
LEMMA Numbered ==
    ASSUME NEW N \in Nat, NEW P \in SUBSET (1..N)
    PROVE  /\ Cardinality(P) \in Nat
           /\ \A n \in 1..Cardinality(P) : \E k \in P : Cardinality(P \cap (1..k)) = n
<1>1. \A k \in Nat : IsFiniteSet(1..k)
  BY FS_Interval
<1>2. IsFiniteSet(P) /\ Cardinality(P) \in Nat
  BY <1>1, FS_Subset, FS_CardinalityType
<1>3. \A k \in Nat : IsFiniteSet(P \cap (1..k)) /\ Cardinality(P \cap (1..k)) \in Nat
  <2> TAKE k \in Nat
  <2>1. P \cap (1..k) \in SUBSET (1..k)
    OBVIOUS
  <2> QED
    BY <1>1, <2>1, FS_Subset, FS_CardinalityType
<1>4. ASSUME NEW n \in 1..Cardinality(P) PROVE \E k \in P : Cardinality(P \cap (1..k)) = n
  <2> DEFINE count(k) == Cardinality(P \cap (1..k))
             enough == {k \in 0..N : count(k) >= n}
  <2>1. count(N) = Cardinality(P)
    <3>1. P \cap (1..N) = P
      OBVIOUS
    <3> QED
      BY <3>1
  <2>2. count(0) = 0
    <3>1. P \cap (1..0) = {}
      OBVIOUS
    <3> QED
      BY <3>1, FS_EmptySet
  <2>3. \A k \in Nat : count(k) \in Nat
    BY <1>3
  <2>4. \A k \in Nat \ {0} : IF k \in P THEN count(k) = count(k - 1) + 1 ELSE count(k) = count(k - 1)
    <3> TAKE k \in Nat \ {0}
    <3>1. CASE k \in P
      <4>1. P \cap (1..k) = (P \cap (1..(k - 1))) \cup {k} /\ k \notin P \cap (1..(k - 1))
        BY <3>1
      <4>2. IsFiniteSet(P \cap (1..(k - 1)))
        BY <1>3
      <4> QED
        BY <3>1, <4>1, <4>2, FS_AddElement
    <3>2. CASE k \notin P
      <4>1. P \cap (1..k) = P \cap (1..(k - 1))
        BY <3>2
      <4> QED
        BY <3>2, <4>1
    <3> QED
      BY <3>1, <3>2
  <2> HIDE DEF count
  <2>5. N \in enough /\ enough \in SUBSET Nat
    BY <1>2, <2>1
  <2>6. Min(enough) \in enough /\ \A m \in enough : Min(enough) <= m
    BY <2>5, Least
  <2> DEFINE k == Min(enough)
  <2>7. k \in 0..N /\ count(k) >= n /\ \A m \in enough : k <= m
    BY <2>6
  <2> HIDE DEF k
  <2>8. k # 0
    BY <2>2, <2>7
  <2>9. k - 1 \in 0..N /\ k - 1 \notin enough
    BY <2>7, <2>8
  <2>10. count(k - 1) < n /\ count(k - 1) \in Nat
    BY <2>3, <2>9
  <2>11. k \in P /\ count(k) = n
    BY <2>3, <2>4, <2>7, <2>8, <2>10
  <2> QED
    BY <2>11 DEF count
<1> QED
  BY <1>2, <1>4

LEMMA SameCardinality == \A S : Harness!Cardinality(S) = Cardinality(S)
BY DEF Harness!Cardinality, Cardinality

LEMMA ToSetIs == \A s : Harness!ToSet(s) = {s[i] : i \in DOMAIN s}
BY DEF Harness!ToSet

(* What is retained is what is at the places.                              *)
LEMMA RetainedIs ==
    ASSUME NEW S, NEW s \in Seq(S), NEW places \in SUBSET (DOMAIN s)
    PROVE  LET kept == Harness!Retained(s, places)
           IN /\ kept \in Seq(S)
              /\ \A n \in DOMAIN kept : \E k \in places : kept[n] = s[k]
              /\ \A k \in places : \E n \in DOMAIN kept : kept[n] = s[k]
<1> DEFINE number(k) == Cardinality(places \cap (1..k))
           place(n) == CHOOSE k \in places : number(k) = n
           all == Cardinality(places)
           kept == Harness!Retained(s, places)
<1>1. kept = [n \in 1..all |-> s[place(n)]]
  BY DEF Harness!Retained, Harness!Cardinality, Cardinality
<1>2. Len(s) \in Nat /\ places \in SUBSET (1..Len(s)) /\ \A k \in 1..Len(s) : s[k] \in S
  OBVIOUS
<1>3. all \in Nat /\ \A n \in 1..all : \E k \in places : number(k) = n
  BY <1>2, Numbered
<1>4. \A n \in 1..all : place(n) \in places /\ number(place(n)) = n
  BY <1>3
<1>5. \A k \in places : number(k) \in 1..all
  <2> SUFFICES ASSUME NEW k \in places PROVE number(k) \in 1..all
    OBVIOUS
  <2>1. IsFiniteSet(places)
    BY <1>2, FS_Interval, FS_Subset
  <2>2. places \cap (1..k) \in SUBSET places
    OBVIOUS
  <2>3. IsFiniteSet(places \cap (1..k)) /\ number(k) <= all /\ number(k) \in Nat
    BY <2>1, <2>2, FS_Subset, FS_CardinalityType
  <2>4. k \in places \cap (1..k)
    BY <1>2
  <2>5. number(k) # 0
    BY <2>3, <2>4, FS_EmptySet
  <2> QED
    BY <1>3, <2>3, <2>5
<1>6. \A j, k \in places : number(j) = number(k) => j = k
  <2>1. \A j, k \in places : j < k => number(j) # number(k)
    <3> SUFFICES ASSUME NEW j \in places, NEW k \in places, j < k PROVE number(j) # number(k)
      OBVIOUS
    <3>1. IsFiniteSet(places \cap (1..k))
      BY <1>2, FS_Interval, FS_Subset
    <3>2. places \cap (1..j) \in SUBSET (places \cap (1..k))
      BY <1>2
    <3>3. k \in places \cap (1..k) /\ k \notin places \cap (1..j)
      BY <1>2
    <3> QED
      BY <3>1, <3>2, <3>3, FS_Subset
  <2> HIDE DEF number
  <2>2. \A j, k \in places : j # k => j < k \/ k < j
    BY <1>2
  <2> QED
    BY <2>1, <2>2
<1> HIDE DEF number, place, all
<1>7. \A k \in places : place(number(k)) = k
  BY <1>4, <1>5, <1>6
<1> HIDE DEF kept
<1>8. kept \in Seq(S) /\ DOMAIN kept = 1..all
  BY <1>1, <1>2, <1>3, <1>4
<1>9. \A k \in places : kept[number(k)] = s[k]
  BY <1>1, <1>5, <1>7
<1>10. \A n \in 1..all : kept[n] = s[place(n)]
  BY <1>1
<1> QED
  BY <1>4, <1>5, <1>8, <1>9, <1>10 DEF kept

-----------------------------------------------------------------------------
(* The harness installers.                                                 *)

HookEntries == IcgEntries \cup ForeignEntries
Fields == [array : BOOLEAN, groups : Seq(Seq(HookEntries))]
ConfigFiles(k) ==
    {Harness!Absent, Harness!Blank} \cup
    (IF k = "opencode" THEN {Harness!Plugin(v) : v \in {"foreign", "old", "current"}}
     ELSE {Harness!Broken} \cup {Harness!Document(c, ev) : c \in BOOLEAN, ev \in [Harness!Events(k) -> Fields]})

HarnessTypes ==
    /\ kind \in Harness!Kinds
    /\ {target, backup, existing, merged} \subseteq ConfigFiles(kind)
    /\ ipc \in {"idle", "backup", "fillBackup", "open", "fill", "remove"}
    /\ cuts \in Nat /\ raced \in BOOLEAN
    /\ owned \subseteq ForeignEntries /\ late \subseteq ForeignEntries

(* What the file holds, or will when the write that has begun ends.        *)
Promised == IF ipc = "fill" THEN merged ELSE target

(* A run that nobody meets works from what is in the file, and writes the  *)
(* foreign entries it has read there.                                      *)
RunIsFaithful ==
    /\ ipc = "backup" => backup = Harness!Absent
    /\ ipc = "fillBackup" => backup = Harness!Blank
    /\ ~raced /\ ipc \in {"backup", "fillBackup", "open"} =>
         existing = target /\ Harness!Foreign(merged) = Harness!Foreign(target)
    /\ ~raced /\ ipc = "remove" => Harness!Foreign(target) = {}

(* Before anything is cut short the file holds what the user put there,    *)
(* and once a backup is complete, or was not due, it or the later          *)
(* additions have it as well.                                              *)
NothingIsLost ==
    cuts = 0 /\ ~raced =>
        /\ Harness!Foreign(Promised) = owned
        /\ ipc \in {"open", "fill"} \/ (ipc \in {"idle", "remove"} /\ backup # Harness!Absent) =>
             owned \subseteq Harness!Foreign(backup) \cup late

(* After one cut what the user put there is in the file, in its backup or  *)
(* was added later.                                                        *)
OneCutIsSurvived ==
    cuts <= 1 /\ ~raced =>
        owned \subseteq Harness!Foreign(Promised) \cup Harness!Foreign(backup) \cup late

HarnessInv == HarnessTypes /\ RunIsFaithful /\ NothingIsLost /\ OneCutIsSurvived

(* The entries of some groups.                                             *)
Held(groups) == UNION {Harness!ToSet(groups[i]) : i \in DOMAIN groups}
Groups == Seq(Seq(HookEntries))

LEMMA HeldIs ==
    \A groups : \A x : x \in Held(groups) <=> \E i \in DOMAIN groups : \E j \in DOMAIN groups[i] : x = groups[i][j]
BY ToSetIs DEF Held

(* What survives of a group is in it and is not ICG's, and all of that     *)
(* survives.                                                               *)
LEMMA SurvivingIs ==
    ASSUME NEW group \in Seq(HookEntries)
    PROVE  /\ Harness!Surviving(group) \in Seq(HookEntries)
           /\ Harness!ToSet(Harness!Surviving(group)) = Harness!ToSet(group) \ IcgEntries
<1> DEFINE places == {k \in DOMAIN group : group[k] \notin IcgEntries}
           kept == Harness!Retained(group, places)
<1>1. Harness!Surviving(group) = kept
  BY DEF Harness!Surviving
<1>2. /\ kept \in Seq(HookEntries)
      /\ \A n \in DOMAIN kept : \E k \in places : kept[n] = group[k]
      /\ \A k \in places : \E n \in DOMAIN kept : kept[n] = group[k]
  <2>1. places \in SUBSET (DOMAIN group)
    OBVIOUS
  <2> HIDE DEF places
  <2> QED
    BY <2>1, RetainedIs
<1> HIDE DEF kept
<1>3. {kept[n] : n \in DOMAIN kept} = {group[k] : k \in DOMAIN group} \ IcgEntries
  BY <1>2
<1> QED
  BY <1>1, <1>2, <1>3, ToSetIs

(* A sweep takes ICG's entries and nothing else.                           *)
LEMMA SweepIs ==
    ASSUME NEW groups \in Groups
    PROVE  Harness!Sweep(groups) \in Groups /\ Held(Harness!Sweep(groups)) = Held(groups) \ IcgEntries
<1> DEFINE places == {k \in DOMAIN groups : \/ Harness!Surviving(groups[k]) = groups[k]
                                            \/ Harness!Surviving(groups[k]) # <<>>}
           kept == Harness!Retained(groups, places)
           swept == [i \in DOMAIN kept |-> Harness!Surviving(kept[i])]
<1>1. Harness!Sweep(groups) = swept
  BY DEF Harness!Sweep
<1>2. /\ kept \in Groups
      /\ \A n \in DOMAIN kept : \E k \in places : kept[n] = groups[k]
      /\ \A k \in places : \E n \in DOMAIN kept : kept[n] = groups[k]
  <2>1. places \in SUBSET (DOMAIN groups)
    OBVIOUS
  <2> HIDE DEF places
  <2> QED
    BY <2>1, RetainedIs DEF Groups
<1> HIDE DEF kept
<1>3. \A i \in DOMAIN kept : kept[i] \in Seq(HookEntries)
  BY <1>2 DEF Groups
<1>4. \A i \in DOMAIN groups : groups[i] \in Seq(HookEntries)
  BY DEF Groups
<1>5. swept \in Groups
  <2>1. \A i \in DOMAIN kept : Harness!Surviving(kept[i]) \in Seq(HookEntries)
    BY <1>3, SurvivingIs
  <2>2. Len(kept) \in Nat /\ DOMAIN kept = 1..Len(kept)
    BY <1>2 DEF Groups
  <2> QED
    BY <2>1, <2>2 DEF Groups
<1>6. ASSUME NEW x \in Held(swept) PROVE x \in Held(groups) \ IcgEntries
  <2>1. PICK i \in DOMAIN kept : x \in Harness!ToSet(Harness!Surviving(kept[i]))
    BY <1>6 DEF Held
  <2>2. x \in Harness!ToSet(kept[i]) \ IcgEntries
    BY <1>3, <2>1, SurvivingIs
  <2>3. PICK k \in places : kept[i] = groups[k]
    BY <1>2
  <2> QED
    BY <2>2, <2>3 DEF Held
<1>7. ASSUME NEW x \in Held(groups) \ IcgEntries PROVE x \in Held(swept)
  <2>1. PICK k \in DOMAIN groups : x \in Harness!ToSet(groups[k])
    BY <1>7 DEF Held
  <2>2. x \in Harness!ToSet(Harness!Surviving(groups[k]))
    BY <1>4, <1>7, <2>1, SurvivingIs
  <2>3. Harness!Surviving(groups[k]) # <<>>
    BY <2>2, ToSetIs
  <2>4. PICK n \in DOMAIN kept : kept[n] = groups[k]
    BY <1>2, <2>3
  <2> QED
    BY <2>2, <2>4 DEF Held
<1> QED
  BY <1>1, <1>5, <1>6, <1>7

(* The foreign entries of the events of a document.                        *)
ForeignIn(events) == ForeignEntries \cap UNION {Held(events[e].groups) : e \in DOMAIN events}

LEMMA FileForms ==
    /\ Harness!Absent.form = "absent" /\ Harness!Blank.form = "blank" /\ Harness!Broken.form = "broken"
    /\ \A v : Harness!Plugin(v).form = "plugin" /\ Harness!Plugin(v).version = v
    /\ \A c, events : LET d == Harness!Document(c, events)
                      IN d.form = "doc" /\ d.canonical = c /\ d.events = events
BY DEF Harness!Absent, Harness!Blank, Harness!Broken, Harness!Plugin, Harness!Document

LEMMA ForeignOf ==
    /\ \A file \in {Harness!Absent, Harness!Blank, Harness!Broken, Harness!Plugin("old"),
                    Harness!Plugin("current")} : Harness!Foreign(file) = {}
    /\ Harness!Foreign(Harness!Plugin("foreign")) = ForeignEntries
    /\ \A c, events : Harness!Foreign(Harness!Document(c, events)) = ForeignIn(events)
<1>1. \A file : file.form # "doc" /\ file # Harness!Plugin("foreign") => Harness!Foreign(file) = {}
  BY DEF Harness!Foreign, Harness!Entries
<1>2. \A file \in {Harness!Absent, Harness!Blank, Harness!Broken, Harness!Plugin("old"),
                   Harness!Plugin("current")} : file.form # "doc" /\ file # Harness!Plugin("foreign")
  <2>1. Harness!Plugin("old") # Harness!Plugin("foreign") /\ Harness!Plugin("current") # Harness!Plugin("foreign")
    BY FileForms, "old" # "foreign", "current" # "foreign"
  <2>2. \A file \in {Harness!Absent, Harness!Blank, Harness!Broken} :
          file.form # "doc" /\ file.form # Harness!Plugin("foreign").form
    BY FileForms
  <2>3. Harness!Plugin("old").form # "doc" /\ Harness!Plugin("current").form # "doc"
    BY FileForms
  <2> QED
    BY <2>1, <2>2, <2>3
<1>3. Harness!Plugin("foreign").form # "doc"
  BY FileForms
<1>4. Harness!Foreign(Harness!Plugin("foreign")) = ForeignEntries
  BY <1>3 DEF Harness!Foreign, Harness!Entries
<1>5. ASSUME NEW c, NEW events PROVE Harness!Foreign(Harness!Document(c, events)) = ForeignIn(events)
  <2>1. Harness!Entries(Harness!Document(c, events)) = UNION {Harness!EntriesOf(events[e]) : e \in DOMAIN events}
    BY FileForms DEF Harness!Entries
  <2>2. \A field : Harness!EntriesOf(field) = Held(field.groups)
    BY DEF Harness!EntriesOf, Held
  <2>3. {Harness!EntriesOf(events[e]) : e \in DOMAIN events} = {Held(events[e].groups) : e \in DOMAIN events}
    BY <2>2
  <2> QED
    BY <2>1, <2>3 DEF Harness!Foreign, ForeignIn
<1> QED
  BY <1>1, <1>2, <1>4, <1>5

LEMMA NothingHeld ==
    /\ Harness!NoArray \in Fields /\ Held(Harness!NoArray.groups) = {}
    /\ \A groups \in Groups : Harness!Array(groups) \in Fields /\ Harness!Array(groups).groups = groups
<1>1. <<>> \in Groups /\ Held(<<>>) = {}
  BY HeldIs DEF Groups
<1> QED
  BY <1>1 DEF Harness!NoArray, Harness!Array, Fields, Groups

(* What an installer starts from has the foreign entries of the file.      *)
LEMMA ParsedIs ==
    ASSUME NEW k \in {"cursor", "gemini"}, NEW file \in ConfigFiles(k)
    PROVE  /\ Harness!Parsed(k, file) \in [Harness!Events(k) -> Fields]
           /\ ForeignIn(Harness!Parsed(k, file)) = Harness!Foreign(file)
<1>1. CASE file \in {Harness!Absent, Harness!Blank, Harness!Broken}
  <2>1. Harness!Parsed(k, file) = Harness!Empty(k)
    BY <1>1, FileForms DEF Harness!Parsed
  <2>2. Harness!Empty(k) \in [Harness!Events(k) -> Fields]
    BY NothingHeld DEF Harness!Empty
  <2>3. ForeignIn(Harness!Empty(k)) = {}
    BY NothingHeld DEF Harness!Empty, ForeignIn
  <2> QED
    BY <1>1, <2>1, <2>2, <2>3, ForeignOf
<1>2. ASSUME NEW c \in BOOLEAN, NEW events \in [Harness!Events(k) -> Fields],
             file = Harness!Document(c, events)
      PROVE  /\ Harness!Parsed(k, file) \in [Harness!Events(k) -> Fields]
             /\ ForeignIn(Harness!Parsed(k, file)) = Harness!Foreign(file)
  <2>1. Harness!Parsed(k, file) = events
    BY <1>2, FileForms DEF Harness!Parsed
  <2> QED
    BY <1>2, <2>1, ForeignOf
<1> QED
  BY <1>1, <1>2 DEF ConfigFiles

(* Documents agree on the foreign entries when their events do.            *)
LEMMA FieldsAgree ==
    ASSUME NEW k, NEW old \in [Harness!Events(k) -> Fields], NEW new \in [Harness!Events(k) -> Fields],
           \A e \in Harness!Events(k) :
              Held(new[e].groups) \cap ForeignEntries = Held(old[e].groups) \cap ForeignEntries
    PROVE  ForeignIn(new) = ForeignIn(old)
<1>1. \A ev \in [Harness!Events(k) -> Fields] : \A x :
        x \in ForeignIn(ev) <=> \E e \in Harness!Events(k) : x \in Held(ev[e].groups) \cap ForeignEntries
  BY DEF ForeignIn
<1>2. \A x : x \in ForeignIn(new) <=> x \in ForeignIn(old)
  BY <1>1
<1> QED
  BY <1>2

LEMMA AppendHolds ==
    ASSUME NEW groups \in Groups, NEW x \in HookEntries
    PROVE  Append(groups, <<x>>) \in Groups /\ Held(Append(groups, <<x>>)) = Held(groups) \cup {x}
<1> DEFINE more == Append(groups, <<x>>)
<1>1. <<x>> \in Seq(HookEntries)
  OBVIOUS
<1>2. more \in Groups
  BY <1>1 DEF Groups
<1>3. /\ Len(groups) \in Nat /\ DOMAIN groups = 1..Len(groups)
      /\ DOMAIN more = 1..(Len(groups) + 1)
      /\ more[Len(groups) + 1] = <<x>>
      /\ \A i \in 1..Len(groups) : more[i] = groups[i]
  BY <1>1 DEF Groups
<1> HIDE DEF more
<1>4. \A y : y \in Held(more) <=> y \in Held(groups) \/ y \in Harness!ToSet(<<x>>)
  BY <1>3 DEF Held
<1>5. Harness!ToSet(<<x>>) = {x}
  BY ToSetIs
<1> QED
  BY <1>2, <1>4, <1>5 DEF more

(* A sweep keeps the foreign entries.                                      *)
LEMMA SweepKeeps ==
    ASSUME NEW groups \in Groups
    PROVE  /\ Harness!Sweep(groups) \in Groups
           /\ Held(Harness!Sweep(groups)) \cap ForeignEntries = Held(groups) \cap ForeignEntries
BY SweepIs, HarnessAssumption DEF Harness!EntriesAreDisjoint

LEMMA ConfigDocuments ==
    ASSUME NEW k \in {"cursor", "gemini"}, NEW c \in BOOLEAN, NEW events \in [Harness!Events(k) -> Fields]
    PROVE  Harness!Document(c, events) \in ConfigFiles(k)
<1>1. k # "opencode"
  OBVIOUS
<1> QED
  BY <1>1 DEF ConfigFiles

(* A merge writes a document with the foreign entries it has read.         *)
LEMMA MergeKeeps ==
    ASSUME NEW k \in {"cursor", "gemini"}, NEW file \in ConfigFiles(k), file.form # "broken",
           NEW op \in {"install", "uninstall"}, NEW plan \in IcgEntries
    PROVE  /\ Harness!Merge(k, file, op, plan) \in ConfigFiles(k)
           /\ Harness!Foreign(Harness!Merge(k, file, op, plan)) = Harness!Foreign(file)
<1> DEFINE events == Harness!Parsed(k, file)
<1>1. events \in [Harness!Events(k) -> Fields] /\ ForeignIn(events) = Harness!Foreign(file)
  BY ParsedIs
<1> HIDE DEF events
<1>2. \A e \in Harness!Events(k) : events[e] \in Fields /\ events[e].groups \in Groups
  BY <1>1 DEF Fields, Groups
<1>3. \A new \in [Harness!Events(k) -> Fields] :
        ForeignIn(new) = ForeignIn(events) =>
          /\ Harness!Document(TRUE, new) \in ConfigFiles(k)
          /\ Harness!Foreign(Harness!Document(TRUE, new)) = Harness!Foreign(file)
  BY <1>1, ForeignOf, ConfigDocuments
<1>4. CASE op = "install"
  <2> DEFINE new == Harness!Installed(k, events, plan)
  <2>1. \A e \in Harness!Events(k) :
          new[e] = IF e \in Harness!Managed(k)
                   THEN Harness!Array(Append(Harness!Sweep(events[e].groups), <<plan>>)) ELSE events[e]
    BY DEF Harness!Installed
  <2>2. ASSUME NEW e \in Harness!Events(k)
        PROVE  /\ new[e] \in Fields
               /\ Held(new[e].groups) \cap ForeignEntries = Held(events[e].groups) \cap ForeignEntries
    <3>1. CASE e \in Harness!Managed(k)
      <4> DEFINE swept == Harness!Sweep(events[e].groups)
      <4>1. swept \in Groups /\ Held(swept) \cap ForeignEntries = Held(events[e].groups) \cap ForeignEntries
        BY <1>2, SweepKeeps
      <4> HIDE DEF swept
      <4>2. Append(swept, <<plan>>) \in Groups /\ Held(Append(swept, <<plan>>)) = Held(swept) \cup {plan}
        BY <4>1, AppendHolds DEF HookEntries
      <4>3. plan \notin ForeignEntries
        BY HarnessAssumption DEF Harness!EntriesAreDisjoint
      <4>4. new[e] = Harness!Array(Append(swept, <<plan>>))
        BY <2>1, <3>1 DEF swept
      <4>5. new[e] \in Fields /\ new[e].groups = Append(swept, <<plan>>)
        BY <4>2, <4>4, NothingHeld
      <4>6. Held(new[e].groups) = Held(swept) \cup {plan}
        BY <4>2, <4>5
      <4> HIDE DEF new
      <4> QED
        BY <4>1, <4>3, <4>5, <4>6
    <3>2. CASE e \notin Harness!Managed(k)
      <4>1. new[e] = events[e]
        BY <2>1, <3>2
      <4> QED
        BY <1>2, <4>1
    <3> QED
      BY <3>1, <3>2
  <2>3. new \in [Harness!Events(k) -> Fields]
    <3>1. new = [e \in Harness!Events(k) |-> new[e]]
      BY DEF Harness!Installed
    <3> HIDE DEF new
    <3> QED
      BY <2>2, <3>1
  <2>4. Harness!Merge(k, file, op, plan) = Harness!Document(TRUE, new)
    BY <1>4 DEF Harness!Merge, events
  <2> HIDE DEF new
  <2>5. ForeignIn(new) = ForeignIn(events)
    BY <1>1, <2>2, <2>3, FieldsAgree
  <2>6. /\ Harness!Document(TRUE, new) \in ConfigFiles(k)
        /\ Harness!Foreign(Harness!Document(TRUE, new)) = Harness!Foreign(file)
    BY <1>3, <2>3, <2>5
  <2> QED
    BY <2>4, <2>6
<1>5. CASE op = "uninstall" /\ ~(k = "gemini" /\ ~events["BeforeTool"].array)
  <2> DEFINE new == Harness!Uninstalled(k, events)
  <2>1. \A e \in Harness!Events(k) :
          LET swept == Harness!Sweep(events[e].groups)
          IN new[e] = IF swept = events[e].groups \/ (k = "gemini" /\ e = "other") THEN events[e]
                      ELSE IF k = "cursor" /\ swept = <<>> THEN Harness!NoArray
                      ELSE Harness!Array(swept)
    BY DEF Harness!Uninstalled
  <2>2. ASSUME NEW e \in Harness!Events(k)
        PROVE  /\ new[e] \in Fields
               /\ Held(new[e].groups) \cap ForeignEntries = Held(events[e].groups) \cap ForeignEntries
    <3> DEFINE swept == Harness!Sweep(events[e].groups)
    <3>1. swept \in Groups /\ Held(swept) \cap ForeignEntries = Held(events[e].groups) \cap ForeignEntries
      BY <1>2, SweepKeeps
    <3>2. \/ new[e] = events[e]
          \/ swept = <<>> /\ new[e] = Harness!NoArray
          \/ new[e] = Harness!Array(swept)
      BY <2>1
    <3>3. Held(<<>>) = {}
      BY HeldIs
    <3> HIDE DEF new, swept
    <3> QED
      BY <1>2, <3>1, <3>2, <3>3, NothingHeld
  <2>3. new \in [Harness!Events(k) -> Fields]
    <3>1. new = [e \in Harness!Events(k) |-> new[e]]
      BY DEF Harness!Uninstalled
    <3> HIDE DEF new
    <3> QED
      BY <2>2, <3>1
  <2>4. Harness!Merge(k, file, op, plan) = Harness!Document(TRUE, new)
    BY <1>5 DEF Harness!Merge, events
  <2> HIDE DEF new
  <2>5. ForeignIn(new) = ForeignIn(events)
    BY <1>1, <2>2, <2>3, FieldsAgree
  <2>6. /\ Harness!Document(TRUE, new) \in ConfigFiles(k)
        /\ Harness!Foreign(Harness!Document(TRUE, new)) = Harness!Foreign(file)
    BY <1>3, <2>3, <2>5
  <2> QED
    BY <2>4, <2>6
<1>6. CASE op = "uninstall" /\ k = "gemini" /\ ~events["BeforeTool"].array
  <2>1. Harness!Merge(k, file, op, plan) = file
    BY <1>6 DEF Harness!Merge, events
  <2> QED
    BY <2>1
<1> QED
  BY <1>4, <1>5, <1>6

(* An edit adds one foreign entry.                                         *)
LEMMA WithEntryIs ==
    ASSUME NEW k \in {"cursor", "gemini"}, NEW file \in ConfigFiles(k), NEW f \in ForeignEntries,
           NEW edited \in Harness!WithEntry(k, file, f)
    PROVE  edited \in ConfigFiles(k) /\ Harness!Foreign(edited) = Harness!Foreign(file) \cup {f}
<1> DEFINE events == Harness!Parsed(k, file)
<1>1. events \in [Harness!Events(k) -> Fields] /\ ForeignIn(events) = Harness!Foreign(file)
  BY ParsedIs
<1> DEFINE grown(groups) == {Append(groups, <<f>>)} \cup
                            (IF k = "gemini" /\ groups # <<>>
                             THEN {[groups EXCEPT ![1] = Append(@, f)]} ELSE {})
           edits(e) == {Harness!Document(FALSE, [events EXCEPT ![e] = Harness!Array(groups)]) :
                          groups \in grown(events[e].groups)}
<1>2. Harness!WithEntry(k, file, f) = UNION {edits(e) : e \in Harness!Events(k)}
  BY DEF Harness!WithEntry
<1> HIDE DEF events, edits
<1>2a. PICK e \in Harness!Events(k) : edited \in edits(e)
  BY <1>2
<1> DEFINE old == events[e].groups
<1> HIDE DEF grown
<1>2b. PICK groups \in grown(old) :
         edited = Harness!Document(FALSE, [events EXCEPT ![e] = Harness!Array(groups)])
  BY <1>2a DEF edits
<1>2c. \/ groups = Append(old, <<f>>)
       \/ old # <<>> /\ groups = [old EXCEPT ![1] = Append(@, f)]
  BY DEF grown
<1>3. events[e] \in Fields /\ old \in Groups
  BY <1>1 DEF Fields, Groups
<1>4. groups \in Groups /\ Held(groups) = Held(old) \cup {f}
  <2>1. CASE groups = Append(old, <<f>>)
    BY <1>3, <2>1, AppendHolds DEF HookEntries
  <2>2. CASE old # <<>> /\ groups = [old EXCEPT ![1] = Append(@, f)]
    <3> HIDE DEF old
    <3>1. 1 \in DOMAIN old /\ old[1] \in Seq(HookEntries)
      BY <1>3, <2>2 DEF Groups
    <3> DEFINE longer == Append(old[1], f)
    <3>2. longer \in Seq(HookEntries)
      BY <3>1 DEF HookEntries
    <3>3. Harness!ToSet(longer) = Harness!ToSet(old[1]) \cup {f}
      <4>1. /\ Len(old[1]) \in Nat /\ DOMAIN old[1] = 1..Len(old[1])
            /\ DOMAIN longer = 1..(Len(old[1]) + 1)
            /\ longer[Len(old[1]) + 1] = f
            /\ \A i \in 1..Len(old[1]) : longer[i] = old[1][i]
        BY <3>1 DEF HookEntries
      <4> HIDE DEF longer
      <4> QED
        BY <4>1, ToSetIs
    <3> HIDE DEF longer
    <3>4. groups = [old EXCEPT ![1] = longer]
      BY <2>2 DEF longer
    <3>5. groups \in Groups
      BY <1>3, <3>1, <3>2, <3>4 DEF Groups
    <3>6. DOMAIN groups = DOMAIN old /\ groups[1] = longer /\ \A i \in DOMAIN old \ {1} : groups[i] = old[i]
      BY <3>1, <3>4
    <3>7. \A x : x \in Held(groups) <=> x \in Held(old) \/ x = f
      BY <3>1, <3>3, <3>6 DEF Held
    <3> QED
      BY <3>5, <3>7
  <2> QED
    BY <1>2c, <2>1, <2>2
<1> DEFINE new == [events EXCEPT ![e] = Harness!Array(groups)]
<1>5. Harness!Array(groups) \in Fields /\ Harness!Array(groups).groups = groups
  BY <1>4, NothingHeld
<1>6. new \in [Harness!Events(k) -> Fields]
  BY <1>1, <1>5
<1>7. /\ DOMAIN new = Harness!Events(k) /\ DOMAIN events = Harness!Events(k)
      /\ Held(new[e].groups) = Held(events[e].groups) \cup {f}
      /\ \A d \in Harness!Events(k) \ {e} : new[d] = events[d]
  BY <1>1, <1>4, <1>5
<1>8. edited = Harness!Document(FALSE, new)
  BY <1>2b
<1> HIDE DEF new
<1>9. \A x : x \in ForeignIn(new) <=> x \in ForeignIn(events) \/ x = f
  BY <1>7 DEF ForeignIn
<1>10. ForeignIn(new) = ForeignIn(events) \cup {f}
  BY <1>9
<1>11. edited \in ConfigFiles(k)
  BY <1>6, <1>8, ConfigDocuments
<1> QED
  BY <1>1, <1>8, <1>10, <1>11, ForeignOf

(* The files that an installer may meet first.                             *)
LEMMA FirstFilesAre ==
    ASSUME NEW k \in Harness!Kinds, NEW file \in Harness!FirstFiles(k)
    PROVE  file \in ConfigFiles(k)
<1>1. CASE k = "opencode"
  BY <1>1 DEF Harness!FirstFiles, ConfigFiles
<1>2. CASE k # "opencode"
  <2> DEFINE firsts == {<<>>} \cup {<<<<f>>>> : f \in ForeignEntries} \cup {<<<<i>>, <<i>>>> : i \in IcgEntries}
  <2>1. \A x \in HookEntries : <<x>> \in Seq(HookEntries)
    OBVIOUS
  <2>2. \A x \in HookEntries : <<<<x>>>> \in Groups /\ <<<<x>>, <<x>>>> \in Groups
    BY <2>1 DEF Groups
  <2>3. <<>> \in Groups
    BY DEF Groups
  <2>4. firsts \in SUBSET Groups
    BY <2>2, <2>3 DEF HookEntries
  <2>5. \/ file \in {Harness!Absent, Harness!Blank, Harness!Broken}
        \/ \E e \in Harness!Events(k) : \E g \in firsts :
             file = Harness!Document(FALSE, [Harness!Empty(k) EXCEPT ![e] = Harness!Array(g)])
    <3> DEFINE holding(e, g) == Harness!Document(FALSE, [Harness!Empty(k) EXCEPT ![e] = Harness!Array(g)])
    <3>1. Harness!FirstFiles(k) =
            {Harness!Absent, Harness!Blank, Harness!Broken} \cup
            {holding(e, g) : e \in Harness!Events(k), g \in firsts}
      BY <1>2 DEF Harness!FirstFiles
    <3> HIDE DEF firsts, holding
    <3>2. \/ file \in {Harness!Absent, Harness!Blank, Harness!Broken}
          \/ \E e \in Harness!Events(k) : \E g \in firsts : file = holding(e, g)
      BY <3>1
    <3> QED
      BY <3>2 DEF holding
  <2> HIDE DEF firsts
  <2>6. Harness!Empty(k) \in [Harness!Events(k) -> Fields]
    BY NothingHeld DEF Harness!Empty
  <2>7. ASSUME NEW e \in Harness!Events(k), NEW g \in firsts
        PROVE  Harness!Document(FALSE, [Harness!Empty(k) EXCEPT ![e] = Harness!Array(g)]) \in ConfigFiles(k)
    <3>1. Harness!Array(g) \in Fields
      BY <2>4, NothingHeld
    <3>2. [Harness!Empty(k) EXCEPT ![e] = Harness!Array(g)] \in [Harness!Events(k) -> Fields]
      BY <2>6, <3>1
    <3> QED
      BY <1>2, <3>2, ConfigDocuments DEF Harness!Kinds
  <2>8. {Harness!Absent, Harness!Blank, Harness!Broken} \subseteq ConfigFiles(k)
    BY <1>2 DEF ConfigFiles
  <2> QED
    BY <2>5, <2>7, <2>8
<1> QED
  BY <1>1, <1>2

LEMMA HarnessStart == Harness!Init => HarnessInv
<1> SUFFICES ASSUME Harness!Init PROVE HarnessInv
  OBVIOUS
<1>1. target \in ConfigFiles(kind) /\ Harness!Absent \in ConfigFiles(kind)
  BY FirstFilesAre DEF Harness!Init, ConfigFiles
<1>2. HarnessTypes
  <2>1. 0 \in Nat /\ cuts = 0
    BY DEF Harness!Init
  <2>2. owned \subseteq ForeignEntries
    BY DEF Harness!Init, Harness!Foreign
  <2> QED
    BY <1>1, <2>1, <2>2 DEF HarnessTypes, Harness!Init
<1>3. RunIsFaithful
  BY DEF RunIsFaithful, Harness!Init
<1>4. NothingIsLost /\ OneCutIsSurvived
  BY DEF NothingIsLost, OneCutIsSurvived, Promised, Harness!Init
<1> QED
  BY <1>2, <1>3, <1>4 DEF HarnessInv

(* One lemma for each step of an installer.                                *)
LEMMA HarnessRun ==
    ASSUME HarnessInv, NEW op \in {"install", "uninstall"}, NEW plan \in IcgEntries, Harness!Run(op, plan)
    PROVE  HarnessInv'
<1> USE DEF HarnessInv
<1>1. /\ kind \in {"cursor", "gemini"} /\ target.form # "broken" /\ ipc = "idle"
      /\ existing' = target /\ merged' = Harness!Merge(kind, target, op, plan)
      /\ ipc' = IF Harness!BackupIsDue(target) THEN "backup" ELSE "open"
      /\ UNCHANGED <<kind, target, backup, cuts, owned, late, raced>>
  BY DEF Harness!Run, Harness!Writes, Harness!Idle
<1>2. target \in ConfigFiles(kind)
  BY DEF HarnessTypes
<1>3. merged' \in ConfigFiles(kind) /\ Harness!Foreign(merged') = Harness!Foreign(target)
  BY <1>1, <1>2, MergeKeeps
<1>4. HarnessTypes'
  BY <1>1, <1>3 DEF HarnessTypes
<1>5. RunIsFaithful'
  BY <1>1, <1>3 DEF RunIsFaithful, Harness!BackupIsDue
<1>6. Promised' = Promised
  BY <1>1 DEF Promised
<1>7. NothingIsLost'
  <2>1. CASE backup = Harness!Absent /\ ipc' = "open" /\ cuts = 0 /\ ~raced
    <3>1. Harness!Foreign(target) = {}
      <4>1. target \in {Harness!Absent, Harness!Blank, Harness!Broken} \/ target.form = "doc"
        BY <1>1, <1>2, FileForms DEF ConfigFiles
      <4>2. target.form # "doc"
        BY <1>1, <2>1 DEF Harness!BackupIsDue
      <4> QED
        BY <4>1, <4>2, ForeignOf
    <3> QED
      BY <1>1, <1>6, <2>1, <3>1 DEF NothingIsLost, Promised
  <2>2. CASE ~(backup = Harness!Absent /\ ipc' = "open" /\ cuts = 0 /\ ~raced)
    BY <1>1, <1>6, <2>2 DEF NothingIsLost
  <2> QED
    BY <2>1, <2>2
<1>8. OneCutIsSurvived'
  BY <1>1, <1>6 DEF OneCutIsSurvived
<1> QED
  BY <1>4, <1>5, <1>7, <1>8

LEMMA PluginFiles ==
    ASSUME kind = "opencode"
    PROVE  /\ {Harness!Absent, Harness!Blank, Harness!Plugin("foreign"), Harness!Plugin("old"),
               Harness!Plugin("current")} \subseteq ConfigFiles(kind)
BY DEF ConfigFiles

LEMMA HarnessPlugin ==
    ASSUME HarnessInv, Harness!InstallPlugin \/ Harness!UninstallPlugin \/ Harness!RemovePlugin
    PROVE  HarnessInv'
<1> USE DEF HarnessInv
<1>1. CASE Harness!InstallPlugin
  <2>1. /\ kind = "opencode" /\ target \in {Harness!Absent, Harness!Plugin("old")} /\ ipc = "idle"
        /\ existing' = target /\ merged' = Harness!Plugin("current")
        /\ ipc' = IF Harness!BackupIsDue(target) THEN "backup" ELSE "open"
        /\ UNCHANGED <<kind, target, backup, cuts, owned, late, raced>>
    BY <1>1 DEF Harness!InstallPlugin, Harness!Idle
  <2>2. Harness!Foreign(target) = {} /\ Harness!Foreign(merged') = {}
    BY <2>1, ForeignOf
  <2>3. HarnessTypes'
    BY <2>1, PluginFiles DEF HarnessTypes
  <2>4. RunIsFaithful'
    BY <2>1, <2>2 DEF RunIsFaithful, Harness!BackupIsDue
  <2>5. NothingIsLost'
    BY <2>1, <2>2 DEF NothingIsLost, Promised
  <2>6. OneCutIsSurvived'
    BY <2>1 DEF OneCutIsSurvived, Promised
  <2> QED
    BY <2>3, <2>4, <2>5, <2>6
<1>2. CASE Harness!UninstallPlugin
  <2>1. /\ kind = "opencode" /\ target \in {Harness!Plugin("old"), Harness!Plugin("current")} /\ ipc = "idle"
        /\ existing' = target /\ ipc' = "remove"
        /\ UNCHANGED <<kind, target, backup, merged, cuts, owned, late, raced>>
    BY <1>2 DEF Harness!UninstallPlugin, Harness!Idle
  <2>2. Harness!Foreign(target) = {}
    BY <2>1, ForeignOf
  <2>3. HarnessTypes'
    BY <2>1 DEF HarnessTypes
  <2>4. RunIsFaithful' /\ NothingIsLost' /\ OneCutIsSurvived'
    BY <2>1, <2>2 DEF RunIsFaithful, NothingIsLost, OneCutIsSurvived, Promised
  <2> QED
    BY <2>3, <2>4
<1>3. CASE Harness!RemovePlugin
  <2>1. /\ ipc = "remove" /\ target' = Harness!Absent
        /\ ipc' = "idle" /\ existing' = Harness!Absent /\ merged' = Harness!Absent
        /\ UNCHANGED <<kind, backup, cuts, owned, late, raced>>
    BY <1>3 DEF Harness!RemovePlugin, Harness!Exits
  <2>2. ~raced => Harness!Foreign(target') = Harness!Foreign(target)
    BY <2>1, ForeignOf DEF RunIsFaithful
  <2>3. HarnessTypes'
    BY <2>1 DEF HarnessTypes, ConfigFiles
  <2>4. RunIsFaithful' /\ NothingIsLost' /\ OneCutIsSurvived'
    BY <2>1, <2>2 DEF RunIsFaithful, NothingIsLost, OneCutIsSurvived, Promised
  <2> QED
    BY <2>3, <2>4
<1> QED
  BY <1>1, <1>2, <1>3

LEMMA HarnessBackup ==
    ASSUME HarnessInv, Harness!OpenBackup \/ Harness!FillBackup
    PROVE  HarnessInv'
<1> USE DEF HarnessInv
<1>1. CASE Harness!OpenBackup
  <2>1. /\ ipc = "backup" /\ ipc' = "fillBackup" /\ backup' = Harness!Blank
        /\ UNCHANGED <<kind, target, existing, merged, cuts, owned, late, raced>>
    BY <1>1 DEF Harness!OpenBackup
  <2>2. backup = Harness!Absent /\ Harness!Foreign(backup') = Harness!Foreign(backup)
    BY <2>1, ForeignOf DEF RunIsFaithful
  <2>3. HarnessTypes'
    BY <2>1 DEF HarnessTypes, ConfigFiles
  <2>4. RunIsFaithful'
    BY <2>1 DEF RunIsFaithful
  <2>5. NothingIsLost' /\ OneCutIsSurvived'
    BY <2>1, <2>2 DEF NothingIsLost, OneCutIsSurvived, Promised
  <2> QED
    BY <2>3, <2>4, <2>5
<1>2. CASE Harness!FillBackup
  <2>1. /\ ipc = "fillBackup" /\ ipc' = "open" /\ backup' = existing
        /\ UNCHANGED <<kind, target, existing, merged, cuts, owned, late, raced>>
    BY <1>2 DEF Harness!FillBackup
  <2>2. /\ backup = Harness!Blank /\ Harness!Foreign(backup) = {}
        /\ ~raced => Harness!Foreign(backup') = Harness!Foreign(target)
    BY <2>1, ForeignOf DEF RunIsFaithful
  <2>3. HarnessTypes'
    BY <2>1 DEF HarnessTypes
  <2>4. RunIsFaithful'
    BY <2>1 DEF RunIsFaithful
  <2>5. NothingIsLost'
    BY <2>1, <2>2 DEF NothingIsLost, Promised
  <2>6. OneCutIsSurvived'
    BY <2>1, <2>2 DEF OneCutIsSurvived, Promised
  <2> QED
    BY <2>3, <2>4, <2>5, <2>6
<1> QED
  BY <1>1, <1>2

LEMMA HarnessWrite ==
    ASSUME HarnessInv, Harness!OpenTarget \/ Harness!FillTarget
    PROVE  HarnessInv'
<1> USE DEF HarnessInv
<1>1. CASE Harness!OpenTarget
  <2>1. /\ ipc = "open" /\ ipc' = "fill" /\ target' = Harness!Blank
        /\ UNCHANGED <<kind, backup, existing, merged, cuts, owned, late, raced>>
    BY <1>1 DEF Harness!OpenTarget
  <2>2. ~raced => Harness!Foreign(merged') = Harness!Foreign(target)
    BY <2>1 DEF RunIsFaithful
  <2>3. HarnessTypes'
    BY <2>1 DEF HarnessTypes, ConfigFiles
  <2>4. RunIsFaithful'
    BY <2>1 DEF RunIsFaithful
  <2>5. NothingIsLost' /\ OneCutIsSurvived'
    BY <2>1, <2>2 DEF NothingIsLost, OneCutIsSurvived, Promised
  <2> QED
    BY <2>3, <2>4, <2>5
<1>2. CASE Harness!FillTarget
  <2>1. /\ ipc = "fill" /\ target' = merged
        /\ ipc' = "idle" /\ existing' = Harness!Absent /\ merged' = Harness!Absent
        /\ UNCHANGED <<kind, backup, cuts, owned, late, raced>>
    BY <1>2 DEF Harness!FillTarget, Harness!Exits
  <2>2. Promised' = Promised
    BY <2>1 DEF Promised
  <2>3. HarnessTypes'
    BY <2>1 DEF HarnessTypes, ConfigFiles
  <2>4. RunIsFaithful'
    BY <2>1 DEF RunIsFaithful
  <2>5. NothingIsLost' /\ OneCutIsSurvived'
    BY <2>1, <2>2 DEF NothingIsLost, OneCutIsSurvived
  <2> QED
    BY <2>3, <2>4, <2>5
<1> QED
  BY <1>1, <1>2

LEMMA HarnessCut ==
    ASSUME HarnessInv, Harness!Cut
    PROVE  HarnessInv'
<1> USE DEF HarnessInv
<1>1. /\ ipc # "idle" /\ cuts' = cuts + 1
      /\ ipc' = "idle" /\ existing' = Harness!Absent /\ merged' = Harness!Absent
      /\ target' \in (IF ipc = "fill" THEN Harness!Torn ELSE {target})
      /\ backup' \in (IF ipc = "fillBackup" THEN Harness!Torn ELSE {backup})
      /\ UNCHANGED <<kind, owned, late, raced>>
  BY DEF Harness!Cut, Harness!Idle, Harness!Exits
<1>2. Harness!Torn \subseteq ConfigFiles(kind) /\ \A file \in Harness!Torn : Harness!Foreign(file) = {}
  BY ForeignOf DEF Harness!Torn, ConfigFiles
<1>3. HarnessTypes'
  <2>1. target' \in ConfigFiles(kind) /\ backup' \in ConfigFiles(kind)
    BY <1>1, <1>2 DEF HarnessTypes
  <2> QED
    BY <1>1, <2>1 DEF HarnessTypes, ConfigFiles
<1>4. RunIsFaithful'
  BY <1>1 DEF RunIsFaithful
<1>5. cuts \in Nat /\ cuts' # 0 /\ (cuts' <= 1 => cuts = 0)
  BY <1>1 DEF HarnessTypes
<1>6. OneCutIsSurvived'
  <2> SUFFICES ASSUME cuts = 0, ~raced
               PROVE  owned \subseteq Harness!Foreign(target') \cup Harness!Foreign(backup') \cup late
    BY <1>1, <1>5 DEF OneCutIsSurvived, Promised
  <2>1. CASE ipc = "fill"
    BY <1>1, <2>1 DEF NothingIsLost
  <2>2. CASE ipc # "fill"
    BY <1>1, <2>2 DEF NothingIsLost, Promised
  <2> QED
    BY <2>1, <2>2
<1> QED
  BY <1>3, <1>4, <1>5, <1>6 DEF NothingIsLost

LEMMA HarnessEdit ==
    ASSUME HarnessInv, NEW f \in ForeignEntries, Harness!Edit(f)
    PROVE  HarnessInv'
<1> USE DEF HarnessInv
<1>1. /\ late' = IF backup = Harness!Absent THEN late ELSE late \cup (owned' \ owned)
      /\ raced' = (raced \/ ipc # "idle")
      /\ UNCHANGED <<kind, backup, ipc, existing, merged, cuts>>
  BY DEF Harness!Edit, Harness!Idle
<1>2. /\ target' \in ConfigFiles(kind) /\ owned' \subseteq ForeignEntries
      /\ owned \subseteq owned'
      /\ owned' \ owned \subseteq Harness!Foreign(target')
      /\ Harness!Foreign(target) \subseteq Harness!Foreign(target')
      /\ Harness!Foreign(target) = owned => Harness!Foreign(target') = owned'
  <2>1. CASE kind = "opencode"
    <3>1. target' = Harness!Plugin("foreign") /\ owned' = ForeignEntries /\ target = Harness!Absent
      BY <2>1 DEF Harness!Edit
    <3> QED
      BY <2>1, <3>1, ForeignOf, PluginFiles DEF HarnessTypes
  <2>2. CASE kind # "opencode"
    <3>1. target' \in Harness!WithEntry(kind, target, f) /\ owned' = owned \cup {f}
      BY <2>2 DEF Harness!Edit
    <3>2. kind \in {"cursor", "gemini"} /\ target \in ConfigFiles(kind)
      BY <2>2 DEF HarnessTypes, Harness!Kinds
    <3>3. target' \in ConfigFiles(kind) /\ Harness!Foreign(target') = Harness!Foreign(target) \cup {f}
      BY <3>1, <3>2, WithEntryIs
    <3> QED
      BY <3>1, <3>3 DEF HarnessTypes
  <2> QED
    BY <2>1, <2>2
<1>3. HarnessTypes'
  BY <1>1, <1>2 DEF HarnessTypes
<1>4. RunIsFaithful'
  BY <1>1 DEF RunIsFaithful
<1>5. NothingIsLost'
  BY <1>1, <1>2 DEF NothingIsLost, Promised
<1>6. OneCutIsSurvived'
  BY <1>1, <1>2 DEF OneCutIsSurvived, Promised
<1> QED
  BY <1>3, <1>4, <1>5, <1>6

LEMMA HarnessStep == HarnessInv /\ [Harness!Next]_Harness!vars => HarnessInv'
<1> SUFFICES ASSUME HarnessInv, [Harness!Next]_Harness!vars PROVE HarnessInv'
  OBVIOUS
<1>1. CASE UNCHANGED Harness!vars
  BY <1>1 DEF Harness!vars, HarnessInv, HarnessTypes, RunIsFaithful, NothingIsLost, OneCutIsSurvived, Promised
<1>2. CASE Harness!Next
  BY <1>2, HarnessRun, HarnessPlugin, HarnessBackup, HarnessWrite, HarnessCut, HarnessEdit DEF Harness!Next
<1> QED
  BY <1>1, <1>2

(* The invariant behind the promise about configuration files.            *)
LEMMA HarnessInvHolds == Harness!Spec => []HarnessInv
BY HarnessStart, HarnessStep, PTL DEF Harness!Spec

LEMMA HarnessPromise == HarnessInv => ConfigurationsSurvive
<1> SUFFICES ASSUME HarnessInv PROVE Harness!ConfigurationsSurvive
  BY DEF ConfigurationsSurvive
<1>1. ipc # "fill" /\ cuts = 0 /\ ~raced => Harness!Foreign(target) = owned
  BY DEF HarnessInv, NothingIsLost, Promised
<1>2. cuts <= 1 /\ ~raced =>
        owned \subseteq Harness!Foreign(target) \cup Harness!Foreign(backup) \cup late
                        \cup (IF ipc = "fill" THEN Harness!Foreign(merged) ELSE {})
  BY DEF HarnessInv, OneCutIsSurvived, Promised
<1> QED
  BY <1>1, <1>2 DEF Harness!ConfigurationsSurvive

(* Whatever else is deployed, and for any hooks and any number of runs     *)
(* that end in the middle: the installers lose nobody else's hooks, and    *)
(* one cut leaves them in the file or in its backup (cursor_hooks.rs,      *)
(* gemini_hooks.rs and opencode_plugin.rs).                                *)
THEOREM DeployedHarness == DeploymentSpec => []ConfigurationsSurvive
BY ImplementsParts, HarnessInvHolds, HarnessPromise, PTL
=============================================================================
