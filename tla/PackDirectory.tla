--------------------------- MODULE PackDirectory ---------------------------
(***************************************************************************)
(* `icg update` installs a release by exchanging the whole directory of    *)
(* rule packs, while hook invocations, which take no lock either, list the *)
(* directory and open its manifests one by one.                            *)
(*                                                                         *)
(* A directory is a tree: the one found at the start or the one an update  *)
(* has built.  A tree is named by the update that built it, so that two    *)
(* updates to the same release are told apart.  Trees move between the     *)
(* active path, the `.previous` path and the hidden sibling paths of each  *)
(* update; an update may be killed, and a rename or a removal may fail.    *)
(***************************************************************************)
EXTENDS Naturals, FiniteSets

CONSTANTS
    Updates,     \* runs of `icg update`
    Hooks,       \* processes that load the packs
    First,       \* the tree installed before the first update
    NoTree,      \* a path without a directory
    Partial,     \* a directory that holds a part of a tree
    Releases,    \* release references the trust pointer may name
    Archive,     \* release -> the entries of its pack archive, in order
    FirstRelease,\* the release of the tree installed first
    MaxPacks,    \* MAX_PACK_COUNT
    MaxFaults    \* bound: kills and failed system calls together

ASSUME TreesAssumption ==
    /\ First \notin Updates
    /\ {NoTree, Partial} \cap (Updates \cup {First}) = {}
    /\ NoTree # Partial
ASSUME BoundsAssumption == MaxPacks \in Nat /\ MaxFaults \in Nat
ASSUME ArchiveAssumption == \A r \in Releases : IsFiniteSet(DOMAIN Archive[r])

(* extract_and_validate_pack_archive: every entry but the root directory   *)
(* is a regular root-level .json file of its own name that loads as a pack *)
(* with an id of its own, and there is at least one.                       *)
ArchiveAccepted(r) ==
    LET files == {i \in DOMAIN Archive[r] : Archive[r][i].kind # "root"}
    IN /\ files # {} /\ Cardinality(files) <= MaxPacks
       /\ \A i \in files : Archive[r][i].kind = "manifest" /\ Archive[r][i].loads
       /\ \A i, j \in files : i # j =>
              /\ Archive[r][i].name # Archive[r][j].name
              /\ Archive[r][i].id # Archive[r][j].id

ASSUME FirstAssumption == FirstRelease \in Releases /\ ArchiveAccepted(FirstRelease)

(* The manifests of an unpacked release.                                   *)
Manifests(r) == {Archive[r][i] : i \in {j \in DOMAIN Archive[r] : Archive[r][j].kind = "manifest"}}
FileNames(r) == {m.name : m \in Manifests(r)}
PackIds(r) == {m.id : m \in Manifests(r)}
IdOf(r, name) == (CHOOSE m \in Manifests(r) : m.name = name).id

AllNames == UNION {FileNames(r) : r \in Releases}
AllIds == UNION {PackIds(r) : r \in Releases}
Trees == Updates \cup {First}

VARIABLES
    active,     \* the tree at the active path
    previous,   \* the tree at <active>.previous
    staging,    \* each update's hidden staging path
    retired,    \* each update's hidden retired-rollback path
    release,    \* the release each tree was built from
    upc,        \* the next step of each update
    hpc,        \* "idle", "loading" or "loaded"
    listed,     \* the tree each hook has listed
    todo,       \* manifests each hook has listed and not opened yet
    packs,      \* pack id -> the tree it was loaded from, for each hook
    failOpen,   \* hooks that could not open a listed manifest
    faults,     \* kills and failed system calls so far
    displaced,  \* history: the tree the latest exchange took out of use
    overlapped, \* history: two updates were under way at once
    stranded,   \* history: updates that could not put back what they retired
    littered,   \* history: updates that could not remove their staging tree
    exchanged   \* history: hooks during whose load the packs were exchanged

paths == <<active, previous, staging, retired, release>>
hookVars == <<hpc, listed, todo, packs, failOpen>>
mishaps == <<stranded, littered>>
vars == <<paths, upc, hookVars, faults, displaced, overlapped, mishaps, exchanged>>

UpdateSteps == {"start", "extract", "inspect", "initial", "look", "retire",
                "exchange", "keep", "drop", "restore", "discard", "done", "failed", "dead"}
Ended == {"start", "done", "failed", "dead"}
NoPacks == [i \in AllIds |-> NoTree]

TypeOK ==
    /\ active \in Trees \cup {NoTree}
    /\ previous \in Trees \cup {NoTree}
    /\ staging \in [Updates -> Trees \cup {NoTree, Partial}]
    /\ retired \in [Updates -> Trees \cup {NoTree, Partial}]
    /\ release \in [Trees -> Releases]
    /\ upc \in [Updates -> UpdateSteps]
    /\ hpc \in [Hooks -> {"idle", "loading", "loaded"}]
    /\ listed \in [Hooks -> Trees \cup {NoTree}]
    /\ todo \in [Hooks -> SUBSET AllNames]
    /\ packs \in [Hooks -> [AllIds -> Trees \cup {NoTree}]]
    /\ failOpen \in SUBSET Hooks
    /\ faults \in 0..MaxFaults
    /\ displaced \in Trees \cup {NoTree}
    /\ overlapped \in BOOLEAN
    /\ stranded \in SUBSET Updates
    /\ littered \in SUBSET Updates
    /\ exchanged \in SUBSET Hooks

Init ==
    /\ active \in {First, NoTree}
    /\ previous = NoTree
    /\ staging = [u \in Updates |-> NoTree]
    /\ retired = [u \in Updates |-> NoTree]
    /\ release = [t \in Trees |-> FirstRelease]
    /\ upc = [u \in Updates |-> "start"]
    /\ hpc = [h \in Hooks |-> "idle"]
    /\ listed = [h \in Hooks |-> NoTree]
    /\ todo = [h \in Hooks |-> {}]
    /\ packs = [h \in Hooks |-> NoPacks]
    /\ failOpen = {} /\ faults = 0
    /\ displaced = NoTree /\ overlapped = FALSE /\ exchanged = {}
    /\ stranded = {} /\ littered = {}

-----------------------------------------------------------------------------
(* An update, step by step.                                                *)

Goto(u, from, to) == upc[u] = from /\ upc' = [upc EXCEPT ![u] = to]
(* A system call fails.                                                    *)
Fault == faults < MaxFaults /\ faults' = faults + 1

(* The trusted reference is read, its release found and its archive        *)
(* downloaded next to a staging directory just created.                    *)
Fetch(u, r) ==
    /\ Goto(u, "start", "extract")
    /\ staging' = [staging EXCEPT ![u] = Partial]
    /\ release' = [release EXCEPT ![u] = r]
    /\ overlapped' = (overlapped \/ \E v \in Updates \ {u} : upc[v] \notin Ended)
    /\ UNCHANGED <<active, previous, retired, hookVars, faults, displaced, mishaps, exchanged>>

(* Every manifest is unpacked, synced and validated.                       *)
Extract(u) ==
    /\ ArchiveAccepted(release[u])
    /\ Goto(u, "extract", "inspect")
    /\ staging' = [staging EXCEPT ![u] = u]
    /\ UNCHANGED <<active, previous, retired, release, hookVars, faults, displaced,
                   overlapped, mishaps, exchanged>>

(* A download or an archive that is not accepted ends the update.          *)
Reject(u) ==
    /\ Goto(u, "extract", "discard")
    /\ \/ ~ArchiveAccepted(release[u]) /\ UNCHANGED faults
       \/ ArchiveAccepted(release[u]) /\ Fault
    /\ UNCHANGED <<paths, hookVars, displaced, overlapped, mishaps, exchanged>>

(* atomic_replace_directory looks at the active path first.                *)
Inspect(u) ==
    /\ Goto(u, "inspect", IF active = NoTree THEN "initial" ELSE "look")
    /\ UNCHANGED <<paths, hookVars, faults, displaced, overlapped, mishaps, exchanged>>

(* With nothing installed the staging directory takes the active name; it  *)
(* cannot replace a directory that somebody has put there in between.      *)
ActivateInitial(u) ==
    /\ active = NoTree
    /\ Goto(u, "initial", "done")
    /\ active' = staging[u]
    /\ staging' = [staging EXCEPT ![u] = NoTree]
    /\ UNCHANGED <<previous, retired, release, hookVars, faults, displaced, overlapped,
                   mishaps, exchanged>>

InitialIsTaken(u) ==
    /\ Goto(u, "initial", "discard")
    /\ \/ active # NoTree /\ UNCHANGED faults
       \/ active = NoTree /\ Fault
    /\ UNCHANGED <<paths, hookVars, displaced, overlapped, mishaps, exchanged>>

(* An older rollback directory is looked at, then renamed out of the way.  *)
Look(u) ==
    /\ Goto(u, "look", IF previous = NoTree THEN "exchange" ELSE "retire")
    /\ UNCHANGED <<paths, hookVars, faults, displaced, overlapped, mishaps, exchanged>>

Retire(u) ==
    /\ previous # NoTree
    /\ Goto(u, "retire", "exchange")
    /\ retired' = [retired EXCEPT ![u] = previous]
    /\ previous' = NoTree
    /\ UNCHANGED <<active, staging, release, hookVars, faults, displaced, overlapped,
                   mishaps, exchanged>>

(* It is gone by now, or cannot be renamed.                                *)
RetireFails(u) ==
    /\ Goto(u, "retire", "discard")
    /\ \/ previous = NoTree /\ UNCHANGED faults
       \/ previous # NoTree /\ Fault
    /\ UNCHANGED <<paths, hookVars, displaced, overlapped, mishaps, exchanged>>

(* Hooks in the middle of a load see the exchange.                         *)
SeenByLoads == exchanged \cup {h \in Hooks : hpc[h] = "loading"}

(* renameat2(RENAME_EXCHANGE): the new tree is active, the old is staged.  *)
Exchange(u) ==
    /\ Goto(u, "exchange", "keep")
    /\ active' = staging[u]
    /\ staging' = [staging EXCEPT ![u] = active]
    /\ displaced' = active
    /\ exchanged' = SeenByLoads
    /\ UNCHANGED <<previous, retired, release, hookVars, faults, overlapped, mishaps>>

(* It fails: what was retired has to be put back first.                    *)
ExchangeFails(u) ==
    /\ Goto(u, "exchange", "restore")
    /\ Fault
    /\ UNCHANGED <<paths, hookVars, displaced, overlapped, mishaps, exchanged>>

(* Mutant: the retired rollback directory is not put back.                 *)
RestoreForgetful(u) ==
    /\ Goto(u, "restore", "discard")
    /\ UNCHANGED <<paths, hookVars, faults, displaced, overlapped, mishaps, exchanged>>

(* restore_retired_rollback renames the retired directory back and ignores *)
(* an error; it gets one when another update's directory is there.         *)
Restore(u) ==
    /\ Goto(u, "restore", "discard")
    /\ IF retired[u] # NoTree /\ previous = NoTree
       THEN \/ /\ previous' = retired[u]
               /\ retired' = [retired EXCEPT ![u] = NoTree]
               /\ UNCHANGED <<faults, stranded>>
            \/ /\ Fault
               /\ stranded' = stranded \cup {u}
               /\ UNCHANGED <<previous, retired>>
       ELSE UNCHANGED <<previous, retired, faults, stranded>>
    /\ UNCHANGED <<active, staging, release, hookVars, displaced, overlapped, littered, exchanged>>

(* An update that fails before the exchange, or at it, removes its staging *)
(* directory; it ignores an error that leaves it there, whole or in part.  *)
Discard(u) ==
    /\ Goto(u, "discard", "failed")
    /\ \/ /\ staging' = [staging EXCEPT ![u] = NoTree]
          /\ UNCHANGED <<faults, littered>>
       \/ /\ Fault
          /\ \E left \in {staging[u], Partial} : staging' = [staging EXCEPT ![u] = left]
          /\ littered' = littered \cup {u}
    /\ UNCHANGED <<active, previous, retired, release, hookVars, displaced, overlapped, stranded,
                   exchanged>>

(* The tree taken out of use becomes the rollback directory.               *)
KeepPrior(u) ==
    /\ previous = NoTree
    /\ Goto(u, "keep", "drop")
    /\ previous' = staging[u]
    /\ staging' = [staging EXCEPT ![u] = NoTree]
    /\ UNCHANGED <<active, retired, release, hookVars, faults, displaced, overlapped,
                   mishaps, exchanged>>

(* The rename fails, or the name is taken: the packs are active already,   *)
(* so the update succeeds and leaves the old tree where it is.             *)
KeepFails(u) ==
    /\ Goto(u, "keep", "done")
    /\ \/ previous # NoTree /\ UNCHANGED faults
       \/ previous = NoTree /\ Fault
    /\ UNCHANGED <<paths, hookVars, displaced, overlapped, mishaps, exchanged>>

(* The retired rollback directory is removed, if that succeeds.            *)
DropRetired(u) ==
    /\ Goto(u, "drop", "done")
    /\ \/ retired' = [retired EXCEPT ![u] = NoTree] /\ UNCHANGED faults
       \/ /\ retired[u] # NoTree /\ Fault
          /\ \E left \in {retired[u], Partial} : retired' = [retired EXCEPT ![u] = left]
    /\ UNCHANGED <<active, previous, staging, release, hookVars, displaced, overlapped, mishaps,
                   exchanged>>

(* The process is killed; nothing removes the directories it leaves, and   *)
(* of the one it was removing a part may be gone.                          *)
Kill(u) ==
    /\ upc[u] \notin Ended
    /\ Fault
    /\ upc' = [upc EXCEPT ![u] = "dead"]
    /\ \/ UNCHANGED <<staging, retired>>
       \/ upc[u] = "discard" /\ staging' = [staging EXCEPT ![u] = Partial] /\ UNCHANGED retired
       \/ /\ upc[u] = "drop" /\ retired[u] # NoTree
          /\ retired' = [retired EXCEPT ![u] = Partial]
          /\ UNCHANGED staging
    /\ UNCHANGED <<active, previous, release, hookVars, displaced, overlapped, mishaps, exchanged>>

-----------------------------------------------------------------------------
(* A hook loads the packs: load_rule_packs_at_path.                        *)

(* No directory means no packs; otherwise it is listed.                    *)
List(h) ==
    /\ hpc[h] = "idle"
    /\ hpc' = [hpc EXCEPT ![h] = IF active = NoTree THEN "loaded" ELSE "loading"]
    /\ listed' = [listed EXCEPT ![h] = active]
    /\ todo' = [todo EXCEPT ![h] = IF active = NoTree THEN {} ELSE FileNames(release[active])]
    /\ packs' = [packs EXCEPT ![h] = NoPacks]
    /\ failOpen' = failOpen \ {h}
    /\ exchanged' = exchanged \ {h}
    /\ UNCHANGED <<paths, upc, faults, displaced, overlapped, mishaps>>

(* Mutant: a manifest that cannot be opened is skipped.                    *)
OpenLenient(h) ==
    /\ hpc[h] = "loading"
    /\ \E n \in todo[h] :
         /\ todo' = [todo EXCEPT ![h] = @ \ {n}]
         /\ packs' = IF n \in FileNames(release[active])
                     THEN [packs EXCEPT ![h][IdOf(release[active], n)] = active]
                     ELSE packs
         /\ hpc' = [hpc EXCEPT ![h] = IF todo'[h] = {} THEN "loaded" ELSE @]
    /\ UNCHANGED <<paths, upc, listed, failOpen, faults, displaced, overlapped, mishaps,
                   exchanged>>

(* load_packs_from_dir_inner opens a listed manifest by its path, so in    *)
(* the tree that is active now, and load_pack replaces a pack of its id;   *)
(* a manifest that is not there fails the load.                            *)
Open(h) ==
    /\ hpc[h] = "loading"
    /\ \E n \in todo[h] :
         IF n \in FileNames(release[active])
         THEN /\ todo' = [todo EXCEPT ![h] = @ \ {n}]
              /\ packs' = [packs EXCEPT ![h][IdOf(release[active], n)] = active]
              /\ UNCHANGED failOpen
         ELSE /\ todo' = [todo EXCEPT ![h] = {}]
              /\ failOpen' = failOpen \cup {h}
              /\ UNCHANGED packs
    /\ hpc' = [hpc EXCEPT ![h] = IF todo'[h] = {} THEN "loaded" ELSE @]
    /\ UNCHANGED <<paths, upc, listed, faults, displaced, overlapped, mishaps, exchanged>>

(* The invocation has given its verdict and ends.                          *)
Exit(h) ==
    /\ hpc[h] = "loaded"
    /\ hpc' = [hpc EXCEPT ![h] = "idle"]
    /\ listed' = [listed EXCEPT ![h] = NoTree]
    /\ packs' = [packs EXCEPT ![h] = NoPacks]
    /\ failOpen' = failOpen \ {h}
    /\ exchanged' = exchanged \ {h}
    /\ UNCHANGED <<paths, upc, todo, faults, displaced, overlapped, mishaps>>

Next ==
    \/ \E u \in Updates :
         \/ \E r \in Releases : Fetch(u, r)
         \/ Extract(u) \/ Reject(u) \/ Inspect(u)
         \/ ActivateInitial(u) \/ InitialIsTaken(u)
         \/ Look(u) \/ Retire(u) \/ RetireFails(u)
         \/ Exchange(u) \/ ExchangeFails(u) \/ Restore(u) \/ Discard(u)
         \/ KeepPrior(u) \/ KeepFails(u) \/ DropRetired(u)
         \/ Kill(u)
    \/ \E h \in Hooks : List(h) \/ Open(h) \/ Exit(h)

Spec == Init /\ [][Next]_vars

-----------------------------------------------------------------------------
(* Properties.                                                             *)

(* Every file of the release's archive is a pack that loads, and no pack   *)
(* replaces another one when all of them are loaded.                       *)
LoadsInFull(r) ==
    LET files == {i \in DOMAIN Archive[r] : Archive[r][i].kind # "root"}
    IN /\ \A i \in files : Archive[r][i] \in Manifests(r) /\ Archive[r][i].loads
       /\ Cardinality(FileNames(r)) = Cardinality(files)
       /\ Cardinality(PackIds(r)) = Cardinality(files)

WholeReleases == {r \in Releases : LoadsInFull(r)}

(* Once a pack directory is installed there always is one, and all of its  *)
(* release is in force: whatever updates overlap, fail or die (update.rs,  *)
(* extract_and_validate_pack_archive and atomic_replace_directory).        *)
ActiveIsWhole ==
    /\ active # NoTree => release[active] \in WholeReleases
    /\ displaced # NoTree => active # NoTree
    /\ \A u \in Updates : upc[u] \in {"look", "retire", "exchange", "keep", "drop"} => active # NoTree

(* A load that no exchange meets ends with exactly the packs of the tree   *)
(* it listed.  One that an exchange meets may mix two releases, but if it  *)
(* misses a manifest it is a failed load, never a silent short one.        *)
LoadsAreWhole ==
    \A h \in Hooks : hpc[h] = "loaded" =>
        /\ h \notin exchanged \cup failOpen =>
             packs[h] = [i \in AllIds |->
                 IF listed[h] # NoTree /\ i \in PackIds(release[listed[h]])
                 THEN listed[h] ELSE NoTree]
        /\ h \in failOpen => h \in exchanged
        /\ h \notin failOpen /\ listed[h] # NoTree =>
             \A n \in FileNames(release[listed[h]]) :
                \E t \in Trees : /\ n \in FileNames(release[t])
                                 /\ packs[h][IdOf(release[t], n)] \in Trees

(* Packs are whole where they lie and where they are loaded (engine.rs,    *)
(* load_packs_from_dir).                                                   *)
PacksAreWhole == ActiveIsWhole /\ LoadsAreWhole

(* The tree the latest exchange took out of use can still be found on the  *)
(* disk, and without a fault or an overlap it is the rollback directory as *)
(* soon as the update has ended (update.rs:749-777).                       *)
RollbackTreeIsKept ==
    displaced # NoTree =>
        /\ displaced \in {previous} \cup {staging[u] : u \in Updates} \cup {retired[u] : u \in Updates}
        /\ (faults = 0 /\ ~overlapped /\ \A u \in Updates : upc[u] \in Ended)
             => previous = displaced

(* "every returned failure leaves the active policy untouched"             *)
(* (update.rs:751): a failed update's tree is nowhere but at most in the   *)
(* staging directory that it could not remove, and the rollback tree it    *)
(* had retired is back unless updates overlapped or the rename that puts   *)
(* it back failed too (update.rs:284, restore_retired_rollback).           *)
FailureLeavesPolicy ==
    \A u \in Updates : upc[u] = "failed" =>
        /\ u \notin {active, previous, displaced}
        /\ \A v \in Updates : u # retired[v] /\ (u # v => u # staging[v])
        /\ staging[u] # NoTree => u \in littered
        /\ retired[u] # NoTree => overlapped \/ u \in stranded

(* Of every tree an update touched it can be said where it is: the one it  *)
(* displaced is kept, and its own is out of use, and gone if the clean-up  *)
(* succeeds, when it reports a failure (update.rs:719-786).                *)
TreesAreAccountedFor == RollbackTreeIsKept /\ FailureLeavesPolicy
=============================================================================
