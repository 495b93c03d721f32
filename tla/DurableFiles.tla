---------------------------- MODULE DurableFiles ----------------------------
(***************************************************************************)
(* The five documents that invocations of the program share through the    *)
(* file system, written step by step: the session state, the health state, *)
(* the fail-closed policy, the runtime telemetry and the trust pointer.    *)
(* Each replaces its file by writing a temporary file and renaming it, but *)
(* they differ in what is locked, read, synced, backed up and swept, and   *)
(* those differences decide what survives two writers at once, a process   *)
(* killed between two steps and a machine that stops.                      *)
(*                                                                         *)
(* A behaviour is about one store, fixed in Init.  An invocation makes one *)
(* update of it; the document is abstracted to the set of updates it       *)
(* reflects.  A file is an inode, so that a name can be renamed while      *)
(* somebody still writes to the file behind it.                            *)
(***************************************************************************)
EXTENDS Naturals, FiniteSets

CONSTANTS
    Invocations,  \* processes, each with one update to make
    Pids,         \* process ids
    PidOf,        \* the pid the kernel gives each invocation
    First,        \* the inode of the document before the first update
    Bak,          \* the inode of the policy's backup file
    NoFile,       \* a name no file has
    Fixed,        \* the one temporary name of the trust pointer
    NoOne,        \* the lock is free
    MaxFaults     \* bound: kills, I/O errors and machine stops together

ASSUME NamesAssumption ==
    /\ {First, Bak, NoFile, Fixed, NoOne} \cap Invocations = {}
    /\ First # Bak /\ NoFile \notin {First, Bak}
    /\ Fixed \notin Pids
    /\ Pids \cap Invocations = {}
    /\ PidOf \in [Invocations -> Pids]
ASSUME FaultsAssumption == MaxFaults \in Nat

Inodes == Invocations \cup {First, Bak}
TempNames == Invocations \cup Pids \cup {Fixed}

(* A document is whole, empty (created or cut short), or mixed: bytes of   *)
(* two writers, or damage.  Only a whole one parses.                       *)
Document == [form : {"whole", "empty", "mixed"}, updates : SUBSET Invocations]
Whole(us) == [form |-> "whole", updates |-> us]
Empty == [form |-> "empty", updates |-> {}]
Mixed == [form |-> "mixed", updates |-> {}]

VARIABLES
    store,    \* which store's protocol the invocations follow
    current,  \* the inode at the store's own path
    backup,   \* the inode at fail-closed-policy.json.bak
    temps,    \* the inode at each temporary name
    data,     \* what each inode reads as
    flushed,  \* inodes whose contents a sync has put on the disk
    onDisk,   \* the inode at the store's path that a directory sync made sure of
    lock,     \* the invocation that holds the flock
    pc,       \* the next step of each invocation
    doc,      \* the updates of the document in each invocation's memory
    handle,   \* the inode of the temporary file each invocation has opened
    acked,    \* invocations whose update returned Ok
    faults,   \* kills, I/O errors and machine stops so far
    raced,    \* history: two invocations were between their first and last step
    stopped,  \* history: the machine stopped
    halfSaved,\* history: a save ended between its backup and a durable rename
    misread   \* history: invocations that took a file they could not read for none

files == <<current, backup, temps, data, flushed, onDisk>>
history == <<raced, stopped, halfSaved, misread>>
vars == <<store, files, lock, pc, doc, handle, acked, faults, history>>

Stores == {"state", "health", "policy", "telemetry", "pointer"}
(* The stores whose update is a read, change and save under one lock.      *)
Transactional == {"state", "health", "policy"}

-----------------------------------------------------------------------------
(* The order of each store's steps.                                        *)

(* StateStore::update, load_unlocked and save_unlocked.                    *)
StatePlan ==
    [start |-> "lock", lock |-> "load", load |-> "open", open |-> "write",
     write |-> "sync", sync |-> "rename", rename |-> "syncdir",
     syncdir |-> "reclaim", reclaim |-> "return"]

(* Mutant: the temporary file is renamed before its bytes are on the disk. *)
HealthPlanUnsynced == [StatePlan EXCEPT !.write = "rename"]

(* Mutant: the update returns before its rename is on the disk.            *)
HealthPlanNoDirectory == [StatePlan EXCEPT !.rename = "reclaim"]

(* HealthStore::update, load_unlocked and persist_unlocked.                *)
HealthPlan ==
    [start |-> "lock", lock |-> "load", load |-> "open", open |-> "write",
     write |-> "sync", sync |-> "rename", rename |-> "syncdir",
     syncdir |-> "reclaim", reclaim |-> "return"]

(* FailClosedPolicyStore::update and save_unlocked: the document replaced  *)
(* is copied to the backup first, and nothing is swept.                    *)
PolicyPlan ==
    [start |-> "lock", lock |-> "load", load |-> "open", open |-> "write",
     write |-> "sync", sync |-> "backup", backup |-> "fill", fill |-> "rename",
     rename |-> "syncdir", syncdir |-> "return"]

(* Mutant: the telemetry is written without the lock.                      *)
TelemetryPlanUnlocked ==
    [start |-> "load", load |-> "open", open |-> "write", write |-> "rename",
     rename |-> "reclaim", reclaim |-> "return"]

(* TelemetryStore::load_or_create at the start of an invocation, persist   *)
(* at its end: only the write is under the lock, and nothing is synced.    *)
TelemetryPlan ==
    [start |-> "load", load |-> "lock", lock |-> "open", open |-> "write",
     write |-> "rename", rename |-> "reclaim", reclaim |-> "return"]

(* TrustPointerStore::save: a new document under a fixed temporary name.   *)
PointerPlan ==
    [start |-> "open", open |-> "write", write |-> "rename", rename |-> "return"]

Plan == [state |-> StatePlan, health |-> HealthPlan, policy |-> PolicyPlan,
         telemetry |-> TelemetryPlan, pointer |-> PointerPlan]

WorkSteps == {"lock", "load", "open", "write", "sync", "backup", "fill", "rename",
              "syncdir", "reclaim", "return"}
Running(p) == pc[p] \in WorkSteps
Goto(p, step) == pc' = [pc EXCEPT ![p] = step]
Advance(p) == Goto(p, Plan[store][pc[p]])

(* temp_files::temp_path names a temporary file after the writer's pid;    *)
(* the policy adds the time, so its names never repeat.                    *)
TempOf(p) ==
    IF store = "policy" THEN p ELSE IF store = "pointer" THEN Fixed ELSE PidOf[p]

(* Mutant: a lock file that only an orderly exit removes.                  *)
UnlockedByExit(p) == IF lock = p /\ pc[p] = "return" THEN NoOne ELSE lock

(* The flock is released when its holder closes it, exits or is killed.    *)
Unlocked(p) == IF lock = p THEN NoOne ELSE lock

TypeOK ==
    /\ store \in Stores
    /\ current \in Inodes \cup {NoFile}
    /\ backup \in {Bak, NoFile}
    /\ temps \in [TempNames -> Inodes \cup {NoFile}]
    /\ data \in [Inodes -> Document]
    /\ flushed \subseteq Inodes
    /\ onDisk \in Inodes \cup {NoFile}
    /\ lock \in Invocations \cup {NoOne}
    /\ pc \in [Invocations -> WorkSteps \cup {"start", "done", "failed", "killed"}]
    /\ doc \in [Invocations -> SUBSET Invocations]
    /\ handle \in [Invocations -> Inodes]
    /\ acked \subseteq Invocations
    /\ faults \in Nat
    /\ raced \in BOOLEAN
    /\ stopped \in BOOLEAN
    /\ halfSaved \in BOOLEAN
    /\ misread \subseteq Invocations

(* A store has no file yet, or a document without updates of these         *)
(* invocations, or a damaged one; a damaged policy has a good backup.      *)
Init ==
    /\ store \in Stores
    /\ current \in {NoFile, First}
    /\ data \in {[i \in Inodes |-> IF i = First THEN d ELSE Whole({})] :
                     d \in IF current = First THEN {Whole({}), Mixed} ELSE {Whole({})}}
    /\ backup = IF store = "policy" /\ current = First THEN Bak ELSE NoFile
    /\ temps = [n \in TempNames |-> NoFile]
    /\ flushed = Inodes
    /\ onDisk = current
    /\ lock = NoOne
    /\ pc = [p \in Invocations |-> "start"]
    /\ doc = [p \in Invocations |-> {p}]
    /\ handle = [p \in Invocations |-> p]
    /\ acked = {}
    /\ faults = 0
    /\ raced = FALSE
    /\ stopped = FALSE
    /\ halfSaved = FALSE
    /\ misread = {}

-----------------------------------------------------------------------------
(* What a load returns.                                                    *)

Parses(i) == data[i].form = "whole"

(* Mutant: an unreadable document counts as none.                          *)
StateLoadLenient ==
    IF current = NoFile \/ ~Parses(current) THEN Whole({}) ELSE data[current]

(* StateStore::load_unlocked, and HealthStore's: a damaged document is an  *)
(* error, not an empty document.                                           *)
StateLoad == IF current = NoFile THEN Whole({}) ELSE data[current]

HealthLoad == IF current = NoFile THEN Whole({}) ELSE data[current]

(* FailClosedPolicyStore::load_unlocked: an unreadable document is         *)
(* replaced by its backup, when there is one.                              *)
PolicyLoad ==
    IF current = NoFile THEN Whole({})
    ELSE IF Parses(current) \/ backup = NoFile THEN data[current]
    ELSE data[backup]

(* Mutant: every invocation starts from an empty document.                 *)
TelemetryLoadFresh == Whole({})

(* load_runtime_telemetry_store: an unreadable document counts as none.    *)
TelemetryLoad ==
    IF current # NoFile /\ Parses(current) THEN data[current] ELSE Whole({})

Loaded ==
    IF store = "policy" THEN PolicyLoad
    ELSE IF store = "telemetry" THEN TelemetryLoad
    ELSE IF store = "health" THEN HealthLoad ELSE StateLoad

-----------------------------------------------------------------------------
(* The steps of an update.                                                 *)

Begin(p) ==
    /\ pc[p] = "start"
    /\ \A q \in Invocations : Running(q) => PidOf[q] # PidOf[p]
    /\ Advance(p)
    /\ raced' = (raced \/ \E q \in Invocations : Running(q))
    /\ UNCHANGED <<store, files, lock, doc, handle, acked, faults, stopped, halfSaved,
                   misread>>

Lock(p) ==
    /\ pc[p] = "lock"
    /\ lock = NoOne
    /\ lock' = p
    /\ Advance(p)
    /\ UNCHANGED <<store, files, doc, handle, acked, faults, history>>

Load(p) ==
    /\ pc[p] = "load"
    /\ Loaded.form = "whole"
    /\ doc' = [doc EXCEPT ![p] = Loaded.updates \cup {p}]
    /\ Advance(p)
    /\ UNCHANGED <<store, files, lock, handle, acked, faults, history>>

(* The update returns the load's error, having touched nothing.            *)
Refuse(p) ==
    /\ pc[p] = "load"
    /\ Loaded.form # "whole"
    /\ lock' = Unlocked(p)
    /\ Goto(p, "failed")
    /\ UNCHANGED <<store, files, doc, handle, acked, faults, history>>

(* Mutant: opened without O_CREAT.                                         *)
TempFileNotCreated(p) == temps[TempOf(p)]

(* Create or truncate: a file left under that name is used again.          *)
TempFile(p) == IF temps[TempOf(p)] = NoFile THEN p ELSE temps[TempOf(p)]

OpenTemp(p) ==
    /\ pc[p] = "open"
    /\ handle' = [handle EXCEPT ![p] = TempFile(p)]
    /\ temps' = [temps EXCEPT ![TempOf(p)] = TempFile(p)]
    /\ data' = [data EXCEPT ![TempFile(p)] = Empty]
    /\ flushed' = flushed \ {TempFile(p)}
    /\ Advance(p)
    /\ UNCHANGED <<store, current, backup, onDisk, lock, doc, acked, faults, history>>

(* Over a file somebody else has written to meanwhile, the longer of the   *)
(* two documents may show through.                                         *)
Write(p) ==
    /\ pc[p] = "write"
    /\ \E d \in {Whole(doc[p]), Mixed} :
          /\ d = Mixed => data[handle[p]] # Empty
          /\ data' = [data EXCEPT ![handle[p]] = d]
    /\ Advance(p)
    /\ flushed' = flushed \ {handle[p]}
    /\ UNCHANGED <<store, current, backup, temps, onDisk, lock, doc, handle, acked,
                   faults, history>>

Sync(p) ==
    /\ pc[p] = "sync"
    /\ flushed' = flushed \cup {handle[p]}
    /\ Advance(p)
    /\ UNCHANGED <<store, current, backup, temps, data, onDisk, lock, doc, handle,
                   acked, faults, history>>

(* fs::copy truncates the backup and then fills it; it syncs nothing.      *)
OpenBackup(p) ==
    /\ pc[p] = "backup"
    /\ IF current = NoFile
       THEN Goto(p, "rename") /\ UNCHANGED <<backup, data, flushed>>
       ELSE /\ backup' = Bak
            /\ data' = [data EXCEPT ![Bak] = Empty]
            /\ flushed' = flushed \ {Bak}
            /\ Advance(p)
    /\ UNCHANGED <<store, current, temps, onDisk, lock, doc, handle, acked, faults,
                   history>>

FillBackup(p) ==
    /\ pc[p] = "fill"
    /\ data' = [data EXCEPT ![Bak] = data[current]]
    /\ Advance(p)
    /\ UNCHANGED <<store, current, backup, temps, flushed, onDisk, lock, doc, handle,
                   acked, faults, history>>

(* Another writer of the same temporary name may have renamed it already.  *)
Rename(p) ==
    /\ pc[p] = "rename"
    /\ IF temps[TempOf(p)] = NoFile
       THEN /\ lock' = Unlocked(p)
            /\ Goto(p, "failed")
            /\ UNCHANGED <<current, temps>>
       ELSE /\ current' = temps[TempOf(p)]
            /\ temps' = [temps EXCEPT ![TempOf(p)] = NoFile]
            /\ Advance(p)
            /\ UNCHANGED lock
    /\ UNCHANGED <<store, backup, data, flushed, onDisk, doc, handle, acked, faults,
                   history>>

SyncDir(p) ==
    /\ pc[p] = "syncdir"
    /\ onDisk' = current
    /\ Advance(p)
    /\ UNCHANGED <<store, current, backup, temps, data, flushed, lock, doc, handle,
                   acked, faults, history>>

(* reclaim_orphaned_temp_files removes every temporary file of this store  *)
(* that is not named after the sweeping process.                           *)
Reclaim(p) ==
    /\ pc[p] = "reclaim"
    /\ temps' = [n \in TempNames |-> IF n = TempOf(p) THEN temps[n] ELSE NoFile]
    /\ Advance(p)
    /\ UNCHANGED <<store, current, backup, data, flushed, onDisk, lock, doc, handle,
                   acked, faults, history>>

Return(p) ==
    /\ pc[p] = "return"
    /\ lock' = Unlocked(p)
    /\ acked' = acked \cup {p}
    /\ Goto(p, "done")
    /\ UNCHANGED <<store, files, doc, handle, faults, history>>

Step(p) ==
    \/ Lock(p)
    \/ Load(p)
    \/ Refuse(p)
    \/ OpenTemp(p)
    \/ Write(p)
    \/ Sync(p)
    \/ OpenBackup(p)
    \/ FillBackup(p)
    \/ Rename(p)
    \/ SyncDir(p)
    \/ Reclaim(p)
    \/ Return(p)

-----------------------------------------------------------------------------
(* What goes wrong around them.                                            *)

InSave(p) == pc[p] \in {"fill", "rename"}

(* load_runtime_telemetry_store: any error of reading the telemetry counts *)
(* as no file.  The invocation goes on with an empty store, and            *)
(* check_and_handle_anomaly persists that at its end.                      *)
Misread(p) ==
    /\ pc[p] = "load" /\ store = "telemetry" /\ current # NoFile
    /\ faults < MaxFaults
    /\ faults' = faults + 1
    /\ doc' = [doc EXCEPT ![p] = {p}]
    /\ misread' = misread \cup {p}
    /\ Advance(p)
    /\ UNCHANGED <<store, files, lock, handle, acked, raced, stopped, halfSaved>>

(* Any other system call returns an error: the update returns it, and      *)
(* leaves its temporary file behind, except that the policy removes it     *)
(* after a failed rename.  The sweep's own errors are ignored.             *)
Fail(p) ==
    /\ Running(p) /\ pc[p] \notin {"reclaim", "return"}
    /\ store = "telemetry" => pc[p] # "load"
    /\ faults < MaxFaults
    /\ faults' = faults + 1
    /\ temps' = IF store = "policy" /\ pc[p] = "rename"
                THEN [temps EXCEPT ![TempOf(p)] = NoFile] ELSE temps
    /\ lock' = Unlocked(p)
    /\ Goto(p, "failed")
    /\ halfSaved' = (halfSaved \/ InSave(p))
    /\ UNCHANGED <<store, current, backup, data, flushed, onDisk, doc, handle, acked,
                   raced, stopped, misread>>

Kill(p) ==
    /\ Running(p)
    /\ faults < MaxFaults
    /\ faults' = faults + 1
    /\ lock' = Unlocked(p)
    /\ Goto(p, "killed")
    /\ halfSaved' = (halfSaved \/ InSave(p))
    /\ UNCHANGED <<store, files, doc, handle, acked, raced, stopped, misread>>

(* The machine stops: every process is gone, what was not synced may be    *)
(* lost, and so may a rename since the last sync of the directory.         *)
Stop ==
    /\ faults < MaxFaults
    /\ faults' = faults + 1
    /\ \E lost \in SUBSET (Inodes \ flushed) :
          data' = [i \in Inodes |-> IF i \in lost THEN Empty ELSE data[i]]
    /\ flushed' = Inodes
    /\ current' \in {current, onDisk}
    /\ onDisk' = current'
    /\ temps' \in {temps, [n \in TempNames |-> NoFile]}
    /\ lock' = NoOne
    /\ pc' = [p \in Invocations |-> IF Running(p) THEN "killed" ELSE pc[p]]
    /\ halfSaved' = (halfSaved \/ current' # current \/ \E p \in Invocations : InSave(p))
    /\ stopped' = TRUE
    /\ UNCHANGED <<store, backup, doc, handle, acked, raced, misread>>

AllReturned == \A p \in Invocations : pc[p] \in {"done", "failed", "killed"}
Finished == AllReturned /\ UNCHANGED vars

Next ==
    \/ \E p \in Invocations : Begin(p) \/ Step(p) \/ Misread(p) \/ Fail(p) \/ Kill(p)
    \/ Stop
    \/ Finished

(* The kernel runs every live process; nobody has to start one.            *)
Fairness == \A p \in Invocations : WF_vars(Step(p))

Spec == Init /\ [][Next]_vars /\ Fairness

-----------------------------------------------------------------------------
(* Properties.                                                             *)

(* What a transactional store promises: a reader, who takes no lock        *)
(* (StateStore::load, FailClosedPolicyStore::load), never sees a torn      *)
(* document but the damage from before the first update; and an update     *)
(* whose call returned Ok is in the document from then on, through other   *)
(* writers, kills, errors and machine stops.                               *)
DocumentsAreDurable ==
    store \in Transactional =>
        /\ current \notin {NoFile, First} => Parses(current)
        /\ \A p \in acked : current # NoFile /\ p \in data[current].updates

(* The two stores that skip a protection lose by exactly that.  Telemetry, *)
(* which syncs nothing, is torn only by a machine stop, and the trust      *)
(* pointer, which also takes no lock, only by that or by two writers.  The *)
(* lock spans a telemetry write but not the read it is based on: counts    *)
(* are lost only to an invocation that overlapped theirs, or to one that   *)
(* could not read them; and what it wrote is then in the document.         *)
LossesHaveCauses ==
    /\ current \notin {NoFile, First} /\ ~Parses(current) =>
          stopped \/ (store = "pointer" /\ raced)
    /\ store = "telemetry" /\ ~raced /\ ~stopped =>
          \A p \in acked :
              /\ current # NoFile
              /\ p \in data[current].updates \/ data[current].updates \cap misread # {}

(* The sweep of the litter of dead writers never takes the temporary file  *)
(* of a live one, even when a pid has been used again.                     *)
SweepSparesLiveWriters ==
    \A p \in Invocations :
        store # "pointer" /\ pc[p] \in {"write", "sync", "backup", "fill", "rename"} =>
            temps[TempOf(p)] = handle[p]

(* Damage spreads no further.  A fail-closed commitment must outlive it: a *)
(* policy stays readable, from the document or its backup, unless a save   *)
(* ended after it had begun to overwrite the backup and before its rename  *)
(* was made sure of.  And a document that a strict store could not read is *)
(* not replaced: every update refuses it, and the operator can look at it. *)
DamageIsContained ==
    /\ [](store = "policy" /\ current # NoFile =>
            \/ Parses(current)
            \/ backup # NoFile /\ Parses(backup)
            \/ halfSaved
            \/ \E p \in Invocations : InSave(p))
    /\ [][current # NoFile /\ ~Parses(current) /\ store \in {"state", "health"} =>
            current' = current /\ data'[current] = data[current]]_vars

(* What a store promises from a sound start.  A policy repaired from its   *)
(* backup may bring back an update that never returned, as well as its own.*)
Promises == store \in Transactional /\ (store = "policy" => Parses(First))
PromisedDoc ==
    IF Promises /\ current # NoFile /\ Parses(current) THEN data[current].updates ELSE {}
PromisedAcks == IF Promises THEN acked ELSE {}

Promise == INSTANCE AtomicDocument WITH
    Updates <- Invocations, doc <- PromisedDoc, acked <- PromisedAcks

(* The three transactional stores implement an atomic document: updates    *)
(* take effect one at a time and whole, and one whose call returned Ok is  *)
(* not lost.                                                               *)
ImplementsAtomicDocument == Promise!Spec

(* Nobody waits for a dead lock holder: every invocation that has begun    *)
(* returns or is killed.                                                   *)
EveryUpdateEnds ==
    \A p \in Invocations : Running(p) ~> pc[p] \in {"done", "failed", "killed"}
=============================================================================
