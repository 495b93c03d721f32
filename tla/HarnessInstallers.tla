------------------------- MODULE HarnessInstallers -------------------------
(***************************************************************************)
(* The installers write ICG's hook into a configuration file that belongs  *)
(* to the user and to the harness: Cursor's hooks.json, Gemini's           *)
(* settings.json, and the plugin file of OpenCode.  Each reads the file,   *)
(* merges, keeps a backup once, and writes the file in place, without a    *)
(* lock: the user may edit it meanwhile, and the installer may be killed   *)
(* or its write may fail half way.                                         *)
(*                                                                         *)
(* A document maps each event to groups of hook entries; an entry is ICG's *)
(* (of some plan: binary and rule pack) or somebody else's.  Cursor's      *)
(* arrays of entries are groups of one.                                    *)
(***************************************************************************)
EXTENDS Naturals, Sequences, SequencesExt

CONSTANTS
    IcgEntries,     \* entries that hook_command recognizes as ICG's
    ForeignEntries, \* hooks of the user or of other tools
    MaxCuts         \* bound: installer runs that end in the middle

EntriesAreDisjoint == IcgEntries \cap ForeignEntries = {} /\ MaxCuts \in Nat

Kinds == {"cursor", "gemini", "opencode"}

(* The events whose arrays an installer writes; "other" is any other event *)
Managed(k) == CASE k = "cursor" -> {"preToolUse", "beforeShellExecution"}
                [] k = "gemini" -> {"BeforeTool"}
                [] OTHER -> {}
Events(k) == Managed(k) \cup {"other"}

(* A file: absent, blank, broken (not a document the installer accepts), a *)
(* document, or a plugin.  `canonical` tells the installer's own formatting *)
(* from a person's.                                                        *)
Absent == [form |-> "absent"]
Blank == [form |-> "blank"]
Broken == [form |-> "broken"]
Document(canonical, events) == [form |-> "doc", canonical |-> canonical, events |-> events]
Plugin(version) == [form |-> "plugin", version |-> version]
Array(groups) == [array |-> TRUE, groups |-> groups]
NoArray == [array |-> FALSE, groups |-> <<>>]
Empty(k) == [e \in Events(k) |-> NoArray]

EntriesOf(field) == UNION {ToSet(field.groups[i]) : i \in DOMAIN field.groups}
Entries(file) ==
    IF file.form = "doc" THEN UNION {EntriesOf(file.events[e]) : e \in DOMAIN file.events}
    ELSE IF file = Plugin("foreign") THEN ForeignEntries
    ELSE {}
Foreign(file) == Entries(file) \cap ForeignEntries

VARIABLES
    kind,      \* the harness whose file this is
    target,    \* the configuration file
    backup,    \* <target>.icg-backup
    ipc,       \* the installer's next step, or "idle"
    existing,  \* the text the installer has read
    merged,    \* the text it will write
    cuts,      \* runs that have ended in the middle
    owned,     \* history: the foreign entries the user has put there
    late,      \* history: those put there after the backup was made
    raced      \* history: the file was edited while the installer ran

vars == <<kind, target, backup, ipc, existing, merged, cuts, owned, late, raced>>

-----------------------------------------------------------------------------
(* The merge.                                                              *)

(* What is at the places of a sequence that are retained, in its order.    *)
Retained(s, places) ==
    [n \in 1..Cardinality(places) |-> s[CHOOSE k \in places : Cardinality(places \cap (1..k)) = n]]

Surviving(group) == Retained(group, {k \in DOMAIN group : group[k] \notin IcgEntries})

(* Mutant: a group that held an ICG entry goes whole.                      *)
SweepWholeGroups(groups) ==
    Retained(groups, {k \in DOMAIN groups : Surviving(groups[k]) = groups[k]})

(* ICG's entries go, and the groups that this empties go with them; a      *)
(* group that was empty before stays.                                      *)
Sweep(groups) ==
    LET kept == Retained(groups, {k \in DOMAIN groups : \/ Surviving(groups[k]) = groups[k]
                                                        \/ Surviving(groups[k]) # <<>>})
    IN [i \in DOMAIN kept |-> Surviving(kept[i])]

(* merge_hooks_json and merge_settings_json without --uninstall: each      *)
(* managed event keeps what is not ICG's and ends with the planned entry.  *)
Installed(k, events, plan) ==
    [e \in Events(k) |-> IF e \in Managed(k)
                         THEN Array(Append(Sweep(events[e].groups), <<plan>>))
                         ELSE events[e]]

(* With --uninstall Cursor's installer sweeps every event and drops those  *)
(* it empties; Gemini's sweeps its own event only and keeps the array.     *)
Uninstalled(k, events) ==
    [e \in Events(k) |->
        LET swept == Sweep(events[e].groups)
        IN IF swept = events[e].groups \/ (k = "gemini" /\ e = "other") THEN events[e]
           ELSE IF k = "cursor" /\ swept = <<>> THEN NoArray
           ELSE Array(swept)]

(* The document an installer starts from: a missing or blank file counts   *)
(* as an empty one.                                                        *)
Parsed(k, file) == IF file.form = "doc" THEN file.events ELSE Empty(k)

Merge(k, file, op, plan) ==
    LET events == Parsed(k, file)
    IN IF op = "install" THEN Document(TRUE, Installed(k, events, plan))
       ELSE IF k = "gemini" /\ ~events["BeforeTool"].array THEN file
       ELSE Document(TRUE, Uninstalled(k, events))

(* A run writes when the merge changes the text; to uninstall from a file  *)
(* that does not exist changes nothing, and a broken file is refused.      *)
Writes(k, file, op, plan) ==
    /\ file.form # "broken"
    /\ Merge(k, file, op, plan) # file
    /\ ~(op = "uninstall" /\ file = Absent)

-----------------------------------------------------------------------------
Idle == ipc = "idle"
(* The process ends, and with it what it has read.                         *)
Exits == ipc' = "idle" /\ existing' = Absent /\ merged' = Absent

(* A prior state worth keeping is backed up when no backup exists.         *)
BackupIsDue(file) == backup = Absent /\ file.form \in {"doc", "broken", "plugin"}

(* Cursor and Gemini: run_install up to the first write.                   *)
Run(op, plan) ==
    /\ Idle /\ kind \in {"cursor", "gemini"}
    /\ Writes(kind, target, op, plan)
    /\ existing' = target
    /\ merged' = Merge(kind, target, op, plan)
    /\ ipc' = IF BackupIsDue(target) THEN "backup" ELSE "open"
    /\ UNCHANGED <<kind, target, backup, cuts, owned, late, raced>>

(* OpenCode: a file without the marker is somebody else's and refused, the *)
(* current plugin is left alone, an older one is backed up and replaced.   *)
InstallPlugin ==
    /\ Idle /\ kind = "opencode"
    /\ target \in {Absent, Plugin("old")}
    /\ existing' = target
    /\ merged' = Plugin("current")
    /\ ipc' = IF BackupIsDue(target) THEN "backup" ELSE "open"
    /\ UNCHANGED <<kind, target, backup, cuts, owned, late, raced>>

UninstallPlugin ==
    /\ Idle /\ kind = "opencode"
    /\ target \in {Plugin("old"), Plugin("current")}
    /\ ipc' = "remove"
    /\ existing' = target
    /\ UNCHANGED <<kind, target, backup, merged, cuts, owned, late, raced>>

RemovePlugin ==
    /\ ipc = "remove"
    /\ target' = Absent
    /\ Exits
    /\ UNCHANGED <<kind, backup, cuts, owned, late, raced>>

(* fs::write truncates the file and then fills it.                         *)
OpenBackup ==
    /\ ipc = "backup"
    /\ backup' = Blank
    /\ ipc' = "fillBackup"
    /\ UNCHANGED <<kind, target, existing, merged, cuts, owned, late, raced>>

FillBackup ==
    /\ ipc = "fillBackup"
    /\ backup' = existing
    /\ ipc' = "open"
    /\ UNCHANGED <<kind, target, existing, merged, cuts, owned, late, raced>>

OpenTarget ==
    /\ ipc = "open"
    /\ target' = Blank
    /\ ipc' = "fill"
    /\ UNCHANGED <<kind, backup, existing, merged, cuts, owned, late, raced>>

FillTarget ==
    /\ ipc = "fill"
    /\ target' = merged
    /\ Exits
    /\ UNCHANGED <<kind, backup, cuts, owned, late, raced>>

(* What a write that stops half way leaves: nothing yet, or a beginning.   *)
(* A plugin's beginning still carries its marker.                          *)
Torn == IF kind = "opencode" THEN {Blank, Plugin("old")} ELSE {Blank, Broken}

(* The installer is killed or a write fails.                               *)
Cut ==
    /\ ~Idle /\ cuts < MaxCuts
    /\ cuts' = cuts + 1
    /\ Exits
    /\ target' \in (IF ipc = "fill" THEN Torn ELSE {target})
    /\ backup' \in (IF ipc = "fillBackup" THEN Torn ELSE {backup})
    /\ UNCHANGED <<kind, owned, late, raced>>

(* The user, or the harness, adds a hook: to an event, or to a group of it.*)
WithEntry(k, file, f) ==
    LET events == Parsed(k, file)
        grown(groups) == {Append(groups, <<f>>)} \cup
                         (IF k = "gemini" /\ groups # <<>>
                          THEN {[groups EXCEPT ![1] = Append(@, f)]} ELSE {})
    IN UNION {{Document(FALSE, [events EXCEPT ![e] = Array(groups)]) : groups \in grown(events[e].groups)} :
                e \in Events(k)}

Edit(f) ==
    /\ f \notin owned
    /\ IF kind = "opencode"
       THEN target = Absent /\ target' = Plugin("foreign") /\ owned' = ForeignEntries
       ELSE /\ target.form \in {"absent", "doc"}
            /\ target' \in WithEntry(kind, target, f)
            /\ owned' = owned \cup {f}
    /\ late' = IF backup = Absent THEN late ELSE late \cup (owned' \ owned)
    /\ raced' = (raced \/ ~Idle)
    /\ UNCHANGED <<kind, backup, ipc, existing, merged, cuts>>

(* Files found before the first run: none, a person's document, one with   *)
(* stale and duplicate entries of ICG, a plugin of an older release.       *)
FirstFiles(k) ==
    IF k = "opencode" THEN {Absent, Plugin("foreign"), Plugin("old")}
    ELSE {Absent, Blank, Broken} \cup
         {Document(FALSE, [Empty(k) EXCEPT ![e] = Array(g)]) :
            e \in Events(k),
            g \in {<<>>} \cup {<<<<f>>>> : f \in ForeignEntries}
                       \cup {<<<<i>>, <<i>>>> : i \in IcgEntries}}

Init ==
    /\ kind \in Kinds
    /\ target \in FirstFiles(kind)
    /\ backup = Absent /\ existing = Absent /\ merged = Absent
    /\ ipc = "idle" /\ cuts = 0
    /\ owned = Foreign(target) /\ late = {} /\ raced = FALSE

Next ==
    \/ \E op \in {"install", "uninstall"}, plan \in IcgEntries : Run(op, plan)
    \/ InstallPlugin \/ UninstallPlugin \/ RemovePlugin
    \/ OpenBackup \/ FillBackup \/ OpenTarget \/ FillTarget
    \/ Cut
    \/ \E f \in ForeignEntries : Edit(f)

Spec == Init /\ [][Next]_vars

-----------------------------------------------------------------------------
(* Properties.                                                             *)

(* "Unrelated hooks, matchers and keys are never touched"                  *)
(* (cursor_hooks.rs:403): over any sequence of installs, uninstalls and    *)
(* edits an entry that is not ICG's is lost only if a run was cut short or *)
(* the file was edited while the installer ran.  One interrupted run costs *)
(* at most the entries that were added after the backup was made: the      *)
(* others are in the file or in its backup.                                *)
ConfigurationsSurvive ==
    /\ ipc # "fill" /\ cuts = 0 /\ ~raced => Foreign(target) = owned
    /\ cuts <= 1 /\ ~raced =>
          owned \subseteq Foreign(target) \cup Foreign(backup) \cup late
                          \cup (IF ipc = "fill" THEN Foreign(merged) ELSE {})
=============================================================================
