---------------------------- MODULE WrapperLinks ----------------------------
(***************************************************************************)
(* `icg install` shadows the tools its packs name with symlinks to the     *)
(* running binary, in a directory that package managers write to as well;  *)
(* `icg install --uninstall` takes them away.  Both look at the directory, *)
(* ask the operator (without --force), and then work from what they saw,   *)
(* one keyword after the other.                                            *)
(***************************************************************************)
EXTENDS Naturals

CONSTANTS
    Tools,          \* keywords of the loaded command packs
    NeverShadowed,  \* keywords that are skipped: kubectl
    MaxCalls        \* bound: failed system calls and kills

ToolsAreKnown == NeverShadowed \subseteq Tools /\ NeverShadowed # Tools /\ MaxCalls \in Nat

VARIABLES
    links,     \* what is at <install dir>/<tool>
    wop,       \* "install" or "uninstall"
    wpc,       \* "idle", "ask", "work" or "link"
    force,     \* --force
    found,     \* the files the run has listed
    pending,   \* keywords still to be handled
    current,   \* the keyword whose link comes next
    failed,    \* keywords that could not be handled
    outcome,   \* how the latest run ended
    troubles,  \* system calls that failed, and kills
    touched,   \* history: paths somebody else has changed since the listing
    unlisted   \* history: files of others removed that were not listed

vars == <<links, wop, wpc, force, found, pending, current, failed, outcome, troubles, touched,
          unlisted>>

(* A path may hold nothing, a link to this icg, anything else that exists, *)
(* or a link whose target does not exist.                                  *)
Files == {"absent", "icg", "other", "dangling"}
Shadowed == Tools \ NeverShadowed
(* Path::exists follows a link.                                            *)
Exists(t) == links[t] \in {"icg", "other"}

TypeOK ==
    /\ links \in [Tools -> Files]
    /\ wop \in {"install", "uninstall"}
    /\ wpc \in {"idle", "ask", "work", "link"}
    /\ force \in BOOLEAN
    /\ {found, pending, failed} \subseteq SUBSET Tools /\ current \in Tools
    /\ outcome \in {"none", "ok", "cancelled", "failed", "aborted", "killed"}
    /\ troubles \in 0..MaxCalls
    /\ touched \subseteq Tools /\ unlisted \subseteq Tools

Init ==
    /\ links \in [Tools -> Files]
    /\ wop = "install" /\ wpc = "idle" /\ force = FALSE
    /\ found = {} /\ pending = {} /\ failed = {} /\ outcome = "none"
    /\ current = CHOOSE t \in Tools : TRUE
    /\ troubles = 0 /\ touched = {} /\ unlisted = {}

(* A run begins by listing.                                                *)
Begin(op, forced, files, work) ==
    /\ wpc = "idle"
    /\ wop' = op /\ force' = forced
    /\ found' = files /\ pending' = work /\ failed' = {}
    /\ outcome' = "none" /\ touched' = {} /\ unlisted' = {}
    /\ wpc' = IF files # {} /\ ~forced THEN "ask" ELSE "work"
    /\ UNCHANGED <<links, current, troubles>>

StartInstall(forced) ==
    Begin("install", forced, {t \in Shadowed : Exists(t)}, Shadowed)

(* Mutant: the loop works from the keywords, not from the listed links.     *)
StartUninstallByName(forced) ==
    Begin("uninstall", forced, {t \in Tools : links[t] = "icg"}, {t \in Shadowed : Exists(t)})

StartUninstall(forced) ==
    LET ours == {t \in Tools : links[t] = "icg"}
    IN Begin("uninstall", forced, ours, ours)

End(how) == wpc' = "idle" /\ outcome' = how

Answer ==
    /\ wpc = "ask"
    /\ \/ wpc' = "work" /\ UNCHANGED outcome
       \/ End("cancelled")
    /\ UNCHANGED <<links, wop, force, found, pending, current, failed, troubles, touched, unlisted>>

Trouble == troubles < MaxCalls /\ troubles' = troubles + 1

(* The file at t goes.                                                     *)
Removed(t) ==
    /\ links' = [links EXCEPT ![t] = "absent"]
    /\ unlisted' = IF links[t] = "other" /\ t \notin found /\ ~force
                   THEN unlisted \cup {t} ELSE unlisted

(* The install loop, for one keyword: what exists there is removed first,  *)
(* and a failure to remove it ends the run at once.                        *)
Clear(t) ==
    /\ wop = "install" /\ wpc = "work" /\ t \in pending
    /\ IF ~Exists(t)
       THEN wpc' = "link" /\ UNCHANGED <<links, unlisted, outcome, troubles>>
       ELSE \/ Removed(t) /\ wpc' = "link" /\ UNCHANGED <<outcome, troubles>>
            \/ Trouble /\ End("aborted") /\ UNCHANGED <<links, unlisted>>
    /\ current' = t
    /\ UNCHANGED <<wop, force, found, pending, failed, touched>>

Handled(t) == pending' = pending \ {t} /\ wpc' = "work"

(* symlink(2) replaces nothing: whatever is there makes it fail, and the   *)
(* keyword is reported at the end.                                         *)
Link ==
    /\ wpc = "link"
    /\ Handled(current)
    /\ \/ links[current] = "absent" /\ links' = [links EXCEPT ![current] = "icg"]
          /\ UNCHANGED <<failed, troubles>>
       \/ links[current] # "absent" /\ failed' = failed \cup {current}
          /\ UNCHANGED <<links, troubles>>
       \/ links[current] = "absent" /\ Trouble /\ failed' = failed \cup {current}
          /\ UNCHANGED links
    /\ UNCHANGED <<wop, force, found, current, outcome, touched, unlisted>>

(* The uninstall loop, for one listed link: the path is removed, whatever  *)
(* it holds by now.                                                        *)
Unlink(t) ==
    /\ wop = "uninstall" /\ wpc = "work" /\ t \in pending
    /\ Handled(t)
    /\ \/ links[t] # "absent" /\ Removed(t) /\ UNCHANGED <<failed, troubles>>
       \/ links[t] = "absent" /\ failed' = failed \cup {t}
          /\ UNCHANGED <<links, unlisted, troubles>>
       \/ links[t] # "absent" /\ Trouble /\ failed' = failed \cup {t}
          /\ UNCHANGED <<links, unlisted>>
    /\ UNCHANGED <<wop, force, found, current, outcome, touched>>

Report ==
    /\ wpc = "work" /\ pending = {}
    /\ End(IF failed = {} THEN "ok" ELSE "failed")
    /\ UNCHANGED <<links, wop, force, found, pending, current, failed, troubles, touched, unlisted>>

KillRun ==
    /\ wpc # "idle" /\ Trouble /\ End("killed")
    /\ UNCHANGED <<links, wop, force, found, pending, current, failed, touched, unlisted>>

(* A package manager or the operator changes a path.                       *)
Replace(t, file) ==
    /\ file # links[t]
    /\ links' = [links EXCEPT ![t] = file]
    /\ touched' = touched \cup {t}
    /\ UNCHANGED <<wop, wpc, force, found, pending, current, failed, outcome, troubles, unlisted>>

(* icg itself moves: its old links point to nothing, or to the old binary. *)
MoveBinary(left) ==
    /\ wpc = "idle" /\ outcome' = "none"
    /\ links' = [t \in Tools |-> IF links[t] = "icg" THEN left ELSE links[t]]
    /\ UNCHANGED <<wop, wpc, force, found, pending, current, failed, troubles, touched, unlisted>>

Next ==
    \/ \E forced \in BOOLEAN : StartInstall(forced) \/ StartUninstall(forced)
    \/ Answer \/ Link \/ Report \/ KillRun
    \/ \E t \in Tools : Clear(t) \/ Unlink(t)
    \/ \E t \in Tools, file \in {"absent", "other"} : Replace(t, file)
    \/ \E left \in {"dangling", "other"} : MoveBinary(left)

Spec == Init /\ [][Next]_vars

(* A run's report is true: an install that succeeds has linked every       *)
(* keyword, an uninstall has left no link of the listed ones, but for the  *)
(* paths somebody else has changed meanwhile; an install reports a failure *)
(* only if a system call failed, a path was changed, or a dangling link,   *)
(* which Path::exists does not see, is in the way; and a file of somebody  *)
(* else that was not listed to the operator is removed only if it was put  *)
(* there after the listing (documented_commands.rs, run_install).          *)
WrapperReportIsTrue ==
    /\ outcome = "ok" /\ wop = "install" =>
         \A t \in Shadowed \ touched : links[t] = "icg"
    /\ outcome = "ok" /\ wop = "uninstall" =>
         \A t \in Tools \ touched : links[t] # "icg"
    /\ outcome = "failed" /\ troubles = 0 =>
         \A t \in failed \ touched : wop = "install" /\ links[t] = "dangling"
    /\ unlisted \subseteq touched
=============================================================================
