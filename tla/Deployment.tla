----------------------------- MODULE Deployment -----------------------------
(***************************************************************************)
(* What changes on a machine when ICG is deployed: the pack directory      *)
(* (PackDirectory), the configuration files of the harnesses               *)
(* (HarnessInstallers) and the symlinks that shadow tools (WrapperLinks).  *)
(* The three commands share no file and no lock, so a step of one is a     *)
(* stutter of the others; a behaviour therefore follows the processes of   *)
(* one part, and the other two rest in an initial state.                   *)
(***************************************************************************)
EXTENDS PackDirectory

CONSTANTS IcgEntries, ForeignEntries, MaxCuts,    \* of HarnessInstallers
          Tools, NeverShadowed, MaxCalls          \* of WrapperLinks

VARIABLES
    part,  \* the part whose processes run in this behaviour
    \* of HarnessInstallers
    kind, target, backup, ipc, existing, merged, cuts, owned, late, raced,
    \* of WrapperLinks
    links, wop, wpc, force, found, pending, current, failed, outcome, troubles,
    touched, unlisted

harnessVars == <<kind, target, backup, ipc, existing, merged, cuts, owned, late, raced>>
wrapperVars == <<links, wop, wpc, force, found, pending, current, failed, outcome, troubles,
                 touched, unlisted>>
deploymentVars == <<part, vars, harnessVars, wrapperVars>>

Harness == INSTANCE HarnessInstallers
Wrapper == INSTANCE WrapperLinks

ASSUME HarnessAssumption == Harness!EntriesAreDisjoint
ASSUME WrapperAssumption == Wrapper!ToolsAreKnown

DeploymentInit ==
    /\ part \in {"packs", "harness", "wrapper"}
    /\ Init /\ (part # "packs" => active = NoTree)
    /\ Harness!Init /\ (part # "harness" => kind = "cursor" /\ target = Harness!Absent)
    /\ Wrapper!Init /\ (part # "wrapper" => links = [t \in Tools |-> "absent"])

DeploymentNext ==
    /\ UNCHANGED part
    /\ \/ part = "packs" /\ Next /\ UNCHANGED <<harnessVars, wrapperVars>>
       \/ part = "harness" /\ Harness!Next /\ UNCHANGED <<vars, wrapperVars>>
       \/ part = "wrapper" /\ Wrapper!Next /\ UNCHANGED <<vars, harnessVars>>

DeploymentSpec == DeploymentInit /\ [][DeploymentNext]_deploymentVars

-----------------------------------------------------------------------------
(* The properties of the parts; those of PackDirectory come with it.       *)

(* Installers lose nobody else's hooks, and one that was interrupted       *)
(* leaves what it found in the file or its backup (cursor_hooks.rs,        *)
(* gemini_hooks.rs, opencode_plugin.rs).                                   *)
ConfigurationsSurvive == Harness!ConfigurationsSurvive
(* Wrapper installs and uninstalls do what they report                     *)
(* (documented_commands.rs, run_install and run_uninstall).                *)
WrapperReportIsTrue == Wrapper!WrapperReportIsTrue
=============================================================================
