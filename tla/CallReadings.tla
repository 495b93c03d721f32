---------------------------- MODULE CallReadings ----------------------------
(***************************************************************************)
(* How the hook reads a call before it judges it: a command line becomes   *)
(* tokens (ShellWords), a harness's payload becomes what the engine is     *)
(* given and the decision becomes its envelope (ToolPayloads), and a write  *)
(* is related to packs, guarded places, Jobs and versions (ContentGuards). *)
(* The readers share no state, each is called with a value of its own; a   *)
(* behaviour follows one of them while the other two rest.                 *)
(***************************************************************************)
CONSTANTS Scripts, Names, Shells, Wrappers, TakesOperand, LongFlags, MaxDepth,  \* of ShellWords
          Payloads,             \* of ToolPayloads
          Questions, Written    \* of ContentGuards

VARIABLES
    part,  \* the reader that runs in this behaviour
    script, rest, ctx, outer, commands, jobs, depth, tokens,
    payload, stage, unread, begun, current, files, source, decision, response, executed,
    question, lines, block, answer

wordsVars == <<script, rest, ctx, outer, commands, jobs, depth, tokens>>
callsVars == <<payload, stage, unread, begun, current, files, source, decision, response, executed>>
guardsVars == <<question, lines, block, answer>>
readingVars == <<part, wordsVars, callsVars, guardsVars>>

Words == INSTANCE ShellWords
Tools == INSTANCE ToolPayloads
Guards == INSTANCE ContentGuards

(* What a harness sends is a call (ToolPayloads, IsCall).                  *)
ASSUME PayloadsAssumption == \A p \in Payloads : Tools!IsCall(p)

(* A part rests without an input: nothing was asked of it.                 *)
NoScript == [text |-> <<>>, argvs |-> <<>>, runs |-> <<>>]
NoCall == [parses |-> FALSE]
NoQuestion == [kind |-> "none"]

ReadingInit ==
    /\ part \in {"words", "calls", "guards"}
    /\ Words!LexInit(IF part = "words" THEN Scripts ELSE {NoScript})
    /\ Tools!PayloadInit(IF part = "calls" THEN Payloads ELSE {NoCall})
    /\ Guards!GuardsInit(IF part = "guards" THEN Questions ELSE {NoQuestion})

ReadingNext ==
    /\ UNCHANGED part
    /\ \/ part = "words" /\ Words!LexNext /\ UNCHANGED <<callsVars, guardsVars>>
       \/ part = "calls" /\ Tools!PayloadNext /\ UNCHANGED <<wordsVars, guardsVars>>
       \/ part = "guards" /\ Guards!GuardsNext /\ UNCHANGED <<wordsVars, callsVars>>

ReadingSpec == ReadingInit /\ [][ReadingNext]_readingVars

-----------------------------------------------------------------------------
(* The properties of the parts.                                            *)

(* No command hides from the packs (engine.rs, segment_command).           *)
EveryCommandIsSeen == Words!EveryCommandIsSeen
(* The engine judges what the tool will act with (engine.rs, adapter.rs).  *)
CallsAreJudged == Tools!CallsAreJudged
(* The harness does what the engine decided (adapter.rs).                  *)
VerdictIsExecuted == Tools!VerdictIsExecuted
(* A write is judged by the place it leads to and by what its text says    *)
(* (engine.rs, github_workflows.rs, job_cronjob_yaml.rs,                   *)
(* value_derivation.rs).                                                   *)
GuardsJudgeTheTarget == Guards!GuardsJudgeTheTarget
=============================================================================
