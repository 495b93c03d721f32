---------------------------- MODULE ToolPayloads ----------------------------
(***************************************************************************)
(* One call of a harness, from its payload to what the harness does with   *)
(* the response: the payload is admitted and shaped, a patch is read line  *)
(* by line into the files it touches, the engine judges what was found     *)
(* (RuleEngine; here any verdict), and the verdict is put into the         *)
(* harness's own envelope.                                                 *)
(*                                                                         *)
(* A text is a sequence of lines, each with the `kind` that its prefix     *)
(* gives it as a line of a patch, and with what the guard `reads` it as,   *)
(* which compares markers and hunks with the trimmed line; no line is a    *)
(* blank text.                                                             *)
(***************************************************************************)
EXTENDS Naturals, SequencesExt

VARIABLES
    payload,   \* what the harness sent
    stage,     \* "read", "patch", "judge", "render", "act" or "done"
    unread,    \* lines of the patch not yet read
    begun,     \* the begin marker was seen
    current,   \* the file whose lines are being read, if there is one
    files,     \* the files read before it
    source,    \* what the engine is given
    decision,  \* its verdict
    response,  \* the envelope: the fields that are present
    executed   \* the input the harness runs the tool with

payloadVars == <<payload, stage, unread, begun, current, files, source, decision, response, executed>>

NoFile == <<>>
NoSource == [kind |-> "none"]
Pending == [kind |-> "none", matched |-> <<>>]
Blocked == [blocked |-> TRUE]
Rewritten == <<[kind |-> "other", reads |-> "other", path |-> "", text |-> "rewritten"]>>

(* Fields: one, and some that take the place of others.                    *)
Only(name, value) == [f \in {name} |-> value]
Over(fields, others) ==
    [f \in DOMAIN fields \cup DOMAIN others |-> IF f \in DOMAIN fields THEN fields[f] ELSE others[f]]
None == [f \in {} |-> ""]
When(condition, fields) == IF condition THEN fields ELSE None

-----------------------------------------------------------------------------
(* What the harnesses' wires can express.                                  *)

Can(updatedInput, additionalContext, allowDecision) ==
    [updatedInput |-> updatedInput, additionalContext |-> additionalContext,
     allowDecision |-> allowDecision]
Capabilities ==
    [claude |-> Can(TRUE, TRUE, TRUE), codex |-> Can(FALSE, TRUE, FALSE),
     gemini |-> Can(TRUE, FALSE, FALSE), opencode |-> Can(TRUE, FALSE, FALSE),
     cursor |-> Can(TRUE, FALSE, TRUE), cursorShell |-> Can(FALSE, FALSE, TRUE)]

-----------------------------------------------------------------------------
(* Admission.                                                              *)

CommandTools == {"Bash", "Shell", "run_shell_command", "bash"}
WriteTools == {"Write", "write_file", "write"}
EditTools == {"Edit", "replace", "edit"}

Has(input, fields) == fields \subseteq DOMAIN input
NonBlank(input, field) == field \in DOMAIN input /\ input[field] # <<>>
Field(input, names) == input[CHOOSE n \in names : n \in DOMAIN input]

(* A field may be spelled as the harness likes.                            *)
Path == {"file_path", "filePath"}
Old == {"old_string", "oldString"}
New == {"new_string", "newString"}
Gives(input, names) == names \cap DOMAIN input # {}
SpelledOnce(input) == \A names \in {Path, Old, New} : \A f, g \in names \cap DOMAIN input : f = g
EditShape(input) == Gives(input, Old) /\ Gives(input, New)

ValidInput(tool, input) ==
    /\ tool \in CommandTools \cup {"apply_patch"} => NonBlank(input, "command")
    /\ tool \in WriteTools \cup EditTools => Gives(input, Path)
    /\ tool \in WriteTools => "content" \in DOMAIN input \/ EditShape(input)
    /\ tool \in EditTools => EditShape(input)

(* The three readers: a payload is parsed, and only that of the shared     *)
(* event is validated here.                                                *)
Admitted(p) ==
    /\ p.parses
    /\ p.wire = "shell" => NonBlank(p.input, "command")
    /\ p.wire \in {"tool", "opencode"} => p.tool # ""
    /\ p.wire = "tool" => ValidInput(p.tool, p.input)

(* What a harness can send: a field that is spelled twice is no input, as  *)
(* the parser refuses it, and a command is a text.                         *)
IsCall(p) ==
    /\ p.parses \in BOOLEAN
    /\ p.harness \in DOMAIN Capabilities
    /\ p.input = [f \in DOMAIN p.input |-> p.input[f]]
    /\ "blocked" \notin DOMAIN p.input
    /\ p.parses => SpelledOnce(p.input)
    /\ "command" \in DOMAIN p.input => p.input.command \in Seq(ToSet(p.input.command))

Tool(p) == IF p.wire = "shell" THEN "Shell" ELSE p.tool

(* What the engine is given for an admitted payload that is not a patch.   *)
Classified(tool, input) ==
    IF tool \in CommandTools
    THEN IF Has(input, {"command"}) THEN [kind |-> "command", text |-> input.command] ELSE NoSource
    ELSE IF tool \in WriteTools /\ Gives(input, Path) /\ "content" \in DOMAIN input
    THEN [kind |-> "write", path |-> Field(input, Path), text |-> input.content]
    ELSE IF tool \in WriteTools \cup EditTools /\ Gives(input, Path) /\ EditShape(input)
    THEN [kind |-> "edit", path |-> Field(input, Path), text |-> Field(input, New)]
    ELSE NoSource

Admit ==
    /\ stage = "read"
    /\ LET tool == Tool(payload)
           patch == tool = "apply_patch" /\ Has(payload.input, {"command"})
       IN IF ~Admitted(payload) THEN stage' = "judge" /\ UNCHANGED <<unread, source>>
          ELSE IF patch
          THEN /\ stage' = "patch" /\ UNCHANGED source
               /\ unread' = payload.input.command
          ELSE stage' = "judge" /\ source' = Classified(tool, payload.input) /\ UNCHANGED unread
    /\ UNCHANGED <<payload, begun, current, files, decision, response, executed>>

-----------------------------------------------------------------------------
(* normalize_apply_patch, a line a step.                                   *)

Line == Head(unread)
Reading(kinds) == stage = "patch" /\ unread # <<>> /\ Line.reads \in kinds
Flushed == files \o current
PatchDone(found) ==
    /\ stage' = "judge"
    /\ source' = IF found = <<>> THEN NoSource ELSE [kind |-> "files", files |-> found]
    /\ unread' = <<>> /\ current' = NoFile /\ files' = <<>>
Touches(path) == [path |-> path, content |-> <<>>]
NextLine == unread' = Tail(unread) /\ UNCHANGED <<stage, source>>
PatchFrame == UNCHANGED <<payload, decision, response, executed>>

(* A second begin marker makes the text no patch.                          *)
BeginMarker ==
    /\ Reading({"begin"})
    /\ IF begun THEN PatchDone(<<>>) /\ UNCHANGED begun
       ELSE begun' = TRUE /\ NextLine /\ UNCHANGED <<current, files>>
    /\ PatchFrame

(* The end marker, or the end of a text that was cut off before it.        *)
EndOfPatch ==
    /\ Reading({"end"}) \/ (stage = "patch" /\ unread = <<>>)
    /\ PatchDone(IF begun THEN Flushed ELSE <<>>)
    /\ UNCHANGED begun /\ PatchFrame

Skip ==
    /\ stage = "patch" /\ unread # <<>>
    /\ Line.reads \notin {"begin", "end"}
    /\ \/ ~begun
       \/ Line.reads \in {"metadata", "removed", "other"}
       \/ Line.reads \in {"move", "added", "context"} /\ current = NoFile
    /\ NextLine
    /\ UNCHANGED <<begun, current, files>> /\ PatchFrame

(* `*** Update File:`, `*** Add File:` and `*** Delete File:`.             *)
FileHeader ==
    /\ begun /\ Reading({"header"})
    /\ files' = Flushed
    /\ current' = <<Touches(Line.path)>>
    /\ NextLine
    /\ UNCHANGED begun /\ PatchFrame

(* Mutant: the destination takes the place of the source.                  *)
MoveOverwrites ==
    /\ begun /\ Reading({"move"}) /\ current # NoFile
    /\ current' = <<Touches(Line.path)>>
    /\ NextLine
    /\ UNCHANGED <<begun, files>> /\ PatchFrame

(* The source of a move is touched too, and stays an entry of its own.     *)
MoveHeader ==
    /\ begun /\ Reading({"move"}) /\ current # NoFile
    /\ IF Line.path = current[1].path THEN UNCHANGED <<current, files>>
       ELSE files' = Flushed /\ current' = <<Touches(Line.path)>>
    /\ NextLine
    /\ UNCHANGED begun /\ PatchFrame

ContentLine ==
    /\ begun /\ Reading({"added", "context"}) /\ current # NoFile
    /\ current' = <<[current[1] EXCEPT !.content = Append(@, Line.text)]>>
    /\ NextLine
    /\ UNCHANGED <<begun, files>> /\ PatchFrame

-----------------------------------------------------------------------------
(* The verdict, and how a front end attributes it.                         *)

Verdicts == {"allow", "warn", "rewrite", "deny"}
Paths(s) ==
    IF s.kind = "files" THEN [k \in DOMAIN s.files |-> s.files[k].path]
    ELSE IF s.kind \in {"write", "edit"} THEN <<s.path>> ELSE <<>>

(* A call that gave the engine nothing is allowed, unless a crash of the   *)
(* guard was just recovered.  The guard for workflow files names the path. *)
Judge ==
    /\ stage = "judge"
    /\ \E v \in IF source = NoSource THEN {"allow", "deny"} ELSE Verdicts,
          matched \in {<<>>} \cup {<<p>> : p \in ToSet(Paths(source))} :
         /\ matched # <<>> => v = "deny"
         /\ decision' = [kind |-> v, matched |-> matched]
    /\ stage' = "render"
    /\ UNCHANGED <<payload, unread, begun, current, files, source, response, executed>>

(* attributed_reason: the path the detection names, or else the files.     *)
AttributedReason ==
    [rule |-> "rule",
     file |-> IF decision.matched # <<>> THEN decision.matched ELSE Paths(source)]

-----------------------------------------------------------------------------
(* The harnesses' envelopes.                                               *)

Supports == Capabilities[payload.harness]

(* Mutant: a patch that touches one file is rewritten like a written file. *)
RewriteKeyOfFile ==
    IF source.kind = "write" \/ (source.kind = "files" /\ Len(source.files) = 1) THEN "content"
    ELSE IF source.kind # "edit" THEN "command"
    ELSE IF "new_string" \in DOMAIN payload.input THEN "new_string" ELSE "newString"

(* The kind of action, as the response needs it.                           *)
RewriteKey ==
    IF Tool(payload) = "apply_patch" THEN "command"
    ELSE IF source.kind = "write" THEN "content"
    ELSE IF source.kind # "edit" THEN "command"
    ELSE IF "new_string" \in DOMAIN payload.input THEN "new_string" ELSE "newString"

(* A complete replacement: every field that was sent, and the rewritten one.*)
Replacement == Over(Only(RewriteKey, Rewritten), payload.input)

Rewrites == decision.kind = "rewrite" /\ Supports.updatedInput
Denies == decision.kind = "deny" \/ (decision.kind = "rewrite" /\ ~Supports.updatedInput)

SharedEnvelope ==
    IF Denies
    THEN Over(Only("permissionDecision", "deny"), Only("permissionDecisionReason", AttributedReason))
    ELSE Over(Over(When(Supports.allowDecision, Only("permissionDecision", "allow")),
                   When(Rewrites, Only("updatedInput", Replacement))),
              When((decision.kind = "warn" \/ Rewrites) /\ Supports.additionalContext,
                   Only("additionalContext", AttributedReason)))

CursorEnvelope ==
    IF Denies
    THEN Over(Only("permission", "deny"),
              Over(Only("user_message", AttributedReason), Only("agent_message", AttributedReason)))
    ELSE Over(Only("permission", "allow"), When(Rewrites, Only("updated_input", Replacement)))

GeminiEnvelope ==
    IF Denies THEN Over(Only("decision", "deny"), Only("reason", AttributedReason))
    ELSE Over(When(decision.kind = "warn", Only("systemMessage", AttributedReason)),
              When(Rewrites, Only("tool_input", Replacement)))

OpenCodeEnvelope ==
    IF Denies THEN Over(Only("action", "deny"), Only("message", AttributedReason))
    ELSE IF Rewrites THEN Over(Only("action", "rewrite"), Only("args", Replacement))
    ELSE Only("action", "allow")

Render ==
    /\ stage = "render"
    /\ response' = CASE payload.harness \in {"claude", "codex"} -> SharedEnvelope
                     [] payload.harness \in {"cursor", "cursorShell"} -> CursorEnvelope
                     [] payload.harness = "gemini" -> GeminiEnvelope
                     [] payload.harness = "opencode" -> OpenCodeEnvelope
    /\ stage' = "act"
    /\ UNCHANGED <<payload, unread, begun, current, files, source, decision, executed>>

(* What the harness reads in the response: a field that vetoes, a field    *)
(* with another input, and anything else means that the call goes on.      *)
Veto == {"permissionDecision", "permission", "decision", "action"}
OtherInput == {"updatedInput", "updated_input", "tool_input", "args"}

Act ==
    /\ stage = "act"
    /\ executed' =
         IF \E f \in Veto \cap DOMAIN response : response[f] = "deny" THEN Blocked
         ELSE IF OtherInput \cap DOMAIN response # {}
         THEN Over(Field(response, OtherInput), payload.input)
         ELSE payload.input
    /\ stage' = "done"
    /\ UNCHANGED <<payload, unread, begun, current, files, source, decision, response>>

-----------------------------------------------------------------------------

PayloadInit(payloads) ==
    /\ payload \in payloads
    /\ stage = "read"
    /\ unread = <<>> /\ begun = FALSE /\ current = NoFile /\ files = <<>>
    /\ source = NoSource /\ decision = Pending /\ response = None /\ executed = None

PayloadNext ==
    \/ Admit
    \/ BeginMarker \/ EndOfPatch \/ Skip \/ FileHeader \/ MoveHeader \/ ContentLine
    \/ Judge \/ Render \/ Act

-----------------------------------------------------------------------------
(* Properties.                                                             *)

(* The text a tool acts with, whatever the guard makes of the call.        *)
Acted(tool) ==
    IF tool \in CommandTools \cup {"apply_patch"} THEN {"command"}
    ELSE IF tool \in WriteTools /\ "content" \in DOMAIN payload.input THEN {"content"}
    ELSE New

(* A sequence that runs through a set of places in their order.            *)
InOrder(s, places) ==
    /\ {s[i] : i \in DOMAIN s} = places
    /\ \A i, j \in DOMAIN s : i < j => s[i] < s[j]

(* No line is taken for a marker, or for the name of a file, but those     *)
(* that are one.                                                           *)
Marks == {"begin", "end", "header", "move"}
Unmistaken(text) ==
    \A k \in DOMAIN text : text[k].kind \in Marks \/ text[k].reads \in Marks =>
                             text[k].reads = text[k].kind

(* The lines of a patch that count: those between its markers.             *)
Begins(text) == {b \in DOMAIN text : text[b].kind = "begin" /\ \A e \in 1..b : text[e].kind # "end"}
Inside(text) ==
    {k \in DOMAIN text : (\E b \in Begins(text) : b < k) /\ \A e \in 1..k : text[e].kind # "end"}
BeginsOnce(text) == \E b \in Begins(text) : Begins(text) = {b}

(* Lines that name a file: headers, and moves of a file; a move to where   *)
(* the file is names no other.                                             *)
Headers(text) == {k \in Inside(text) : text[k].kind = "header"}
Naming(text) ==
    Headers(text) \cup {k \in Inside(text) : text[k].kind = "move" /\ \E h \in Headers(text) : h < k}
Stays(text, k) ==
    /\ text[k].kind = "move"
    /\ \E n \in Naming(text) : /\ n < k /\ text[n].path = text[k].path
                              /\ \A m \in Naming(text) : m <= n \/ k <= m
Touched(text) == {k \in Naming(text) : ~Stays(text, k)}

(* The lines that a touched file will have, but for those that look like   *)
(* metadata to the guard: text that begins with `@@` in a line that is     *)
(* kept, or with two pluses in one that is added.                          *)
TextsAt(text, k) ==
    {t \in Inside(text) : /\ k < t /\ text[t].reads \in {"added", "context"}
                          /\ \A n \in Touched(text) : n <= k \/ t < n}
IsFileAt(file, text, k) ==
    /\ file.path = text[k].path
    /\ \E texts \in [DOMAIN file.content -> TextsAt(text, k)] :
         /\ InOrder(texts, TextsAt(text, k))
         /\ \A i \in DOMAIN texts : file.content[i] = text[texts[i]].text

(* A patch reaches the engine as the files it touches: whatever a header   *)
(* or a move names between the markers, with exactly the lines it adds     *)
(* before the next one; a text that is cut off loses nothing that was read,*)
(* and a text that names no file between markers gives the engine nothing. *)
(* Nothing is said of a text with more than one begin marker, which the    *)
(* guard refuses as a whole, nor of one in which a kept line spells a      *)
(* marker, which ends the reading early or counts as a second begin        *)
(* (engine.rs, normalize_apply_patch).                                     *)
PatchIsCovered(text) ==
    /\ Headers(text) = {} => source = NoSource
    /\ Headers(text) # {} /\ BeginsOnce(text) =>
         /\ source.kind = "files"
         /\ \E touched \in [DOMAIN source.files -> Touched(text)] :
              /\ InOrder(touched, Touched(text))
              /\ \A n \in DOMAIN touched : IsFileAt(source.files[n], text, touched[n])

(* What a call acts with is what the engine judges: a well-formed call of  *)
(* a known tool is never let through unseen, under any harness's spelling, *)
(* and the text that is judged is the text the tool will act with; for a   *)
(* patch with one begin marker and no kept line that spells a marker, that *)
(* is every file it touches (engine.rs, adapter.rs).                       *)
CallsAreJudged ==
    stage \in {"judge", "render", "act", "done"} /\ payload.parses =>
        LET tool == Tool(payload)
            known == CommandTools \cup WriteTools \cup EditTools
        IN /\ tool \in known /\ ValidInput(tool, payload.input) =>
                /\ source # NoSource
                /\ source.text = Field(payload.input, Acted(tool))
                /\ tool \notin CommandTools => source.path = Field(payload.input, Path)
           /\ /\ tool = "apply_patch" /\ NonBlank(payload.input, "command")
              /\ Unmistaken(payload.input.command)
              => PatchIsCovered(payload.input.command)

Explanations == {"permissionDecisionReason", "user_message", "reason", "message"}

(* The harness does what was decided: a denied call does not run; a call   *)
(* that is to be rewritten runs with the text its tool acts with replaced  *)
(* and every other field as it was sent, or not at all; any other call     *)
(* runs untouched.  A refusal names its rule and the files, if any, that   *)
(* it is about (adapter.rs).                                               *)
VerdictIsExecuted ==
    stage = "done" =>
        LET acted == CHOOSE f \in Acted(Tool(payload)) : f \in DOMAIN payload.input
        IN /\ decision.kind = "deny" => executed = Blocked
           /\ decision.kind \in {"allow", "warn"} => executed = payload.input
           /\ decision.kind = "rewrite" =>
                \/ executed = Blocked /\ payload.harness \in {"codex", "cursorShell"}
                \/ executed = [payload.input EXCEPT ![acted] = Rewritten]
           /\ executed = Blocked =>
                \E f \in Explanations \cap DOMAIN response :
                    response[f] = [rule |-> "rule",
                                   file |-> IF decision.matched # <<>> THEN decision.matched
                                            ELSE Paths(source)]
=============================================================================
