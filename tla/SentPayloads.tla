---------------------------- MODULE SentPayloads ----------------------------
(***************************************************************************)
(* The payloads that ToolPayloads is run on: every way to fill in or leave *)
(* out the fields of a call, and every short patch.                        *)
(***************************************************************************)
EXTENDS Naturals, Sequences

PatchLine(kind, path, text) == [kind |-> kind, reads |-> kind, path |-> path, text |-> text]
(* A line that is kept or added, whose text looks like something else.     *)
Looks(line, reads) == [line EXCEPT !.reads = reads]
Kept == PatchLine("context", "", "y")
Added == PatchLine("added", "", "x")
Begin == PatchLine("begin", "", "")

PatchLines ==
    {Begin, PatchLine("end", "", ""), PatchLine("header", "a", ""), PatchLine("header", "b", ""),
     PatchLine("move", "b", ""), PatchLine("move", "a", ""), Added, Kept,
     PatchLine("metadata", "", "m"), PatchLine("removed", "", "r"),
     Looks(Kept, "begin"), Looks(Kept, "end"), Looks(Kept, "metadata"), Looks(Added, "metadata")}
BodiesUpTo(n) == UNION {[1..k -> PatchLines] : k \in 0..n}
PatchesUpTo(n) ==
    {<<Begin>> \o body : body \in BodiesUpTo(n)}
    \cup {<<PatchLine("header", "b", "")>> \o body : body \in BodiesUpTo(n - 1)}

Spelled(a, b) == {{}, {a}, {b}}
FieldSets ==
    {own \cup path \cup old \cup new :
       own \in SUBSET {"command", "content"}, path \in Spelled("file_path", "filePath"),
       old \in Spelled("old_string", "oldString"), new \in Spelled("new_string", "newString")}
(* The text of a field says which field it is.                             *)
Inputs ==
    {[f \in fields \cup {"extra"} |-> <<PatchLine("other", "", f)>>] : fields \in FieldSets}
    \cup {[command |-> <<>>, extra |-> <<PatchLine("other", "", "extra")>>]}

Sent(harness, wire, parses, tool, input) ==
    [harness |-> harness, wire |-> wire, parses |-> parses, tool |-> tool, input |-> input]
AllPayloads ==
    {Sent(h, "tool", TRUE, t, i) : h \in {"claude", "cursor", "gemini", "codex"}, i \in Inputs,
        t \in {"Bash", "Write", "Edit", "apply_patch", "mcp", ""}}
    \cup {Sent("claude", "tool", FALSE, "Bash", i) : i \in Inputs}
    \cup {Sent("cursorShell", "shell", TRUE, "", i) : i \in Inputs}
    \cup {Sent("opencode", "opencode", TRUE, t, i) :
            t \in {"bash", "write", "edit", "apply_patch", ""}, i \in Inputs \cup {[f \in {} |-> <<>>]}}
    \cup {Sent("codex", "tool", TRUE, "apply_patch", [command |-> p]) : p \in PatchesUpTo(3)}
    \cup {Sent("opencode", "opencode", TRUE, "apply_patch", [command |-> p, extra |-> p]) : p \in PatchesUpTo(2)}
=============================================================================
