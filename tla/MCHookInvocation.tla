-------------------------- MODULE MCHookInvocation --------------------------
EXTENDS HookInvocation, TLC

CONSTANTS i1, i2

MCInvocations == {i1, i2}
Symmetry == Permutations(MCInvocations)

Rule(id, check, channel) ==
    [id |-> id, check |-> check, channel |-> channel, enabled |-> TRUE,
     wellFormed |-> TRUE, names |-> {}]
Off(rule) == [rule EXCEPT !.enabled = FALSE]
Safe(id) == [id |-> id, check |-> "command"]

MCPacks == {"secrets", "git", "beads", "yaml"}
MCPack ==
    [secrets |-> [keywords |-> {}, files |-> {}, safe |-> <<>>,
                  guarded |-> <<Rule("hint", "command", "warning"), Rule("token", "command", "deny")>>],
     git |-> [keywords |-> {"git"}, files |-> {}, safe |-> <<Safe("dry-run")>>,
              guarded |-> <<Rule("force", "command", "rewrite"), Off(Rule("clean", "command", "deny")),
                            Rule("stale", "command", "deny"), Rule("note", "command", "warning")>>],
     beads |-> [keywords |-> {"bd"}, files |-> {"bead"}, safe |-> <<>>,
                guarded |-> <<Rule("flush-first", "repair_requires_flush", "deny"),
                              Rule("pull-first", "flush_requires_pull", "deny"),
                              [Rule("old-name", "deprecated_command", "rewrite") EXCEPT !.names = {"br"}],
                              Rule("shared", "is_shared_checkout", "deny")>>],
     yaml |-> [keywords |-> {"br"}, files |-> {"yaml", "bead"}, safe |-> <<>>,
               guarded |-> <<Rule("tag", "content", "rewrite"), Rule("class", "content", "warning"),
                             Rule("audit", "command", "deny"),
                             [Rule("torn", "deprecated_command", "deny") EXCEPT !.wellFormed = FALSE]>>]]

Unit(mode, exe, file, matches, mentions) ==
    [mode |-> mode, exe |-> exe, file |-> file, matches |-> matches, mentions |-> mentions,
     builtin |-> FALSE]
Segment(exe, matches, mentions) == Unit("command", exe, "", matches, mentions)
File(file, matches) == Unit("content", "", file, matches, {})
Shell(front, units, matches) ==
    [front |-> front, kind |-> "command", units |-> units,
     raw |-> Segment("", matches, UNION {units[k].mentions : k \in DOMAIN units})]
Write(kind, units) == [front |-> "hook", kind |-> kind, units |-> units, raw |-> Segment("", {}, {})]

MCCall ==
    [pull |-> Shell("hook", <<Segment("git", {}, {"pull"})>>, {}),
     flush |-> Shell("wrapper", <<Segment("bd", {}, {"flush"})>>, {}),
     repair |-> Shell("hook", <<Segment("bd", {}, {"repair"})>>, {}),
     both |-> Shell("hook", <<Segment("git", {}, {"pull"}), Segment("bd", {}, {"flush"})>>, {}),
     compound |-> Shell("hook", <<Segment("git", {"force"}, {}),
                                  Segment("git", {"note", "clean"}, {})>>, {"hint"}),
     renamed |-> Shell("hook", <<Segment("br", {"old-name", "audit"}, {})>>, {}),
     leak |-> Shell("hook", <<Segment("git", {"dry-run", "stale"}, {})>>, {"hint", "token"}),
     argv |-> Shell("wrapper", <<Segment("git", {"force"}, {})>>, {"token"}),
     batch |-> Write("batch", <<File("yaml", {"tag", "class"}), File("bead", {"shared", "tag"})>>),
     workflow |-> Write("content", <<[File("other", {}) EXCEPT !.builtin = TRUE]>>),
     other |-> Write("unsupported", <<File("other", {})>>)]
MCCalls == DOMAIN MCCall

(* What the engine can answer; TLC tabulates both functions when it checks *)
(* their types.                                                            *)
MCChannels == [result : [channel : Channels, rule : STRING, pack : STRING], file : 0..2]
ASSUME DecisionsAreTyped == Decisions \in [Situations -> SUBSET MCChannels]
ASSUME DemandedIsTyped ==
    Demanded \in [DOMAIN Demanded -> [severest : Channels, undecided : BOOLEAN]]
ASSUME NeededIsTyped == Needed \in [MCCalls -> SUBSET MarkNames]
=============================================================================
