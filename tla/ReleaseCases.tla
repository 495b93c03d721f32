---------------------------- MODULE ReleaseCases ----------------------------
(***************************************************************************)
(* Inputs of the parts of PackReleases: texts for TextGates, packs and     *)
(* examples for RegressionSuites, releases for ReleaseGates, directories   *)
(* for PackSets, grants for OverrideLife and counts for DenyRates.         *)
(***************************************************************************)
LOCAL INSTANCE Naturals
LOCAL INSTANCE Sequences
LOCAL INSTANCE TLC

-----------------------------------------------------------------------------
(* Texts for TextGates: expressions with and without a repetition inside a *)
(* repeated group, edits of short expressions, redirects made of two       *)
(* clauses, and override files, saved by the program or written by hand.   *)

LOCAL Upto(set, n) == UNION {[1..k -> set] : k \in 0..n}

MCWords ==
    {"run", "do not", "cluster", "s", "repository", "repo", "release_ref", "release",
     "exempted_rule_ids", "rules", "justification", "reason", "other", "a", "b"}

(* Expressions.                                                            *)
Repeated ==
    {a \o q : a \in {<<"a">>, <<"[ab]">>, <<"\\d">>, <<".">>},
              q \in {<<>>, <<"+">>, <<"*">>, <<"?">>, <<"{n}">>}}
Group(before, inner, last, q, after) ==
    [kind |-> "regex", plain |-> {2},
     nested |-> IF Len(last) = 2 /\ last[2] \in {"+", "*"} /\ q \in {<<"+">>, <<"*">>} THEN {1} ELSE {},
     texts |-> <<before \o <<"(">> \o inner \o last \o <<")">> \o q \o after, <<"^", "\\d", "+">> >>]
Groups ==
    {Group(p, u, v, q, w) : p \in {<<>>, <<"^">>, <<"(", "a", ")">>}, u \in {<<>>, <<"x">>, <<"b", "|">>},
                            v \in Repeated, q \in {<<>>, <<"+">>, <<"*">>, <<"?">>},
                            w \in {<<>>, <<"b", "$">>}}
Plain(text) == [kind |-> "regex", texts |-> <<text>>, nested |-> {}, plain |-> {1}]
Ungrouped ==
    {Plain(p \o u \o v \o w) : p \in {<<>>, <<"^">>}, u \in {<<>>, <<"a", "b">>}, v \in Repeated,
                               w \in {<<>>, <<"x">>, <<"b", "+", "$">>}}

(* Edits.                                                                  *)
Short == Upto({"a", ".", "*", "+", "?", "[ab]", "^", "$"}, 2)
           \cup {<<".", "*", c>> : c \in {"a", "?", "$", "[ab]"}}
Edits == {[kind |-> "edit", previous |-> p, current |-> c] : p \in Short, c \in Short}

(* Redirects: clauses, and whether each offers a way out.                  *)
Offering ==
    {<<"run", " ", "a">>, <<"do not", " ", "b", " ", "run">>, <<"'", "-", "a", "'">>,
     <<"\"", "a", " ", "b", "\"">>, <<"tick", "a", "tick">>, <<"{value}">>, <<"https://x">>,
     <<"do not", ",", " ", "run">>}
Empty ==
    {<<"do not", " ", "run">>, <<"cluster", "'", "s", " ", "-", "a">>, <<"cluster", "'", " ", "a">>,
     <<"'", "a", "'">>, <<" ">>}
Redirect(reason, rewrite, offers) ==
    [kind |-> "redirect", reason |-> reason, rewrite |-> rewrite, offers |-> offers]
Redirects ==
    {Redirect(a \o <<" ", ",", " ">> \o b, r, {a, b} \cap Offering # {} \/ r = <<"a">>) :
        a \in Offering \cup Empty, b \in Offering \cup Empty, r \in {<<>>, <<" ">>, <<"a">>}}
    \cup {Redirect(<<" ">>, <<"a">>, FALSE), Redirect(<<>>, <<>>, FALSE)}

(* Overrides.                                                              *)
Override(reason, ids) ==
    [repository |-> <<"a">>, release_ref |-> <<"b">>, exempted_rule_ids |-> ids, justification |-> reason]
Saved ==
    {[kind |-> "saved", manifest |-> Override(reason, ids), before |-> b, after |-> a] :
        reason \in Upto({"a", "\"", "\\", "#", "=", "nl", ","}, 2) \cup {<<" ", "#", "]", "[", "n">>},
        ids \in {<<>>, <<<<"a">>>>, <<<<"a">>, <<"b", ",", "a">>>>, <<<<"]">>, <<"\"">>, <<"#">>>>},
        b \in {<<>>, <<<<" ">>, <<"#", "a", " ", "=">>>>}, a \in {<<>>, <<" ", "#", "\"">>}}

One == <<<<"repository", "=", "a">>, <<"release_ref", "=", "b">>,
         <<"exempted_rule_ids", "=", "[", "\"", "a", "\"", "]">>, <<"justification", "=", "\"", "a", "\"">>>>
ByHand(lines, means) == [kind |-> "override", lines |-> lines, means |-> means]
Meant == <<Override(<<"a">>, <<<<"a">>>>)>>
Refused ==
    {Tail(One)}
    \cup {Append(One, l) : l \in {<<"other", "=", "a">>, <<"repo", "=", "a">>, <<"repository", "=", "a">>,
                                  <<"[", "a", "]">>, <<"a">>, <<"=", "a">>, <<"a", "b", "=", "a">>}}
    \cup {[One EXCEPT ![3] = <<"rules", "=">> \o v] :
            v \in {<<"a">>, <<"[", "\"", "a", "\"">>, <<"[", ",", "]">>, <<"[", "a", " ", "b", "]">>}}
    \cup {[One EXCEPT ![4] = <<"reason", "=">> \o v] :
            v \in {<<>>, <<"[", "\"", "a", "\"", "]">>, <<"a", " ", "b">>, <<"\"", "\\", "a", "\"">>}}
Accepted ==
    {One, [One EXCEPT ![3] = <<"rules", "=", "[", "a", ",", " ", "]">>],
     [One EXCEPT ![4] = <<"reason", "=", "a">>], [One EXCEPT ![1] = <<"repo", " ", "=", "\"", "a", "\"">>]}

AllTexts ==
    Groups \cup Ungrouped \cup Edits \cup Redirects \cup Saved
    \cup {ByHand(l, <<>>) : l \in Refused} \cup {ByHand(l, Meant) : l \in Accepted}

-----------------------------------------------------------------------------
(* Packs, examples and recorded cases for RegressionSuites: every shape of *)
(* a rule alone and after a plain one, with and without a safe pattern;    *)
(* commands that the suites read as the engine does, and commands they do  *)
(* not: a quoted separator, a shell's command string, a wrapper's options. *)

MCBaseName == "/x" :> "x"

Command(words, tokens) == [mode |-> "command", words |-> words, tokens |-> tokens]
PlainCommand(words) == Command(words, <<words>>)
CommandInputs ==
    {PlainCommand(<<"x", "m">>), PlainCommand(<<"x", "n">>), PlainCommand(<<"x", "m", "n">>), PlainCommand(<<"y", "m">>),
     Command(<<"sudo", "v=1", "/x", "m">>, <<<<"x", "m">>>>),
     Command(<<"sudo", "-u", "x", "m">>, <<<<"x", "m">>>>),
     Command(<<"y", "n", ";", "x", "m">>, <<<<"y", "n">>, <<"x", "m">>>>),
     Command(<<"x", "n", ";", "x", "m">>, <<<<"x", "n">>, <<"x", "m">>>>),
     Command(<<"y", "'n", ";", "x", "m'">>, <<<<"y", "n ; x m">>>>),
     Command(<<"sh", "-c", "'x", "m'">>, <<<<"x", "m">>>>)}
ContentInputs == {[mode |-> "content", file |-> f, text |-> t] :
                    f \in {"yml", "yaml", "md"}, t \in {<<"m">>, <<"m", "n">>}}

NoExample == [mode |-> "none"]
EmptyExample == [mode |-> "empty"]

Guard(id, check, on) ==
    [id |-> id, check |-> check, on |-> on, broken |-> FALSE, enabled |-> TRUE,
     destructive |-> TRUE, channel |-> "deny", spells |-> <<"m">>, example |-> NoExample]
SafePattern(check, on) == [id |-> "s", check |-> check, on |-> on, broken |-> FALSE]

M == {"m", "m'"}
N == {"n", "'n"}
Predicate == "push_requires_current_remote_head"

GuardShapes(id) ==
    LET command == Guard(id, "command", M)
        content == Guard(id, "content", M)
    IN {command, [command EXCEPT !.spells = <<"x", "n">>], Guard(id, "command", N),
        [command EXCEPT !.enabled = FALSE], [command EXCEPT !.destructive = FALSE],
        [command EXCEPT !.channel = "rewrite"], [command EXCEPT !.broken = TRUE],
        [command EXCEPT !.example = EmptyExample], [content EXCEPT !.example = PlainCommand(<<"x", "m">>)],
        Guard(id, Predicate, M), content, [content EXCEPT !.on = N],
        [content EXCEPT !.enabled = FALSE],
        [content EXCEPT !.example = [mode |-> "content", file |-> "md", text |-> <<"m">>]],
        [content EXCEPT !.example = [mode |-> "content", file |-> "yml", text |-> <<"m", "n">>]]}
       \cup {[command EXCEPT !.example = e] : e \in CommandInputs}

SuitePack(id, keywords, globs, guarded, safe) ==
    [id |-> id, keywords |-> keywords, first |-> "x", globs |-> globs, guarded |-> guarded, safe |-> safe]

Guards ==
    {<<>>} \cup {<<g>> : g \in GuardShapes("r")}
    \cup {<<Guard("t", c, M), g>> : c \in {"command", "content"}, g \in GuardShapes("r")}
    \cup {<<g, Guard("t", "command", N)>> : g \in GuardShapes("r")}
    \cup {<<Guard("r", "command", N), g>> : g \in {Guard("r", "command", M)}}
HasContent(guarded) == \E i \in DOMAIN guarded : guarded[i].check = "content"
Safe(check, on) == {<<>>, <<SafePattern(check, on)>>}
BrokenSafe == <<[SafePattern("command", N) EXCEPT !.broken = TRUE]>>
SuitePacks ==
    {SuitePack("p", {"x"}, <<>>, g, s) : g \in Guards, s \in Safe("command", N)}
    \cup {SuitePack("p", {"x"}, gl, g, s) :
            gl \in {<<"yml">>, <<"Write">>}, g \in {h \in Guards : HasContent(h)}, s \in Safe("content", N)}
    \cup {SuitePack("p", {}, <<"yaml">>, g, <<>>) : g \in Guards}
    \cup {SuitePack("p", {"x"}, <<>>, <<g>>, BrokenSafe) : g \in GuardShapes("r")}

(* What an edit leaves of a pack: another rule's expression, flag or       *)
(* channel, one rule more or less, or a new safe pattern.                  *)
EditsOf(pack) ==
    {pack, [pack EXCEPT !.safe = <<SafePattern("command", M)>>],
     [pack EXCEPT !.guarded = Append(@, Guard("u", "command", M))],
     [pack EXCEPT !.guarded = <<Guard("u", "command", M)>> \o @]}
    \cup (IF pack.guarded = <<>> THEN {}
          ELSE {[pack EXCEPT !.guarded = Tail(@)], [pack EXCEPT !.guarded[1].on = N],
                [pack EXCEPT !.guarded[1].enabled = FALSE], [pack EXCEPT !.guarded[1].channel = "warning"],
                [pack EXCEPT !.keywords = {"y"}], [pack EXCEPT !.keywords = {}]})

OtherPack == SuitePack("q", {"x"}, <<>>, <<Guard("r", "command", N)>>, <<>>)

(* Recorded cases: what was denied, under a rule that may be gone since.   *)
RecordedAs(rule, inputs) == [pack : {"p"}, rule : {rule}, input : inputs]
Recorded ==
    RecordedAs("r", CommandInputs \cup ContentInputs)
    \cup RecordedAs("old", {PlainCommand(<<"x", "m">>), [mode |-> "content", file |-> "yml", text |-> <<"m">>]})
    \cup [pack : {"gone"}, rule : {"r"}, input : {PlainCommand(<<"x", "m">>)}]
CurationPacks == {p \in SuitePacks : Len(p.guarded) <= 1 \/ p.guarded[1].id = "t"}

AllInquiries ==
    {[kind |-> "verify", packs |-> <<p, q>>, files |-> <<>>] : <<p, q>> \in
        UNION {{<<p, q>> : q \in EditsOf(p)} : p \in SuitePacks}}
    \cup {[kind |-> "gate", packs |-> <<p>>, exempt |-> e, files |-> <<>>] :
            p \in SuitePacks, e \in {{}, {"r"}, {"t"}}}
    \cup {[kind |-> "release", packs |-> ps, files |-> <<>>] :
            ps \in {<<p>> : p \in SuitePacks} \cup {<<p, OtherPack>> : p \in SuitePacks}}
    \cup {[kind |-> "curate", packs |-> <<p>>, limit |-> 2, files |-> <<<<c>>>>] :
            p \in CurationPacks, c \in Recorded}
    \cup {[kind |-> "curate", packs |-> <<p>>, limit |-> 1, files |-> <<<<c, d>>, <<d>>>>] :
            p \in {q \in CurationPacks : q.safe = <<>> /\ q.globs = <<>>},
            c \in RecordedAs("r", CommandInputs),
            d \in RecordedAs("r", {PlainCommand(<<"x", "m">>), PlainCommand(<<"x", "n">>)})}

-----------------------------------------------------------------------------
(* Releases of one guarded rule and one safe pattern for ReleaseGates: the *)
(* rule in every state of its flags, with and without an exemption; the    *)
(* safe pattern beside a plain rule; and a rule that only warns.           *)

Checks == {<<".", "*", "a">>, <<"a">>, <<"[ab]", ".", "*">>, <<"^", "a", ".", "*">>}
Rules == [enabled : BOOLEAN, destructive : BOOLEAN, denies : {TRUE}, check : Checks]
PlainRule == [enabled |-> TRUE, destructive |-> FALSE, denies |-> TRUE, check |-> <<"a">>]
NoPatterns == [x \in {} |-> <<>>]
Exemptions == {{}, {[rules |-> {"g"}, fresh |-> TRUE]}, {[rules |-> {"g"}, fresh |-> FALSE]}}

AllReleases ==
    {[guarded |-> "g" :> r, safe |-> NoPatterns, override |-> o] : r \in Rules, o \in Exemptions}
    \cup {[guarded |-> NoPatterns, safe |-> NoPatterns, override |-> o] : o \in Exemptions}
    \cup {[guarded |-> "g" :> PlainRule, safe |-> s, override |-> {}] :
            s \in {"s" :> c : c \in Checks \cup {<<".", "*">>}} \cup {NoPatterns}}
    \cup {[guarded |-> "g" :> [PlainRule EXCEPT !.denies = FALSE], safe |-> NoPatterns, override |-> o] :
            o \in Exemptions}

-----------------------------------------------------------------------------
(* Directories for PackSets: up to three of four names, with packs that    *)
(* share an id, a program, a rule's id or nothing, packs that are asked of *)
(* every call, and files that are no packs.                                *)

MCStem == ("a.json" :> "a") @@ ("b.json" :> "b") @@ ("c.json" :> "c")
MCBasename == [x |-> "x", y |-> "y"] @@ ("/x" :> "x")
MCCalls == [program : {"x", "y"}, text : {"m", "n"}]

Rule(id, texts) == [id |-> id, enabled |-> TRUE, matches |-> texts]
Pack(id, keywords, guarded, safe) ==
    [id |-> id, keywords |-> keywords, deprecated |-> <<>>, guarded |-> guarded, safe |-> safe,
     compiles |-> TRUE]
PackFile(pack) == [kind |-> "pack", pack |-> pack, text |-> 0]

SamplePacks ==
    {Pack("a", <<"x">>, <<Rule("r", {"m"})>>, <<>>),
     Pack("a", <<"/x", "y", "x">>, <<Rule("r", {"n"})>>, <<Rule("s", {"m"})>>),
     Pack("b", <<"x">>, <<Rule("r", {"n"}), Rule("t", {"m"})>>, <<>>),
     Pack("b", <<>>, <<Rule("r", {"m", "n"})>>, <<>>),
     [Pack("c", <<"y">>, <<Rule("r", {"m"})>>, <<>>) EXCEPT !.deprecated = <<"/x">>],
     Pack("c", <<>>, <<Rule("r", {"m"}), Rule("r", {"n"})>>, <<>>),
     [Pack("c", <<"x">>, <<[Rule("r", {"m"}) EXCEPT !.enabled = FALSE]>>, <<>>) EXCEPT !.compiles = FALSE]}

Garbage == [kind |-> "text"]
Directory == [kind |-> "directory"]
AllFiles == {PackFile(p) : p \in SamplePacks} \cup {Garbage, Directory}

Names == {"a.json", "b.json", "c.json"}
Dirs(names, files) == UNION {[s -> files] : s \in SUBSET names}
Full == Dirs(Names, AllFiles) \cup {("n.txt" :> Garbage) @@ d : d \in Dirs({"a.json", "b.json"}, AllFiles)}

(* The manifest tells files apart by their bytes alone.                    *)
A == PackFile(Pack("a", <<"x">>, <<>>, <<>>))
B == PackFile(Pack("b", <<"x">>, <<>>, <<>>))
MCNewFiles == {A, B, [A EXCEPT !.text = 1], Garbage, Directory}
ManifestDirs == Dirs({"a.json", "b.json", "n.txt"}, {A, B, Garbage, Directory})

(* Two directories, of which the files may have each other's names.        *)
DriftDirs == Dirs({"a.json", "b.json"}, MCNewFiles)

States == {"missing", "unreadable", "empty", "packs"}
Places == [explicit : States \cup {"unset"}, variable : States \cup {"unset"},
           override : States \cup {"unset"}, modular : States, legacy : States, repository : States]

AllPackQuestions ==
    {[tool |-> "engine", dir |-> d] : d \in Full}
    \cup {[tool |-> "coverage", dir |-> d] : d \in Full}
    \cup {[tool |-> "drift", dir |-> d, reference |-> r] : d \in DriftDirs, r \in DriftDirs}
    \cup {[tool |-> "manifest", dir |-> d] : d \in ManifestDirs}
    \cup {[tool |-> "merge", dir |-> d] : d \in Full}
    \cup {[tool |-> "merging", dir |-> d] : d \in Dirs(Names, {PackFile(p) : p \in SamplePacks})}
    \cup {[tool |-> "source", dir |-> [x \in {} |-> Garbage], places |-> p] : p \in Places}

-----------------------------------------------------------------------------
(* Rules, packs and hand-written manifests for OverrideLife.               *)

(* Two repositories of one name.                                           *)
MCLastName == ("o/r" :> "r") @@ ("p/r" :> "r")

Deny(id) == [id |-> id, channel |-> "deny"]
MCLoaded ==
    {<<Deny("a"), [id |-> "b", channel |-> "rewrite"]>>,
     <<Deny("a"), Deny("a")>>}

Written(ids) ==
    [readable |-> TRUE, repository |-> "o/r", release_ref |-> "v1", ids |-> ids, expires |-> 2, justified |-> 1]
MCHandWritten ==
    {Written(<<"a">>), Written(<<"a", "a">>), Written(<<>>), Written(<<"b">>), [readable |-> FALSE]}
MCHandPlaces == {[dir |-> "checkout", name |-> <<"r">>, toml |-> TRUE]}

-----------------------------------------------------------------------------
(* Counts of up to five releases for DenyRates: three that differ in rate  *)
(* and volume, and more that differ in rate.                               *)

Counts(seen) == UNION {[seen : {n}, denied : 0..n] : n \in seen}
SamplesOf(releases, seen, needed) ==
    [counts : [1..releases -> Counts(seen)], threshold : {0, 1, 2}, samples : needed]
AllSamples ==
    SamplesOf(2, {4}, {2})
    \cup SamplesOf(3, {1, 2, 4}, {2, 3})
    \cup SamplesOf(4, {2}, {2})
    \cup SamplesOf(5, {2}, {2})
=============================================================================
