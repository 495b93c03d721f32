--------------------------- MODULE GuardQuestions ---------------------------
(***************************************************************************)
(* What ContentGuards is asked: globs with the pieces they are made of,    *)
(* targets with the place they lead to, texts with what they declare, and  *)
(* images with the versions that are on disk.                              *)
(***************************************************************************)
EXTENDS Naturals, SequencesExt

StringsUpTo(set, n) == UNION {[1..k -> set] : k \in 0..n}
One(name) == <<name>>

-----------------------------------------------------------------------------
(* Globs.                                                                  *)

Paths == {p \in StringsUpTo({"/", "a", "b"}, 4) :
            \A i \in 1..(Len(p) - 1) : ~(p[i] = "/" /\ p[i + 1] = "/")}

Pieces == {<<"*">>, <<"*", "*">>, <<"*", "*", "/">>, <<"?">>, <<"a">>, <<"/">>}
(* The text of the pieces can be read back as these pieces only.           *)
Readable(pieces) ==
    /\ Last(Last(pieces)) # "/"
    /\ \A k \in 1..(Len(pieces) - 1) :
         /\ Last(pieces[k]) = "*" => pieces[k + 1][1] # "*"
         /\ pieces[k] = <<"*", "*">> => pieces[k + 1][1] # "/"
Glob(pieces, text) == [kind |-> "glob", pieces |-> pieces, glob |-> text]
Globs ==
    {Glob(ps, FlattenSeq(ps)) : ps \in {q \in StringsUpTo(Pieces, 3) \ {<<>>} : Readable(q)}}
    \cup {Glob(<<<<"a">>, <<"/">>, <<"*", "*">>>>, g) :
            g \in {<<"a", "/">>, <<".", "/", "a", "/", "*", "*">>}}

-----------------------------------------------------------------------------
(* Targets.                                                                *)

Cwds == {<<One("r")>>, <<One("r"), One("s")>>, <<One("r"), One(".github")>>}
Tails ==
    {<<One(".github"), One("workflows"), One("x")>>, <<One("workflows"), One("x")>>,
     <<One(".github"), One("x"), One("workflows")>>, <<<<".github", "x">>, One("workflows")>>,
     <<One(".beads")>>, <<One(".beads"), One("beads.db")>>,
     <<One(".beads"), One("state"), One("beads.db")>>, <<One(".beads"), <<"state", "-", "x">>>>,
     <<One(".beads"), One("checkpoint"), One("x")>>, <<One(".beads"), One("x"), One("issues.jsonl")>>,
     <<One("s"), One(".beads"), One("issues.jsonl")>>, <<One("w"), One(".beads"), One("issues.jsonl")>>}
IsStored(tail) ==
    \E k \in 2..Len(tail) : /\ tail[k - 1] = One(".beads")
                            /\ tail[k] \in {One("beads.db"), One("issues.jsonl"), One("checkpoint")}

(* What has a .git: a repository, one with a linked worktree in it, one    *)
(* below, a linked worktree, or nothing.                                   *)
Gits == {[d \in {<<One("r")>>} |-> "directory"],
         [d \in {<<One("r")>>, <<One("r"), One("w")>>} |-> IF Len(d) = 1 THEN "directory" ELSE "file"],
         [d \in {<<One("r"), One("s")>>} |-> "directory"],
         [d \in {<<One("r")>>} |-> "file"], [d \in {} |-> ""]}

Spell(components) == FlattenSeq([k \in DOMAIN components |-> <<"/">> \o components[k]])
(* The same place, with a detour on the way.                               *)
Detours(tail) ==
    {Spell(tail), <<"/">> \o Spell(tail), <<"/", ".">> \o Spell(tail)}
    \cup {Spell(SubSeq(tail, 1, k)) \o <<"/", "x", "/", "..">> \o Spell(SubSeq(tail, k + 1, Len(tail))) :
            k \in 0..Len(tail)}

Target(path, cwd, at, git, tail) ==
    [kind |-> "place", path |-> path, cwd |-> cwd, leadsTo |-> at, git |-> git, stored |-> IsStored(tail)]
Targets ==
    UNION {
      {Target(Spell(<<One("r")>>) \o d, cwd, <<One("r")>> \o t, g, t) : d \in Detours(t)}
      \cup {Target(Tail(d), cwd, cwd \o t, g, t) : d \in {e \in Detours(t) : e[2] # "/"}}
      \cup {Target(<<"..">> \o d, cwd, SubSeq(cwd, 1, Len(cwd) - 1) \o t, g, t) : d \in Detours(t)} :
      t \in Tails, cwd \in Cwds, g \in Gits}

-----------------------------------------------------------------------------
(* Texts.                                                                  *)

Node(lines, declares) == [lines |-> lines, declares |-> declares]
At(indent, body) == [indent |-> indent, body |-> body]

Keys == {<<"kind", ":", " ">>, <<"Kind", " ", ":", " ", " ">>, <<"'", "kind", "'", ":">>,
         <<"---", " ", "kind", ":", " ">>}
JobValues == {<<"Job">>, <<"CronJob">>, <<"\"", "Job", "\"">>, <<"job", " ", "#", "x">>,
              <<"'", "Job", "'", " ", "#">>}
Declarations == {Node(<<At(n, k \o v)>>, TRUE) : n \in {0, 2}, k \in Keys, v \in JobValues}

Harmless ==
    {<<"kind", ":", " ", "Jobber">>, <<"kind", ":", " ", "Job", " ", "x">>, <<"kind", ":">>,
     <<"#", "kind", ":", " ", "Job">>, <<"x", ":", " ", "\"", "kind", ":", " ", "Job", "\"">>,
     <<"x", ":", " ", "kind", ":", " ", "Job">>, <<"kindliness", ":", " ", "Job">>,
     <<"kind", ":", "Job">>, <<"-", " ", "kind", ":", " ", "Job">>, <<"kind", ":", " ", "\"", "Job">>,
     <<"kind", ":", " ", "Job", "#", "x">>, <<"kind", ":", " ", "Job", ",">>, <<"...">>, <<"---">>,
     <<>>, <<"---", "-", "kind", ":", " ", "Job">>, <<":", " ", ":">>, <<"'", "kind", "'">>,
     <<"---", " ", "#">>}
PlainNodes == {Node(<<At(n, b)>>, FALSE) : n \in {0, 2}, b \in Harmless}

Openers == {<<"x", ":", " ", "|">>, <<"-", " ", ">", "-">>, <<"x", ":", " ", "|", "2", " ", "#">>}
Scalars ==
    {Node(<<At(n, o), At(n + 1, i), At(n + 2, <<"kind", ":", " ", "Job">>)>>, FALSE) :
        n \in {0, 2}, o \in Openers, i \in {<<>>, <<"kind", ":", " ", "Job">>, <<"x">>}}

Document(nodes) ==
    [kind |-> "text", lines |-> FlattenSeq([k \in DOMAIN nodes |-> nodes[k].lines]),
     declares |-> \E k \in DOMAIN nodes : nodes[k].declares]
Nodes == Declarations \cup PlainNodes \cup Scalars
(* Nothing after a block scalar is indented more than its header.          *)
Texts ==
    {Document(<<a>>) : a \in Nodes} \cup {Document(<<a, b>>) : a \in PlainNodes, b \in Nodes}
    \cup {Document(<<a, b>>) : a \in Scalars, b \in {n \in Nodes : n.lines[1].indent = 0}}

-----------------------------------------------------------------------------
(* Images.                                                                 *)

Image(name, tag, safe) == [name |-> name, tag |-> tag, safe |-> safe]
Images == {Image("w", "latest", TRUE), Image("w", "1.0", TRUE), Image("v", "sha", TRUE),
           Image("..", "latest", FALSE)}
VersionFiles == {<<<<>>, "w">>, <<<<One("r")>>, "w">>, <<<<One("r"), One("s")>>, "v">>,
                 <<<<One("q")>>, "w">>, <<<<One("q")>>, "v">>}
Releases == UNION {[files -> {"garbled", "1"}] : files \in SUBSET VersionFiles}
            \cup {[f \in VersionFiles |-> IF Len(f[1]) = 1 THEN "1" ELSE "2"]}
ImageQuestions ==
    {[kind |-> "version", images |-> <<a, b>>, path |-> p[1], near |-> p[2], cwd |-> <<One("q")>>,
      versions |-> v] :
        a \in Images, b \in Images, v \in Releases,
        p \in {<<<<"/", "r", "/", "s", "/", "f">>, <<One("r"), One("s")>>>>,
               <<<<"f">>, <<One("q")>>>>, <<<<"/", "f">>, <<>>>>}}

AllQuestions == Globs \cup Targets \cup Texts \cup ImageQuestions
=============================================================================
