---------------------------- MODULE ContentGuards ----------------------------
(***************************************************************************)
(* What the engine asks of a write: which packs its path selects, whether  *)
(* it goes to a workflow directory or to a shared bead store, whether its  *)
(* text declares a Job, and which version an image should have.            *)
(*                                                                         *)
(* Paths and lines are sequences of characters; a word is one character,   *)
(* as nothing looks inside one, and so are "---", "..." and ".." .         *)
(***************************************************************************)
EXTENDS Texts

CONSTANT
    Written      \* the paths a glob is asked about

VARIABLES
    question,    \* what is asked: a kind and its inputs
    lines,      \* lines of the text not yet scanned
    block,       \* 1 + indentation of the block scalar the scan is in, or 0
    answer       \* the verdict, once there is one

guardVars == <<question, lines, block, answer>>

-----------------------------------------------------------------------------
(* Paths.                                                                  *)

StartsWith(text, prefix) == IsPrefix(prefix, text)

(* normalize_path: without any `./` in front.                              *)
DotSlash == <<".", "/">>
NormalPath(path) ==
    LET n == Max({k \in 0..Len(path) : 2 * k <= Len(path)
                    /\ \A j \in 1..k : SubSeq(path, 2 * j - 1, 2 * j) = DotSlash})
    IN Drop(path, 2 * n)

Slashes(path) == {i \in DOMAIN path : path[i] = "/"}

(* Path::components: what stands between the slashes.                      *)
Components(path) ==
    LET starts == SetToSortSeq({0} \cup Slashes(path), <)
        piece(k) == SubSeq(path, starts[k] + 1,
                           IF k < Len(starts) THEN starts[k + 1] - 1 ELSE Len(path))
    IN SelectSeq([k \in DOMAIN starts |-> piece(k)], LAMBDA c : c \notin {<<>>, <<".">>})

(* Mutant: a step up is dropped, and nothing is taken back for it.         *)
ResolveIgnoringUp(start, components) ==
    start \o SelectSeq(components, LAMBDA c : c # <<"..">>)

(* Each `..` takes back one component, if there is one.                    *)
Resolve(start, components) ==
    FoldLeft(LAMBDA at, c : IF c = <<"..">> THEN SubSeq(at, 1, Len(at) - 1) ELSE Append(at, c),
             start, components)

IsAbsolute(path) == path # <<>> /\ path[1] = "/"
AbsolutePath(path, cwd) ==
    Resolve(IF IsAbsolute(path) THEN <<>> ELSE cwd, Components(path))

-----------------------------------------------------------------------------
(* The selectors of a pack.                                                *)

(* wildcard_match: `*` within a component, `**` across components, and the *)
(* slash after `**` may be left out with it.                               *)
WildcardMatch(value, pattern) ==
    LET n == Len(pattern)
        m == Len(value)
        At(p, c) == p <= n /\ pattern[p] = c
        visit[p \in 1..(n + 2), v \in 1..(m + 1)] ==
          IF p > n THEN v = m + 1
          ELSE IF At(p, "*") /\ At(p + 1, "*")
          THEN \/ visit[IF At(p + 2, "/") THEN p + 3 ELSE p + 2, v]
               \/ v <= m /\ visit[p, v + 1]
          ELSE IF At(p, "*")
          THEN visit[p + 1, v] \/ (v <= m /\ value[v] # "/" /\ visit[p, v + 1])
          ELSE v <= m /\ pattern[p] \in {"?", value[v]} /\ visit[p + 1, v + 1]
    IN visit[1, 1]

(* The path, the path without slashes in front, and what follows each of   *)
(* the other slashes but a last one.                                       *)
Candidates(path) ==
    LET n == Max({k \in 0..Len(path) : 1..k \subseteq Slashes(path)})
    IN {path, Drop(path, n)} \cup
       {Drop(path, i) : i \in {j \in Slashes(path) : n < j /\ j < Len(path)}}

PathMatchesGlob(path, glob) ==
    LET p == NormalPath(path)
        g == NormalPath(glob)
        full == IF g # <<>> /\ Last(g) = "/" THEN g \o <<"*", "*">> ELSE g
    IN /\ g # <<>>
       /\ IF Slashes(full) = {} THEN WildcardMatch(Drop(p, Max({0} \cup Slashes(p))), full)
          ELSE \E c \in Candidates(p) : WildcardMatch(c, full)

-----------------------------------------------------------------------------
(* Guarded places.                                                         *)

(* is_github_workflows_path looks at the path alone.                       *)
IsWorkflowPath(path) ==
    LET c == Resolve(<<>>, Components(path))
    IN \E i \in 1..(Len(c) - 1) : c[i] = <<".github">> /\ c[i + 1] = <<"workflows">>

NonStoreDirs == {"state", "logs", "diagnostics", "traces", "receipts", "crash-reports", "backup"}
StoreFiles == {"beads.db", "beads.db-shm", "beads.db-wal", "beads.db.lock", "config.json",
               "config.yaml", "events.jsonl", "heartbeats.jsonl", "issues.jsonl"}

IsBeadStorePath(relative) ==
    /\ relative # <<>>
    /\ ~(relative[1][1] \in NonStoreDirs /\ (Len(relative[1]) = 1 \/ relative[1][2] = "-"))
    /\ \/ relative[1] = <<"checkpoint">>
       \/ Len(relative) = 1 /\ relative[1] \in {<<f>> : f \in StoreFiles}

(* The nearest directory with a .git decides; a linked worktree has a file *)
(* there, and is not guarded.                                              *)
IsSharedBeadsTarget(path, cwd, git) ==
    LET target == AbsolutePath(path, cwd)
        roots == {n \in 0..Len(target) : SubSeq(target, 1, n) \in DOMAIN git}
        root == SubSeq(target, 1, Max(roots))
        rest == Drop(target, Len(root))
    IN /\ roots # {}
       /\ git[root] = "directory"
       /\ rest # <<>> /\ rest[1] = <<".beads">>
       /\ IsBeadStorePath(Tail(rest))

-----------------------------------------------------------------------------
(* The guard for Jobs, a line at a time.                                   *)

KindWords == {"kind", "Kind"}
JobWords == {"Job", "CronJob", "job"}
Quotes == {"'", "\""}

NoBlanks(text) == Drop(text, IF \A i \in DOMAIN text : text[i] = " " THEN Len(text)
                             ELSE Min({i \in DOMAIN text : text[i] # " "}) - 1)
AtEnd(text) == text = <<>> \/ text[1] = " "
OnlyComment(text) == NoBlanks(text) = <<>> \/ NoBlanks(text)[1] = "#"

(* The part of a line that can hold an entry: nothing of a comment, or of  *)
(* a marker, but what follows `---`.                                       *)
DocumentBody(body) ==
    LET rest == IF body # <<>> /\ body[1] = "---" /\ AtEnd(Tail(body))
                THEN NoBlanks(Tail(body)) ELSE body
    IN IF rest = <<>> \/ rest[1] = "#" \/ (rest[1] = "..." /\ AtEnd(Tail(rest))) THEN <<>>
       ELSE rest

(* What a quoted text holds, and what follows it.                          *)
Closing(text) == IndexOf(Tail(text), {text[1]})
Quoted(text) == SubSeq(Tail(text), 1, Closing(text) - 1)
AfterQuote(text) == Drop(Tail(text), Closing(text))

(* What follows the colon of the key `kind`, in a sequence of its own.     *)
ValueAfterKind(body) ==
    IF body[1] \in Quotes
    THEN IF Closing(body) = 0 \/ Quoted(body) \notin {<<k>> : k \in KindWords} THEN <<>>
         ELSE LET rest == NoBlanks(AfterQuote(body))
              IN IF rest # <<>> /\ rest[1] = ":" THEN <<Tail(rest)>> ELSE <<>>
    ELSE LET rest == NoBlanks(Tail(body))
         IN IF body[1] \in KindWords /\ rest # <<>> /\ rest[1] = ":" /\ AtEnd(Tail(rest))
            THEN <<Tail(rest)>> ELSE <<>>

IsJobValue(after) ==
    LET value == NoBlanks(after)
    IN /\ value # <<>>
       /\ IF value[1] \in Quotes
          THEN /\ Closing(value) # 0
               /\ Quoted(value) \in {<<j>> : j \in JobWords}
               /\ OnlyComment(AfterQuote(value))
          ELSE value[1] \in JobWords /\ AtEnd(Tail(value)) /\ OnlyComment(Tail(value))

IsJobDeclaration(body) == \E after \in ToSet(ValueAfterKind(body)) : IsJobValue(after)

IsBlockHeader(text) ==
    /\ text # <<>> /\ text[1] \in {"|", ">"}
    /\ LET others == {i \in 2..Len(text) : text[i] \notin {"-", "+", "2"}}
       IN others = {} \/ OnlyComment(Drop(text, Min(others) - 1))

IntroducesBlock(body) ==
    LET item == IF body[1] = "-" /\ AtEnd(Tail(body)) THEN NoBlanks(Tail(body)) ELSE body
        colon == IndexOf(item, {":"})
        value == Drop(item, colon)
    IN \/ IsBlockHeader(item)
       \/ colon # 0 /\ AtEnd(value) /\ IsBlockHeader(NoBlanks(value))

InBlock(line) == block # 0 /\ (line.body = <<>> \/ line.indent > block - 1)

(* find_kind_declaration, one turn of its loop.                            *)
ScanLine ==
    /\ question.kind = "text" /\ answer = <<>> /\ lines # <<>>
    /\ LET line == Head(lines)
           body == DocumentBody(line.body)
       IN IF InBlock(line) THEN UNCHANGED <<block, answer>>
          ELSE IF body = <<>> THEN block' = 0 /\ UNCHANGED answer
          ELSE /\ answer' = IF IsJobDeclaration(body) THEN <<TRUE>> ELSE answer
               /\ block' = IF IntroducesBlock(body) THEN line.indent + 1 ELSE 0
    /\ lines' = Tail(lines)
    /\ UNCHANGED question

ScanEnds ==
    /\ question.kind = "text" /\ answer = <<>> /\ lines = <<>>
    /\ answer' = <<FALSE>>
    /\ UNCHANGED <<question, lines, block>>

-----------------------------------------------------------------------------
(* Versions that a reason quotes.                                          *)

Ancestors(dir) == [k \in 1..(Len(dir) + 1) |-> SubSeq(dir, 1, Len(dir) + 1 - k)]

(* candidate_roots: the directories above the file, then those above the   *)
(* working directory.                                                      *)
CandidateRoots(path, cwd) ==
    LET target == (IF IsAbsolute(path) THEN <<>> ELSE cwd) \o Components(path)
        above == Ancestors(Front(target))
    IN above \o SelectSeq(Ancestors(cwd), LAMBDA d : d \notin ToSet(above))

(* The images of a text that need a version: a moving tag, or a bare hash. *)
NeedsVersion(image) == image.tag \in {"latest", "sha"} /\ image.safe

(* derive_image_version: the values of all images, or nothing.             *)
DeriveImageVersion(images, path, cwd, versions) ==
    LET names == {images[i].name : i \in {j \in DOMAIN images : NeedsVersion(images[j])}}
        roots == CandidateRoots(path, cwd)
        valid(name) == {k \in DOMAIN roots : <<roots[k], name>> \in DOMAIN versions
                                             /\ versions[<<roots[k], name>>] # "garbled"}
    IN IF names = {} \/ \E n \in names : valid(n) = {} THEN {}
       ELSE {versions[<<roots[Min(valid(n))], n>>] : n \in names}

-----------------------------------------------------------------------------

Answer(q) ==
    CASE q.kind = "glob" -> {p \in Written : PathMatchesGlob(p, q.glob)}
      [] q.kind = "place" -> [workflow |-> IsWorkflowPath(q.path),
                              beads |-> IsSharedBeadsTarget(q.path, q.cwd, q.git)]
      [] q.kind = "version" -> DeriveImageVersion(q.images, q.path, q.cwd, q.versions)

Judge ==
    /\ question.kind # "text" /\ answer = <<>>
    /\ answer' = <<Answer(question)>>
    /\ UNCHANGED <<question, lines, block>>

GuardsInit(questions) ==
    /\ question \in questions
    /\ lines = IF question.kind = "text" THEN question.lines ELSE <<>>
    /\ block = 0 /\ answer = <<>>

GuardsNext == ScanLine \/ ScanEnds \/ Judge

-----------------------------------------------------------------------------
(* Properties.                                                             *)

(* The paths over some characters that a piece of a glob stands for.       *)
Stands(piece, paths) ==
    CASE piece = <<"*", "*">> -> paths
      [] piece = <<"*", "*", "/">> -> paths
      [] piece = <<"*">> -> {p \in paths : Slashes(p) = {}}
      [] piece = <<"?">> -> {p \in paths : Len(p) = 1}
      [] OTHER -> {piece}
Denoted(pieces, paths) ==
    FoldLeft(LAMBDA found, piece : {u \o w : u \in found, w \in Stands(piece, paths)} \cap paths,
             {<<>>}, pieces)

(* A pack is asked about exactly the writes its selectors name: a selector *)
(* without a slash names the last component, one with a slash any trailing *)
(* part of the path, one that ends with a slash whatever is below          *)
(* (engine.rs, path_matches_glob).                                         *)
SelectorsAreExact ==
    question.kind = "glob" /\ answer # <<>> =>
        LET named == Denoted(question.pieces, Written)
            last(p) == Drop(p, Max({0} \cup Slashes(p)))
            tails(p) == {p} \cup {Drop(p, i) : i \in Slashes(p) \ {Len(p)}}
        IN answer[1] = {p \in Written :
                          IF Slashes(question.glob) = {} THEN last(p) \in named
                          ELSE tails(p) \cap named # {}}

(* Whatever way a target is written (steps up, doubled slashes, relative   *)
(* or not), it is judged by the place it leads to: workflow definitions    *)
(* and the files of a shared bead store are guarded, a linked worktree     *)
(* never is.  Only a relative path out of .github itself escapes the       *)
(* workflow guard, which does not know the working directory.              *)
PlacesAreGuarded ==
    question.kind = "place" /\ answer # <<>> =>
        LET at == question.leadsTo
            above == {n \in 0..Len(at) : SubSeq(at, 1, n) \in DOMAIN question.git}
            root == SubSeq(at, 1, Max(above))
            inside == Len(at) > Len(root) /\ at[Len(root) + 1] = <<".beads">>
        IN /\ IsAbsolute(question.path) \/ <<".github">> \notin ToSet(question.cwd) =>
                answer[1].workflow = \E i \in 2..Len(at) : at[i - 1] = <<".github">> /\ at[i] = <<"workflows">>
           /\ answer[1].beads =>
                above # {} /\ question.git[root] = "directory" /\ inside
           /\ above # {} /\ question.git[root] = "directory" /\ inside /\ question.stored =>
                answer[1].beads

(* A text is refused if and only if it declares a Job: under any spelling  *)
(* of the entry, in any document of a stream, and never for what a comment *)
(* or a block scalar says (job_cronjob_yaml.rs).                           *)
JobsAreFound ==
    question.kind = "text" /\ answer # <<>> => answer[1] = question.declares

(* The versions a reason quotes are those of the images the text leaves    *)
(* without one, each from the nearest directory above the file that has    *)
(* it, or above the working directory if there is none; if one image has   *)
(* none, no version is quoted (value_derivation.rs).                       *)
VersionsAreTheImages ==
    question.kind = "version" /\ answer # <<>> =>
        LET q == question
            moving == {i \in ToSet(q.images) : i.tag \in {"latest", "sha"} /\ i.safe}
            dirs(n) == {d \in {k[1] : k \in DOMAIN q.versions} :
                          <<d, n>> \in DOMAIN q.versions /\ q.versions[<<d, n>>] # "garbled"}
            deepest(ds) == CHOOSE d \in ds : \A e \in ds : Len(e) <= Len(d)
            near(n) == {d \in dirs(n) : IsPrefix(d, q.near)}
            here(n) == {d \in dirs(n) : IsPrefix(d, q.cwd)}
        IN IF moving = {} \/ \E i \in moving : near(i.name) \cup here(i.name) = {}
           THEN answer[1] = {}
           ELSE answer[1] =
                  {q.versions[<<deepest(IF near(i.name) # {} THEN near(i.name) ELSE here(i.name)),
                                i.name>>] : i \in moving}

GuardsJudgeTheTarget ==
    SelectorsAreExact /\ PlacesAreGuarded /\ JobsAreFound /\ VersionsAreTheImages
=============================================================================
