--------------------------- MODULE RegressionSuites ---------------------------
(***************************************************************************)
(* The fixed deny suites that gate a release and an override, and the      *)
(* curation of the cases recorded from traffic (regression.rs).  All of it *)
(* works on a limited reading of a command, split at separators and shorn  *)
(* of some wrappers, and asks the packs in its own way; the judge that     *)
(* counts is the engine (RuleEngine), which reads a command as a shell     *)
(* does.  An input carries both: `words`, which the suites split, and the  *)
(* `tokens` that the engine sees.                                          *)
(*                                                                         *)
(* A pattern matches a text when one of the words in its field `on` is in  *)
(* it; one that does not compile is `broken`.  What is left of a list of   *)
(* rules or cases keeps its places in it.                                  *)
(***************************************************************************)
EXTENDS Naturals, SequencesExt, FiniteSetsExt, Functions

CONSTANTS
    Inquiries,      \* what is asked of the suites: see SuitesInit
    BaseName,       \* per word with a path, the program it names
    Assignments     \* words of the form NAME=value

VARIABLES
    inquiry,
    suite,      \* the suite that was generated
    corpora,    \* the corpora that are curated, one for each file
    next,       \* the file that is curated next
    verdict     \* what the tool answered

suiteVars == <<inquiry, suite, corpora, next, verdict>>

Refused == [ok |-> FALSE]
Ids(patterns) == [i \in DOMAIN patterns |-> patterns[i].id]
(* The patterns of a list that are at some of its places.                  *)
At(patterns, places) == [i \in places |-> patterns[i]]
IsPredicate(p) == p.check \notin {"command", "content"}

-----------------------------------------------------------------------------
(* How the suites read an input.                                           *)

Separator == ";"
Wrapping == {"sudo", "command", "exec", "time", "nohup"} \cup Assignments

(* One word more of a command: separators end the segment.                 *)
Split(words) ==
    FoldLeft(LAMBDA segments, w :
                 IF w = Separator THEN Append(segments, <<>>)
                 ELSE Front(segments) \o <<Append(Last(segments), w)>>,
             <<<<>>>>, words)

Stripped(words) ==
    LET kept == {i \in DOMAIN words : words[i] \notin Wrapping}
    IN IF kept = {} THEN <<>> ELSE SubSeq(words, Min(kept), Len(words))

NamedByFile(words) ==
    IF words[1] \in DOMAIN BaseName THEN <<BaseName[words[1]]>> \o Tail(words) ELSE words

Named(segments) == [i \in DOMAIN segments |-> NamedByFile(segments[i])]
StrippedAll(segments) == [i \in DOMAIN segments |-> Stripped(segments[i])]

(* command_segments: quotes and substitutions are words like any other.    *)
Segments(words) == Named(SelectSeq(StrippedAll(Split(words)), LAMBDA s : s # <<>>))

(* A tool name as a selector stands for every file.                        *)
SelectsFile(pack, file) ==
    \E g \in ToSet(pack.globs) : g \in {"Write", "Edit"} \/ g = file

-----------------------------------------------------------------------------
(* One pattern after the other.                                            *)

Hits(p, text) == p.on \cap ToSet(text) # {}
(* A pattern ends the scan of a text.                                      *)
Ends(p, text) == p.broken \/ Hits(p, text)

Enabled(pack) == {i \in DOMAIN pack.guarded : pack.guarded[i].enabled}
OfCheck(patterns, check) == {i \in DOMAIN patterns : patterns[i].check = check}
SafeEnds(pack, mode, text) == {i \in OfCheck(pack.safe, mode) : Ends(pack.safe[i], text)}
RuleEnds(pack, rules, text) == {i \in rules : Ends(pack.guarded[i], text)}

(* The segments a pack is asked about, each at its place.                  *)
Considered(pack, words) ==
    LET all == Segments(words)
    IN At(all, {k \in DOMAIN all : pack.keywords = {} \/ all[k][1] \in pack.keywords})

(* Mutant: a later rule than the first that matches will do.               *)
DeniesCaseSomehow(pack, target, words) ==
    \E k \in DOMAIN Considered(pack, words) :
        ~target.broken /\ Hits(target, Considered(pack, words)[k])

(* validate_deny_case: the first pattern that matches any segment must be  *)
(* the rule itself.                                                        *)
DeniesCase(pack, target, words) ==
    LET texts == Considered(pack, words)
        safe(k) == SafeEnds(pack, "command", texts[k])
        rules(k) == RuleEnds(pack, Enabled(pack) \cap OfCheck(pack.guarded, "command"), texts[k])
        ends == {k \in DOMAIN texts : safe(k) # {} \/ rules(k) # {}}
    IN /\ target.channel = "deny"
       /\ ends # {} /\ safe(Min(ends)) = {}
       /\ LET first == pack.guarded[Min(rules(Min(ends)))]
          IN ~first.broken /\ first.id = target.id

(* validate_deny_input.  The file that a content goes to is not looked at. *)
Validates(pack, target, input) ==
    \/ /\ target.check = "command" /\ input.mode = "command"
       /\ DeniesCase(pack, target, input.words)
    \/ /\ target.check = "content" /\ input.mode = "content"
       /\ target.channel = "deny" /\ ~target.broken /\ Hits(target, input.text)
       /\ SafeEnds(pack, "content", input.text) = {}

-----------------------------------------------------------------------------
(* Generation.                                                             *)

(* representative_command: what the expression spells, after the pack's    *)
(* first keyword unless it begins with one.                                *)
RepresentativeCommand(pack, r) ==
    LET words == IF r.spells # <<>> /\ r.spells[1] \in pack.keywords
                 THEN r.spells ELSE <<pack.first>> \o r.spells
    IN [mode |-> "command", words |-> words, tokens |-> <<words>>]

(* representative_input: the file is a YAML one whatever the pack selects. *)
RepresentativeInput(pack, r) ==
    IF r.check = "command" THEN RepresentativeCommand(pack, r)
    ELSE [mode |-> "content", text |-> r.spells,
          file |-> IF pack.globs # <<>> /\ pack.globs[1] = "yml" THEN "yml" ELSE "yaml"]

(* out_of_scope_for_a_deny_suite.                                          *)
OutOfScope(pack, r) ==
    \/ r.channel # "deny" \/ IsPredicate(r)
    \/ pack.keywords = {} /\ r.check # "content"

Case(pack, r, input) == [pack |-> pack.id, rule |-> r.id, input |-> input]

(* A rule without an example is given a representative.                    *)
Input(pack, r) == IF r.example.mode = "none" THEN RepresentativeInput(pack, r) ELSE r.example
Usable(pack, r) ==
    /\ r.example.mode # "empty"
    /\ r.example.mode = "none" => ~r.broken
    /\ Validates(pack, r, Input(pack, r))

(* generate_regression_suite_with_inputs; the examples are a field of the  *)
(* rules.                                                                  *)
Generate(pack) ==
    LET rules == {i \in Enabled(pack) : ~OutOfScope(pack, pack.guarded[i])}
        rule(i) == pack.guarded[i]
    IN IF IsInjective(Ids(pack.guarded)) /\ \A i \in rules : Usable(pack, rule(i))
       THEN [ok |-> TRUE, cases |-> {Case(pack, rule(i), Input(pack, rule(i))) : i \in rules},
             skipped |-> {rule(i).id : i \in Enabled(pack) \ rules}]
       ELSE Refused

(* requires_release_regression_case.                                       *)
NeedsCase(r) == r.enabled /\ r.destructive /\ r.channel = "deny" /\ ~IsPredicate(r)
Reduced(pack) ==
    LET needed == {i \in DOMAIN pack.guarded : NeedsCase(pack.guarded[i])}
    IN [pack EXCEPT !.guarded = At(@, needed)]

(* generate_release_regression_suite: each manifest is reduced to the      *)
(* rules that need a case before a suite is made of it.                    *)
GenerateRelease(manifests) ==
    LET suites == {Generate(Reduced(p)) : p \in ToSet(manifests)}
    IN IF (\A s \in suites : s.ok) /\ \E s \in suites : s.cases # {}
       THEN [ok |-> TRUE, cases |-> UNION {s.cases : s \in suites},
             skipped |-> UNION {s.skipped : s \in suites}]
       ELSE Refused

-----------------------------------------------------------------------------
(* Verification.                                                           *)

(* verify_regression_suite: one case for each enabled rule, and each       *)
(* denied by the rule it names.                                            *)
Verifies(pack, cases) ==
    LET named(c) == {i \in DOMAIN pack.guarded : pack.guarded[i].id = c.rule}
    IN /\ Cardinality(cases) = Cardinality(Enabled(pack))
       /\ \A c, d \in cases : c.rule = d.rule => c = d
       /\ \A c \in cases :
            /\ c.pack = pack.id
            /\ named(c) # {} /\ Min(named(c)) \in Enabled(pack)
            /\ Validates(pack, pack.guarded[Min(named(c))], c.input)
       /\ \A i \in Enabled(pack) : \E c \in cases : c.rule = pack.guarded[i].id

(* A pack as the curation sees it: without the patterns that, further down *)
(* than any that was reached, do not compile.                              *)
Intact(pack) ==
    [pack EXCEPT !.safe = At(@, {i \in DOMAIN @ : ~@[i].broken}),
                 !.guarded = At(@, {i \in DOMAIN @ : ~@[i].broken})]

(* The engine, holding one pack, with some rules exempted.  Two rules of a *)
(* pack may share an id: the engine is told the expression of a rule with  *)
(* its id, and whether it is exempted.                                     *)
FileClasses == {"yml", "yaml", "md"}
Holdings ==
    LET packs == ToSet(inquiry.packs)
    IN (packs \cup {Intact(p) : p \in packs}) \X
       ({{}} \cup IF inquiry.kind = "gate" THEN {inquiry.exempt} ELSE {})
Key(p, exempt) == [name |-> p.id, on |-> p.on, exempt |-> exempt \cap {p.id}]
Keyed(patterns, exempt) ==
    [i \in DOMAIN patterns |-> [patterns[i] EXCEPT !.id = Key(patterns[i], exempt)]]
Held(pack, exempt) ==
    [keywords |-> pack.keywords, safe |-> Keyed(pack.safe, exempt), guarded |-> Keyed(pack.guarded, exempt),
     files |-> {f \in FileClasses : SelectsFile(pack, f)}]
Exempted == UNION {{Key(g, {g.id}) : g \in ToSet(h[1].guarded)} : h \in Holdings}
Engine == INSTANCE RuleEngine WITH
    Packs <- Holdings, Pack <- [h \in Holdings |-> Held(h[1], h[2])], Exempt <- Exempted

(* What is asked of it: `keys` are those of the patterns that match.       *)
Matching(pack, exempt, text) ==
    {Key(p, exempt) : p \in {q \in ToSet(pack.safe) \cup ToSet(pack.guarded) : Hits(q, text)}}
Unit(mode, exe, file, keys) ==
    [mode |-> mode, exe |-> exe, file |-> file, matches |-> keys, mentions |-> {}, builtin |-> FALSE]

Call(pack, exempt, input) ==
    IF input.mode = "content"
    THEN [kind |-> "content",
          units |-> <<Unit("content", "", input.file, Matching(pack, exempt, input.text))>>]
    ELSE [kind |-> "command", front |-> "hook",
          raw |-> Unit("command", "", "", Matching(pack, exempt, input.words)),
          units |-> [i \in DOMAIN input.tokens |->
                        Unit("command", input.tokens[i][1], "", Matching(pack, exempt, input.tokens[i]))]]

(* A pack with a broken pattern is not loaded, and the engine then allows  *)
(* everything.                                                             *)
Loads(pack) == \A p \in ToSet(pack.safe) \cup ToSet(pack.guarded) : ~p.broken
AnyMarks == [readable |-> TRUE, marks |-> {}]
Answer(pack, exempt, input) ==
    Engine!Evaluate(Call(pack, exempt, input), <<<<pack, exempt>>>>, AnyMarks, ~Loads(pack), FALSE)
DeniedBy(answer, rule) == answer.channel = "deny" /\ answer.rule.name = rule

(* What validate_override asks of the rules that are exempted.             *)
ExemptsDenials(pack, exempt) ==
    /\ exempt # {} /\ IsInjective(Ids(pack.guarded))
    /\ \A id \in exempt : \E g \in ToSet(pack.guarded) : g.id = id /\ g.channel = "deny"

(* verify_override_regression_gate: exactly the exempted rules no longer   *)
(* deny their cases.                                                       *)
PassesGate(pack, cases, exempt) ==
    /\ ExemptsDenials(pack, exempt)
    /\ Verifies(pack, cases) /\ Loads(pack)
    /\ \A c \in cases : (c.rule \in exempt) # DeniedBy(Answer(pack, exempt, c.input), c.rule)

-----------------------------------------------------------------------------
(* Curation.                                                               *)

(* The texts of a recorded input that a pack is asked about.               *)
Texts(pack, input) ==
    IF input.mode = "content"
    THEN At(<<input.text>>, {k \in {1} : SelectsFile(pack, input.file)})
    ELSE IF pack.keywords = {} THEN <<input.words>>
    ELSE Considered(pack, input.words)

(* reachable_deny_pattern: the pattern that ends the scan of a recorded    *)
(* input, or none; an error if it does not compile.  A predicate still     *)
(* owns the cases recorded of it.                                          *)
Reached(pack, case) ==
    LET mode == case.input.mode
        texts == Texts(pack, case.input)
        owns(g) == IsPredicate(g) /\ g.id = case.rule
        asked == {i \in Enabled(pack) : /\ pack.guarded[i].channel = "deny"
                                        /\ pack.guarded[i].check = mode \/ owns(pack.guarded[i])}
        safe(k) == SafeEnds(pack, mode, texts[k])
        rules(k) == {i \in asked : owns(pack.guarded[i]) \/ Ends(pack.guarded[i], texts[k])}
        faulty(k) == safe(k) # {} /\ pack.safe[Min(safe(k))].broken
        ends == {k \in DOMAIN texts : faulty(k) \/ (safe(k) = {} /\ rules(k) # {})}
        first == pack.guarded[Min(rules(Min(ends)))]
    IN IF ends = {} THEN [kind |-> "dropped"]
       ELSE IF faulty(Min(ends)) \/ first.broken THEN [kind |-> "error"]
       ELSE [kind |-> "kept", rule |-> first.id]

(* curate_case: dropped, an error, or kept under the rule it reaches now.  *)
Owners(packs, case) == {n \in DOMAIN packs : packs[n].id = case.pack}
Curated(packs, case) ==
    IF Owners(packs, case) = {} THEN [kind |-> "dropped"]
    ELSE Reached(packs[Min(Owners(packs, case))], case)

(* prune_recorded_cases_internal for one file: each case once, the first   *)
(* ones up to the limit.                                                   *)
Pruned(file, packs, limit) ==
    LET kept == {i \in DOMAIN file : Curated(packs, file[i]).kind = "kept"}
        now == [i \in kept |-> [file[i] EXCEPT !.rule = Curated(packs, file[i]).rule]]
        once == {i \in kept : \A j \in kept : now[j] = now[i] => i <= j}
    IN At(now, {i \in once : Cardinality({j \in once : j <= i}) <= limit})

-----------------------------------------------------------------------------
(* A suite is made, and then verified against a pack that may have been    *)
(* edited since, or with an override; or corpora are curated file by file. *)

MakeSuite ==
    /\ inquiry.kind \in {"verify", "gate", "release"} /\ suite = <<>>
    /\ suite' = <<IF inquiry.kind = "release" THEN GenerateRelease(inquiry.packs)
                  ELSE Generate(inquiry.packs[1])>>
    /\ UNCHANGED <<inquiry, corpora, next, verdict>>

VerifySuite ==
    /\ inquiry.kind \in {"verify", "gate"} /\ suite # <<>> /\ suite[1].ok /\ verdict = <<>>
    /\ verdict' = <<IF inquiry.kind = "verify"
                    THEN Verifies(inquiry.packs[2], suite[1].cases)
                    ELSE PassesGate(inquiry.packs[1], suite[1].cases, inquiry.exempt)>>
    /\ UNCHANGED <<inquiry, suite, corpora, next>>

(* An error ends the run; the files before it have been rewritten.         *)
CurateFile ==
    /\ inquiry.kind = "curate" /\ verdict = <<>> /\ next <= Len(corpora)
    /\ IF \E i \in DOMAIN corpora[next] : Curated(inquiry.packs, corpora[next][i]).kind = "error"
       THEN verdict' = <<FALSE>> /\ UNCHANGED <<corpora, next>>
       ELSE /\ corpora' = [corpora EXCEPT ![next] = Pruned(@, inquiry.packs, inquiry.limit)]
            /\ next' = next + 1
            /\ verdict' = IF next = Len(corpora) THEN <<TRUE>> ELSE <<>>
    /\ UNCHANGED <<inquiry, suite>>

(* What may be asked: packs are lists of patterns, a matching rule does    *)
(* not allow, and a write goes to a file of one of the classes.            *)
IsList(s) == s \in Seq(ToSet(s))
IsPattern(p) == "id" \in DOMAIN p
IsInput(input) ==
    \/ input.mode = "content" /\ input.file \in FileClasses
    \/ input.mode = "command" /\ IsList(input.tokens)
IsRule(g) ==
    /\ IsPattern(g) /\ g.channel \in {"warning", "rewrite", "deny"}
    /\ g.example.mode \in {"none", "empty"} \/ IsInput(g.example)
IsPack(pack) ==
    /\ {"safe", "guarded"} \subseteq DOMAIN pack
    /\ IsList(pack.safe) /\ \A p \in ToSet(pack.safe) : IsPattern(p)
    /\ IsList(pack.guarded) /\ \A g \in ToSet(pack.guarded) : IsRule(g)
IsCorpus(file) ==
    IsList(file) /\ \A c \in ToSet(file) : {"rule", "pack", "input"} \subseteq DOMAIN c /\ IsInput(c.input)
IsInquiry(q) ==
    /\ IsList(q.packs) /\ \A p \in ToSet(q.packs) : IsPack(p)
    /\ q.kind \in {"verify", "gate"} => 1 \in DOMAIN q.packs
    /\ q.kind = "verify" => 2 \in DOMAIN q.packs
    /\ q.kind = "curate" =>
         IsList(q.files) /\ q.limit \in Nat /\ \A f \in ToSet(q.files) : IsCorpus(f)
InquiriesAreWellFormed == \A q \in Inquiries : IsInquiry(q)

SuitesInit(inquiries) ==
    /\ inquiry \in inquiries
    /\ corpora = inquiry.files
    /\ suite = <<>> /\ next = 1 /\ verdict = <<>>

SuitesNext == MakeSuite \/ VerifySuite \/ CurateFile

-----------------------------------------------------------------------------
(* Properties.                                                             *)

(* The suites and the engine see the same in an input: the segments are    *)
(* the tokens, and the pack, which is not one for the line as a whole, is  *)
(* asked about them; or it is asked about the file.  No pattern does what  *)
(* the suites leave out: a safe pattern that asks for state, or a rule     *)
(* that brings names of programs along.                                    *)
IsPlain(pack) ==
    /\ \A p \in ToSet(pack.safe) : ~IsPredicate(p)
    /\ \A g \in ToSet(pack.guarded) : g.check # "deprecated_command"
ReadAlike(pack, input) ==
    /\ IsPlain(pack)
    /\ IF input.mode = "content" THEN SelectsFile(pack, input.file)
       ELSE pack.keywords # {} /\ Segments(input.words) = input.tokens

(* Every enabled rule of a suite's pack is denied by the engine on its own *)
(* case, or was named as skipped; only a state-dependent rule before it    *)
(* may take a command away from it, and another rule a content.            *)
SuiteIsDenied ==
    inquiry.kind \in {"verify", "gate", "release"} /\ suite # <<>> /\ suite[1].ok =>
        /\ inquiry.kind # "release" =>
             {c.rule : c \in suite[1].cases} \cup suite[1].skipped
                 = {g.id : g \in {h \in ToSet(inquiry.packs[1].guarded) : h.enabled}}
        /\ \A c \in suite[1].cases : \A p \in ToSet(inquiry.packs) :
             LET answer == Answer(p, {}, c.input)
                 own == \A q \in ToSet(inquiry.packs) : q.id = c.pack => q = p
             IN (/\ IF inquiry.kind = "release" THEN own ELSE p = inquiry.packs[1]
                 /\ p.id = c.pack
                 /\ Loads(p) /\ ReadAlike(p, c.input)) =>
                  /\ answer.channel = "deny"
                  /\ (c.input.mode = "command" /\ inquiry.kind # "release") =>
                       \/ answer.rule.name = c.rule
                       \/ \E g \in ToSet(p.guarded) : IsPredicate(g) /\ g.id = answer.rule.name

(* A suite verifies the very pack it was made of exactly if no rule was    *)
(* skipped; and a pack that it verifies, whatever was edited since, denies *)
(* a case for each of its enabled rules.                                   *)
VerifiedIsDenied ==
    inquiry.kind = "verify" /\ verdict # <<>> =>
        LET pack == inquiry.packs[2]
            cases == suite[1].cases
        IN /\ pack = inquiry.packs[1] => (verdict[1] <=> suite[1].skipped = {})
           /\ verdict[1] /\ Loads(pack) =>
                \A g \in {h \in ToSet(pack.guarded) : h.enabled} : \E c \in cases :
                    /\ c.rule = g.id
                    /\ ReadAlike(pack, c.input) => Answer(pack, {}, c.input).channel = "deny"

(* An override that passes the gate takes away the denials of the rules it *)
(* names and of no other; and one of deny rules is held back only for what *)
(* the suite cannot say: a skipped rule, a command or file read            *)
(* differently, or a content that another rule denies as well.             *)
GateIsFair ==
    inquiry.kind = "gate" /\ verdict # <<>> =>
        LET pack == inquiry.packs[1]
            exempt == inquiry.exempt
            cases == suite[1].cases
            enabled == {g \in ToSet(pack.guarded) : g.enabled}
        IN IF verdict[1]
           THEN \A g \in enabled : \E c \in cases :
                  /\ c.rule = g.id
                  /\ g.id \notin exempt <=> DeniedBy(Answer(pack, exempt, c.input), g.id)
           ELSE \/ ~ExemptsDenials(pack, exempt)
                \/ suite[1].skipped # {} \/ ~Loads(pack)
                \/ \E c \in cases :
                     /\ c.rule \notin exempt
                     /\ \/ ~ReadAlike(pack, c.input)
                        \/ /\ c.input.mode = "content"
                           /\ \E g \in enabled : g.id # c.rule /\ Hits(g, c.input.text)

(* Curation keeps what the current packs deny, under the rule that denies  *)
(* it, and drops nothing else: a broken pack is an error and no reason to  *)
(* discard evidence.                                                       *)
CurationIsExact ==
    inquiry.kind = "curate" =>
        \A f \in DOMAIN corpora : \A i \in DOMAIN inquiry.files[f] :
            LET case == inquiry.files[f][i]
                owners == Owners(inquiry.packs, case)
                pack == inquiry.packs[Min(owners)]
                answer == Answer(Intact(pack), {}, case.input)
                kept == {r \in ToSet(corpora[f]) : r.pack = case.pack /\ r.input = case.input}
                settled == /\ owners # {} /\ IsPlain(pack)
                           /\ \/ case.input.mode = "content" \/ pack.keywords = {}
                              \/ ReadAlike(pack, case.input)
                           /\ ~\E g \in ToSet(pack.guarded) : IsPredicate(g)
            IN IF f >= next THEN corpora[f] = inquiry.files[f]
               ELSE /\ owners = {} => kept = {}
                    /\ settled /\ answer.channel = "deny" =>
                         \/ \E r \in kept : r.rule = answer.rule.name
                         \/ Cardinality(DOMAIN corpora[f]) = inquiry.limit
                    /\ settled /\ answer.channel # "deny" => kept = {}

RegressionSuitesHold ==
    SuiteIsDenied /\ VerifiedIsDenied /\ GateIsFair /\ CurationIsExact
=============================================================================
