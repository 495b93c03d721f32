------------------------------ MODULE TextGates ------------------------------
(***************************************************************************)
(* What the release tooling reads out of texts before a pack or an         *)
(* override is shipped: whether a regular expression repeats a repetition, *)
(* whether an edit widens or narrows it, whether a redirect names a way    *)
(* out, and what an override file says.                                    *)
(*                                                                         *)
(* A word, a character class ("[ab]"), an escape ("\d") and a counted      *)
(* repetition ("{n}") are one character each: nothing looks inside them.   *)
(***************************************************************************)
EXTENDS PatternEdits

CONSTANTS
    Words,       \* characters that are words
    Directives,  \* the words that are directive verbs
    Negators     \* the words that forbid what follows

VARIABLES
    submitted,   \* a text, with what its kind of check is given beside it
    finding      \* what the check found, in a sequence

textVars == <<submitted, finding>>

-----------------------------------------------------------------------------
(* regex_safety.rs.                                                        *)

Escapes == {"\\d", "\\w"}
Repeats == {"+", "*", "?"}

(* A group that ends with `inner`, and is itself followed by `outer`.      *)
GroupEndsWith(text, inner, outer) ==
    \E j \in Occurrences(text, <<inner, ")", outer>>) :
        \E i \in Places(text, "(") : i < j /\ \A k \in i..j : text[k] # ")"

NestedPairs == {<<"+", "+">>, <<"*", "*">>, <<"?", "?">>, <<"{n}", "+">>, <<"+", "*">>, <<"*", "+">>}

NestedQuantifiers(text) ==
    \/ \E p \in NestedPairs : GroupEndsWith(text, p[1], p[2])
    \/ \E i \in DOMAIN text : i + 2 <= Len(text) /\ text[i] \in Classes \cup Escapes
          /\ {text[i + 1], text[i + 2]} \subseteq Repeats \cup {"{n}"}

Alternatives == {<<"a">>, <<"b">>, <<"x">>, <<"a", "b">>, <<"a", "b", "c">>}

(* A doubled alternative, or a first alternation one side of which begins  *)
(* with the other.                                                         *)
OverlappingAlternation(text) ==
    LET open == IndexOf(text, {"("})
        pipe == open + IndexOf(Drop(text, open), {"|"})
        close == pipe + IndexOf(Drop(text, pipe), {")"})
        left == SubSeq(text, open + 1, pipe - 1)
        right == SubSeq(text, pipe + 1, close - 1)
    IN \/ \E w \in Alternatives : Holds(text, <<"(">> \o w \o <<"|">> \o w \o <<")">>)
       \/ /\ 0 < open /\ open < pipe /\ pipe < close /\ close < Len(text)
          /\ text[close + 1] \in Repeats
          /\ left # <<>> /\ right # <<>>
          /\ (IsPrefix(left, right) \/ IsPrefix(right, left))

RepeatedCharacterClass(text) ==
    LET classes == {i \in DOMAIN text : text[i] \in Classes}
    IN \/ \E c \in Classes : Holds(text, <<c, "+", ")">>)
       \/ \E e \in Escapes, q \in Repeats : Holds(text, <<"(", e, "+", ")", q>>)
       \/ classes # {} /\ (Holds(text, <<"*", "*">>) \/ Holds(text, <<"?", "?">>)
                           \/ Holds(text, <<"[+]">>))

CatastrophicEscape(text) ==
    \/ \E q \in {"*", "+"}, r \in {"*", "?"} : Holds(text, <<"(", ".", q, ")", r>>)
    \/ Len(text) > 3 /\ \E q \in Repeats : Holds(text, <<".", "*", q>>)

Suspicious(text) ==
    \/ NestedQuantifiers(text) \/ OverlappingAlternation(text)
    \/ RepeatedCharacterClass(text) \/ CatastrophicEscape(text)
    \/ Holds(text, <<"*", "*">>)

(* check_pack_for_redos: the patterns with a finding.                      *)
UnsafePatterns(texts) == {i \in DOMAIN texts : Suspicious(texts[i])}

-----------------------------------------------------------------------------
(* rule_pack.rs: a redirect must name an alternative.                      *)

Quotes == {"'", "\""}

(* A quoted command, flag or path; a quote after a word is an apostrophe.  *)
ContainsQuotedSnippet(text) ==
    \E i \in DOMAIN text :
        LET close == IndexOf(Drop(text, i), {text[i]})
            content == SubSeq(text, i + 1, i + close - 1)
        IN /\ text[i] \in Quotes /\ close # 0
           /\ i > 1 => text[i - 1] \notin Words
           /\ Len(content) >= 2 /\ \E k \in DOMAIN content : content[k] \in {" ", "/", "-"}

CodeSpan(text) ==
    \E i, j \in Places(text, "tick") :
        i + 1 < j /\ \A k \in (i + 1)..(j - 1) : text[k] \notin {"tick", "nl"}

(* The words that remain when every negator takes the word after it along. *)
Unforbidden(text) ==
    LET step(seen, c) ==
            IF c \notin Words THEN [seen EXCEPT !.negated = @ /\ c = " "]
            ELSE IF seen.negated THEN [seen EXCEPT !.negated = FALSE]
            ELSE IF c \in Negators THEN [seen EXCEPT !.negated = TRUE]
            ELSE [seen EXCEPT !.words = @ \cup {c}]
    IN FoldLeft(step, [negated |-> FALSE, words |-> {}], text).words

RedirectNamesAlternative(reason, rewrite) ==
    \/ rewrite # <<>>
    \/ \E i \in DOMAIN reason : reason[i] \in {"{value}", "https://x"}
    \/ CodeSpan(reason) \/ ContainsQuotedSnippet(reason)
    \/ Unforbidden(reason) \cap Directives # {}

Violation(reason, rewrite) ==
    IF Trim(reason, {" "}) = <<>> THEN "EmptyReason"
    ELSE IF RedirectNamesAlternative(reason, Trim(rewrite, {" "})) THEN "none"
    ELSE "NonActionable"

-----------------------------------------------------------------------------
(* overrides.rs: the text of an override.                                  *)

(* Per character, whether it stands between quotation marks, which a       *)
(* backslash between them does not end.                                    *)
Unquoted(text) ==
    LET step(s, c) ==
            IF s.escaped THEN [s EXCEPT !.escaped = FALSE, !.free = Append(@, FALSE)]
            ELSE IF c = "\\" /\ s.quote THEN [s EXCEPT !.escaped = TRUE, !.free = Append(@, FALSE)]
            ELSE IF c = "\"" THEN [s EXCEPT !.quote = ~@, !.free = Append(@, FALSE)]
            ELSE [s EXCEPT !.free = Append(@, ~s.quote)]
    IN FoldLeft(step, [quote |-> FALSE, escaped |-> FALSE, free |-> <<>>], text)

FindUnquoted(text, char) ==
    LET free == Unquoted(text).free
    IN Min({i \in Places(text, char) : free[i]} \cup {Len(text) + 1})

(* Mutant: a comment begins at the first `#`, quoted or not.               *)
StripAtHash(text) == SubSeq(text, 1, FirstOf(text, {"#"}) - 1)

StripComment(text) == SubSeq(text, 1, FindUnquoted(text, "#") - 1)

Blanks == {" "}
Bad == <<[key |-> "", array |-> FALSE, value |-> <<>>]>>    \* a line that is refused

(* A quoted string, or a bare word; in a sequence, or nothing.             *)
ParseString(text) ==
    LET value == Trim(text, Blanks)
        step(s, c) ==
            IF s.bad THEN s
            ELSE IF s.escaped
            THEN CASE c \in {"\"", "\\"} -> [s EXCEPT !.escaped = FALSE, !.value = Append(@, c)]
                   [] c = "n" -> [s EXCEPT !.escaped = FALSE, !.value = Append(@, "nl")]
                   [] OTHER -> [s EXCEPT !.bad = TRUE]
            ELSE IF c = "\\" THEN [s EXCEPT !.escaped = TRUE]
            ELSE [s EXCEPT !.value = Append(@, c)]
        read == FoldLeft(step, [value |-> <<>>, escaped |-> FALSE, bad |-> FALSE],
                         SubSeq(value, 2, Len(value) - 1))
    IN IF Len(value) >= 2 /\ value[1] = "\"" /\ Last(value) = "\""
       THEN IF read.bad \/ read.escaped THEN <<>> ELSE <<read.value>>
       ELSE IF value = <<>> \/ " " \in ToSet(value) THEN <<>> ELSE <<value>>

(* The items of an array; a trailing comma is allowed.                     *)
ParseArray(text) ==
    LET inner == Trim(SubSeq(text, 2, Len(text) - 1), Blanks)
        scan == Unquoted(inner)
        commas == SetToSortSeq({0} \cup {i \in Places(inner, ",") : scan.free[i]}, <)
        item(k) == SubSeq(inner, commas[k] + 1,
                          IF k < Len(commas) THEN commas[k + 1] - 1 ELSE Len(inner))
        items == [k \in DOMAIN commas |-> item(k)]
        given == IF Trim(Last(items), Blanks) = <<>> THEN Front(items) ELSE items
    IN IF Len(text) < 2 \/ Last(text) # "]" \/ scan.quote
          \/ \E k \in DOMAIN given : ParseString(given[k]) = <<>>
       THEN <<>>
       ELSE <<[k \in DOMAIN given |-> ParseString(given[k])[1]]>>

Aliases == [repository |-> {"repository", "repo"}, release_ref |-> {"release_ref", "release"},
            exempted_rule_ids |-> {"exempted_rule_ids", "rules"},
            justification |-> {"justification", "reason"}]

ParseValue(value) ==
    IF value # <<>> /\ value[1] = "[" THEN ParseArray(value) ELSE ParseString(value)

(* A field: a word, and a value that can be read.                          *)
Entry(key, value, parsed) ==
    IF Len(key) # 1 \/ key[1] \notin Words \/ parsed = <<>> THEN Bad
    ELSE <<[key |-> key[1], array |-> value[1] = "[", value |-> parsed[1]]>>

Field(line, equals) ==
    LET value == Trim(Drop(line, equals), Blanks)
    IN Entry(Trim(SubSeq(line, 1, equals - 1), Blanks), value, ParseValue(value))

(* One line: nothing, a field with its value, or no override at all.       *)
LineEntry(line, equals) ==
    IF line = <<>> THEN <<>>
    ELSE IF line[1] = "[" \/ equals > Len(line) THEN Bad
    ELSE Field(line, equals)

ParseLine(raw) ==
    LET line == Trim(StripComment(raw), Blanks) IN LineEntry(line, FindUnquoted(line, "="))

(* Each field once, an array for the rules alone, and no other field.      *)
Assemble(found) ==
    LET named(f) == {k \in DOMAIN found : found[k].key \in Aliases[f]}
    IN IF /\ \A k \in DOMAIN found : \E f \in DOMAIN Aliases :
                k \in named(f) /\ found[k].array = (f = "exempted_rule_ids")
          /\ \A f \in DOMAIN Aliases : Cardinality(named(f)) = 1
       THEN <<[f \in DOMAIN Aliases |-> found[CHOOSE k \in named(f) : TRUE].value]>>
       ELSE <<>>

Collect(entries) ==
    IF Bad \in ToSet(entries) THEN <<>> ELSE Assemble(FlattenSeq(entries))

(* parse_override_toml, for the fields above; the dates are like them.     *)
ParseOverride(lines) == Collect([k \in DOMAIN lines |-> ParseLine(lines[k])])

EscapeToml(value) ==
    FlattenSeq([k \in DOMAIN value |->
        CASE value[k] = "\\" -> <<"\\", "\\">>
          [] value[k] = "\"" -> <<"\\", "\"">>
          [] value[k] = "nl" -> <<"\\", "n">>
          [] OTHER -> <<value[k]>>])

RenderOverride(manifest) ==
    LET quoted(value) == <<"\"">> \o EscapeToml(value) \o <<"\"">>
        listed(values) == FlattenSeq([k \in DOMAIN values |->
                              (IF k = 1 THEN <<>> ELSE <<",", " ">>) \o quoted(values[k])])
        written(f) == IF f = "exempted_rule_ids" THEN <<"[">> \o listed(manifest[f]) \o <<"]">>
                      ELSE quoted(manifest[f])
        fields == <<"repository", "release_ref", "exempted_rule_ids", "justification">>
    IN [k \in DOMAIN fields |-> <<fields[k], " ", "=", " ">> \o written(fields[k])]

-----------------------------------------------------------------------------

(* A file that was edited: comments, blanks.                               *)
Indented(lines, after) == [k \in DOMAIN lines |-> <<" ">> \o lines[k] \o after]

Finding(q) ==
    CASE q.kind = "regex" -> UnsafePatterns(q.texts)
      [] q.kind = "edit" -> [widened |-> IsPatternWidened(q.previous, q.current),
                             narrowed |-> IsPatternNarrowed(q.previous, q.current),
                             back |-> IsPatternWidened(q.current, q.previous)]
      [] q.kind = "redirect" -> Violation(q.reason, q.rewrite)
      [] q.kind = "saved" -> ParseOverride(q.before \o Indented(RenderOverride(q.manifest), q.after))
      [] q.kind = "override" -> ParseOverride(q.lines)

TextsInit(texts) == submitted \in texts /\ finding = <<>>
TextsNext == finding = <<>> /\ finding' = <<Finding(submitted)>> /\ UNCHANGED submitted

-----------------------------------------------------------------------------
(* Properties.                                                             *)

(* A repeated group that ends with a repetition is refused, for every body *)
(* without a group of its own, and a pattern without groups that repeats   *)
(* nothing twice passes (regex_safety.rs).                                 *)
NestedRepetitionIsRefused ==
    submitted.kind = "regex" /\ finding # <<>> =>
        /\ submitted.nested \subseteq finding[1]
        /\ submitted.plain \cap finding[1] = {}

(* Undoing a widening is a narrowing, so that what the gate reports of a   *)
(* safe pattern it would report of a guarded one that took the same step   *)
(* back; an edit that changes nothing is no finding.  The one exception is *)
(* the lazy catch-all `.*?` (coverage.rs).                                 *)
EditsAreWeighedBothWays ==
    submitted.kind = "edit" /\ finding # <<>> /\ <<".", "*", "?">> \notin {submitted.previous, submitted.current} =>
        /\ finding[1].back => finding[1].narrowed
        /\ submitted.previous = submitted.current => ~finding[1].widened /\ ~finding[1].narrowed

(* A redirect passes if and only if one of its clauses offers something:   *)
(* to forbid, to warn, or to write an apostrophe offers nothing            *)
(* (rule_pack.rs, redirect_names_alternative).                             *)
RedirectsNameAWayOut ==
    submitted.kind = "redirect" /\ finding # <<>> => (finding[1] = "none") = submitted.offers

(* What is written as an override is read back as it was meant, whatever   *)
(* its justification or identifiers hold, with comments and blanks around  *)
(* it, and a text with a field too many, twice or missing is refused       *)
(* (overrides.rs, parse_override_toml and render_override_toml).           *)
OverridesReadBack ==
    /\ submitted.kind = "saved" /\ finding # <<>> => finding[1] = <<submitted.manifest>>
    /\ submitted.kind = "override" /\ finding # <<>> => finding[1] = submitted.means

TextGatesHold ==
    /\ NestedRepetitionIsRefused /\ EditsAreWeighedBothWays
    /\ RedirectsNameAWayOut /\ OverridesReadBack
=============================================================================
