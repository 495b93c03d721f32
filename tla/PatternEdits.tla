----------------------------- MODULE PatternEdits -----------------------------
(***************************************************************************)
(* What an edit of a pattern does, as far as its text tells                *)
(* (coverage.rs).  A character class ("[ab]") is one character here, as    *)
(* nothing looks inside it.                                                *)
(***************************************************************************)
EXTENDS Texts

Classes == {"[ab]", "[+]"}

CatchAll == {<<".", "*">>, <<".", "+">>}
HasWildcard(text) == Holds(text, <<".", "*">>) \/ Holds(text, <<".", "+">>)
Brackets(text) == Cardinality({i \in DOMAIN text : text[i] \in Classes})
Anchors(text) == Cardinality(Places(text, "^") \cup Places(text, "$"))

IsPatternWidened(previous, current) ==
    \/ HasWildcard(current) /\ ~HasWildcard(previous)
    \/ IF current \in CatchAll \cup {<<".", "*", "?">>} THEN previous \notin CatchAll
       ELSE Brackets(current) < Brackets(previous)

IsPatternNarrowed(previous, current) ==
    \/ HasWildcard(previous) /\ ~HasWildcard(current)
    \/ previous \in CatchAll /\ current \notin CatchAll
    \/ Brackets(current) > Brackets(previous)
    \/ Anchors(current) > Anchors(previous)
=============================================================================
