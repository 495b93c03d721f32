-------------------------------- MODULE Texts --------------------------------
(***************************************************************************)
(* Operators on texts, which are sequences of characters, for the modules  *)
(* that model what the program reads in a command, a path, a file or a     *)
(* pattern.                                                                *)
(***************************************************************************)
EXTENDS Naturals, FiniteSetsExt, SequencesExt

From(text, i) == SubSeq(text, i, Len(text))
Drop(text, n) == From(text, n + 1)

(* Where the characters first belong to a set: 0 or the end, if nowhere.   *)
IndexOf(text, chars) == SelectInSeq(text, LAMBDA c : c \in chars)
FirstOf(text, chars) == Min({i \in DOMAIN text : text[i] \in chars} \cup {Len(text) + 1})

Places(text, char) == {i \in DOMAIN text : text[i] = char}

(* Where a part begins in a text.                                          *)
Occurrences(text, part) ==
    {i \in 1..(Len(text) + 1 - Len(part)) : SubSeq(text, i, i + Len(part) - 1) = part}
Holds(text, part) == Occurrences(text, part) # {}

Trim(text, blanks) ==
    LET kept == {i \in DOMAIN text : text[i] \notin blanks}
    IN IF kept = {} THEN <<>> ELSE SubSeq(text, Min(kept), Max(kept))
=============================================================================
