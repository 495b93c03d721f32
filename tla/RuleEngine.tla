----------------------------- MODULE RuleEngine -----------------------------
(***************************************************************************)
(* How the loaded rule packs judge a call.  What a regular expression      *)
(* matches is data: a unit of a call (the whole command line, one segment  *)
(* of it, one file) lists the rules whose expression matches it.  What is  *)
(* modelled is the control around it: dispatch, safe patterns, the order   *)
(* in which packs and rules are asked, errors, and severity.               *)
(*                                                                         *)
(* Token dispatch asks the packs in the order they were loaded, which is   *)
(* that of the directory listing; the packs without keywords and those for *)
(* content are asked in the order of a hash map, which every process makes *)
(* anew.  Here `order`, any permutation of the loaded packs and a          *)
(* parameter, stands for both.  The scan is one loop in the code; an       *)
(* error or a denial ends it, so that the verdict of a scan is that of the *)
(* verdicts of its packs.                                                  *)
(***************************************************************************)
EXTENDS Naturals, Sequences, SequencesExt, FiniteSetsExt

CONSTANTS
    Packs,   \* ids of the loaded packs
    Pack,    \* id -> [keywords, files, safe, guarded]
    Exempt   \* rules a verified repository override exempts

(* Packs are lists of patterns; a rule that matches does not allow.        *)
ASSUME PacksAssumption ==
    /\ IsFiniteSet(Packs)
    /\ \A p \in Packs :
         /\ Pack[p].safe \in Seq(ToSet(Pack[p].safe))
         /\ Pack[p].guarded \in Seq(ToSet(Pack[p].guarded))
         /\ \A g \in ToSet(Pack[p].guarded) : g.channel \in {"warning", "rewrite", "deny"}

(* A call: its front end, its kind, the units its kind asks for, the raw   *)
(* command line as a unit, and the operations the raw text mentions.       *)
(* A unit: mode, executable or file class, matching rules, operations its  *)
(* text mentions, and whether a built-in write guard detects it.           *)

Channels == {"allowed", "warning", "rewrite", "deny"}
Rank == [allowed |-> 0, warning |-> 1, rewrite |-> 2, deny |-> 3]
Allowed == [channel |-> "allowed", rule |-> "none", pack |-> "none"]
Error == [channel |-> "error", rule |-> "none", pack |-> "none"]
GuardCrash == [channel |-> "deny", rule |-> "guard-crash", pack |-> "fail-closed"]
WriteGuard == [channel |-> "deny", rule |-> "write-guard", pack |-> "write-guard"]

-----------------------------------------------------------------------------
(* One check.                                                              *)

(* The state predicates: the mark each needs, and the operation it guards. *)
StatePredicate == [
    requires_flush_first |-> [mark |-> "flush", guards |-> "any"],
    requires_pull_first |-> [mark |-> "pull", guards |-> "any"],
    repair_requires_flush |-> [mark |-> "flush", guards |-> "repair"],
    flush_requires_pull |-> [mark |-> "pull", guards |-> "flush"]]

(* evaluate_command_predicate asks the store first, so a store that cannot *)
(* be read is an error even for a call the predicate does not guard.       *)
StateMatches(predicate, unit, store) ==
    LET p == StatePredicate[predicate]
    IN /\ p.guards \in {"any"} \cup unit.mentions
       /\ p.mark \notin store.marks

YesNo(b) == IF b THEN "yes" ELSE "no"

(* pattern_matches_content: a predicate asks for the target file alone.    *)
MatchesContent(pattern, unit) ==
    YesNo(pattern.check \in {"content", "is_shared_checkout"} /\ pattern.id \in unit.matches)

(* pattern_matches_command: "yes", "no" or "err".                          *)
MatchesCommand(pattern, unit, store) ==
    IF pattern.check \in DOMAIN StatePredicate
    THEN IF store.readable THEN YesNo(StateMatches(pattern.check, unit, store)) ELSE "err"
    ELSE IF pattern.check = "deprecated_command" /\ ~pattern.wellFormed THEN "err"
    ELSE YesNo(/\ pattern.check \in {"command", "deprecated_command", "push_requires_current_remote_head"}
                /\ pattern.id \in unit.matches)

Matches(pattern, unit, store) ==
    IF unit.mode = "content" THEN MatchesContent(pattern, unit)
    ELSE MatchesCommand(pattern, unit, store)

-----------------------------------------------------------------------------
(* One pack, and the packs in their order.                                 *)

Active(rule) == rule.enabled /\ rule.id \notin Exempt

(* What a pack signals: nothing when its first decisive safe pattern       *)
(* matches, an error when that cannot be decided, and otherwise the        *)
(* channels of its rules that match, each at the place of its rule.        *)
Signals(p, unit, store) ==
    LET safe == {k \in DOMAIN Pack[p].safe : Matches(Pack[p].safe[k], unit, store) # "no"}
        rule(i) == Pack[p].guarded[i]
        hits == {i \in DOMAIN Pack[p].guarded :
                   Active(rule(i)) /\ Matches(rule(i), unit, store) # "no"}
    IN IF safe = {}
       THEN [i \in hits |-> IF Matches(rule(i), unit, store) = "err" THEN Error
                            ELSE [channel |-> rule(i).channel, rule |-> rule(i).id, pack |-> p]]
       ELSE IF Matches(Pack[p].safe[Min(safe)], unit, store) = "err" THEN <<Error>> ELSE <<>>

(* Mutant: a later result of any severity replaces an earlier one.         *)
LastResult(results) == IF DOMAIN results = {} THEN Allowed ELSE results[Max(DOMAIN results)]

(* most_severe_result, folded: the first of the most severe results.       *)
MostSevere(results) ==
    LET worst == {i \in DOMAIN results :
                    \A j \in DOMAIN results : Rank[results[j].channel] <= Rank[results[i].channel]}
    IN IF DOMAIN results = {} THEN Allowed ELSE results[Min(worst)]

(* What results at ascending places come to: the first denial or error     *)
(* ends the scan, and without one the most severe result counts.           *)
Verdict(results) ==
    LET ends == {i \in DOMAIN results : results[i].channel \in {"deny", "error"}}
    IN IF ends = {} THEN MostSevere(results) ELSE results[Min(ends)]

(* An error lets the whole unit through, whatever else has matched.        *)
LetThrough(r) == IF r.channel = "error" THEN Allowed ELSE r

(* The packs that are asked, in the order they come in.                    *)
ScanPacks(asked, order, unit, store) ==
    LetThrough(Verdict([n \in {k \in DOMAIN order : order[k] \in asked} |->
                            Verdict(Signals(order[n], unit, store))]))

(* pack_dispatch_keywords: a deprecated_command rule adds its own names.   *)
DispatchKeywords(p) ==
    Pack[p].keywords \cup UNION {IF g.check = "deprecated_command" THEN g.names ELSE {} :
                                   g \in ToSet(Pack[p].guarded)}

(* The packs for an executable, for the raw line and for a file.           *)
TokenPacks(exe) == {p \in Packs : exe \in DispatchKeywords(p)}
UnconditionalPacks == {p \in Packs : Pack[p].keywords = {}}
ContentPacks(file) == {p \in Packs : file \in Pack[p].files}

EvaluateToken(unit, order, store) == ScanPacks(TokenPacks(unit.exe), order, unit, store)

EvaluateUnconditional(raw, order, store) == ScanPacks(UnconditionalPacks, order, raw, store)

-----------------------------------------------------------------------------
(* A call.                                                                 *)

(* The raw command line is scanned for the hook only; a wrapper sees argv. *)
EvaluateCommand(c, order, store) ==
    Verdict([i \in {0} \cup DOMAIN c.units |->
                IF i # 0 THEN EvaluateToken(c.units[i], order, store)
                ELSE IF c.front = "hook" THEN EvaluateUnconditional(c.raw, order, store)
                ELSE Allowed])

(* What a load that failed decides.                                        *)
Unavailable(failClosed) == IF failClosed THEN GuardCrash ELSE Allowed

(* evaluate_content_inner: the built-in write guards come before the       *)
(* availability check, the packs after it.                                 *)
EvaluateContent(unit, order, store, faulty, failClosed) ==
    IF unit.builtin THEN WriteGuard
    ELSE IF faulty THEN Unavailable(failClosed)
    ELSE ScanPacks(ContentPacks(unit.file), order, unit, store)

(* The engine's answer to a call, whatever its kind.                       *)
Evaluate(c, order, store, faulty, failClosed) ==
    IF c.kind = "command"
    THEN IF faulty THEN Unavailable(failClosed) ELSE EvaluateCommand(c, order, store)
    ELSE IF c.kind = "unsupported" THEN Allowed
    ELSE Verdict([i \in DOMAIN c.units |->
                     EvaluateContent(c.units[i], order, store, faulty, failClosed)])

(* mark_command_state_if_needed looks at the text of the whole command: a  *)
(* mention of a pull or fetch is enough, and comes before a flush.         *)
MarksOf(c) ==
    IF c.kind # "command" THEN {}
    ELSE IF "pull" \in c.raw.mentions /\ "help" \notin c.raw.mentions THEN {"pull"}
    ELSE c.raw.mentions \cap {"flush"}

-----------------------------------------------------------------------------
(* What the packs ask for, without any order: the reference the evaluation *)
(* is compared with.                                                       *)

(* The units of a call with the packs that apply to each.                  *)
Applications(c) ==
    LET packs(u) == IF c.kind = "command" THEN TokenPacks(u.exe) ELSE ContentPacks(u.file)
    IN CASE c.kind = "unsupported" -> {}
         [] c.kind = "command" /\ c.front = "hook" ->
              ({c.raw} \X UnconditionalPacks) \cup UNION {{u} \X packs(u) : u \in ToSet(c.units)}
         [] OTHER -> UNION {{u} \X packs(u) : u \in ToSet(c.units)}

(* A write that a built-in guard detects.                                  *)
BuiltinGuarded(c) == c.kind \in {"content", "batch"} /\ \E u \in ToSet(c.units) : u.builtin

(* Some pattern of the pack cannot be decided on the unit.                 *)
UndecidedBy(p, unit, store) ==
    \E pattern \in ToSet(Pack[p].safe) \cup {g \in ToSet(Pack[p].guarded) : Active(g)} :
        Matches(pattern, unit, store) = "err"

Undecided(c, store) == \E a \in Applications(c) : UndecidedBy(a[2], a[1], store)

(* The rules of a pack that match a unit, unless a safe pattern does.      *)
DemandedBy(p, unit, store) ==
    {g \in ToSet(Pack[p].guarded) :
       /\ Active(g) /\ Matches(g, unit, store) = "yes"
       /\ \A s \in ToSet(Pack[p].safe) : Matches(s, unit, store) # "yes"}

(* The rules that apply to a call and match it.                            *)
Demands(c, store) == UNION {DemandedBy(a[2], a[1], store) : a \in Applications(c)}

Severest(c, store) ==
    LET demanded == {g.channel : g \in Demands(c, store)}
    IN IF "deny" \in demanded \/ BuiltinGuarded(c) THEN "deny"
       ELSE IF "rewrite" \in demanded THEN "rewrite"
       ELSE IF "warning" \in demanded THEN "warning"
       ELSE "allowed"
=============================================================================
