----------------------- MODULE RegressionSuitesProofs -----------------------
(***************************************************************************)
(* That what the deny suites and the curation say of a pack is what the    *)
(* engine does with it, for any packs, inputs and recorded cases.          *)
(*                                                                         *)
(* Both look for the first text, and in it for the first rule, that denies *)
(* (ContentAnswer, CommandAnswer); what remains is to follow the places of *)
(* rules and cases through generation, verification and curation.          *)
(***************************************************************************)
EXTENDS Integers, Sequences, FiniteSets, FiniteSetTheorems, WellFoundedInduction, TLAPS, PackReleases

-----------------------------------------------------------------------------
(* Places.                                                                 *)

(* A set of places has a first one.                                        *)
LEMMA FirstIs ==
    ASSUME NEW S \in SUBSET Nat, S # {}
    PROVE  Suites!Min(S) \in S /\ \A m \in S : Suites!Min(S) <= m
<1>1. IsWellFoundedOn(OpToRel(<, Nat), Nat)
  BY NatLessThanWellFounded
<1>2. PICK n \in S : \A m \in S : ~ (<<m, n>> \in OpToRel(<, Nat))
  BY <1>1, WFMin
<1>3. \A m \in S : ~ (m < n)
  BY <1>2 DEF OpToRel
<1>4. \A m \in S : n <= m
  BY <1>3
<1> QED
  BY <1>4 DEF Suites!Min

(* A place before which no other is, is the first.                         *)
LEMMA FirstOf ==
    ASSUME NEW S \in SUBSET Nat, NEW n \in S, \A m \in S : n <= m
    PROVE  Suites!Min(S) = n
<1>1. Suites!Min(S) \in S /\ \A m \in S : Suites!Min(S) <= m
  BY FirstIs
<1>2. Suites!Min(S) \in Nat /\ n \in Nat /\ Suites!Min(S) <= n /\ n <= Suites!Min(S)
  BY <1>1
<1> QED
  BY <1>2

(* The engine looks for a first place as the suites do.                    *)
LEMMA EngineMin ==
    ASSUME NEW S
    PROVE  Suites!Engine!Min(S) = Suites!Min(S)
BY DEF Suites!Engine!Min, Suites!Min

(* The places of a list.                                                   *)
LEMMA ListIs ==
    ASSUME NEW s, Suites!IsList(s)
    PROVE  /\ DOMAIN s \subseteq Nat \ {0} /\ IsFiniteSet(DOMAIN s)
           /\ \A i \in DOMAIN s : s[i] \in Suites!ToSet(s)
           /\ \A x \in Suites!ToSet(s) : \E i \in DOMAIN s : s[i] = x
<1>1. s \in Seq(Suites!ToSet(s))
  BY DEF Suites!IsList
<1>2. DOMAIN s = 1..Len(s) /\ Len(s) \in Nat
  BY <1>1
<1>3. IsFiniteSet(1..Len(s))
  BY <1>2, FS_Interval
<1>4. Suites!ToSet(s) = {s[i] : i \in DOMAIN s}
  BY DEF Suites!ToSet
<1> QED
  BY <1>2, <1>3, <1>4

-----------------------------------------------------------------------------
(* Verdicts: the first denial, if there is one.                            *)

(* What a pack can say of a text, and where some results deny.             *)
Channels == {"allowed", "warning", "rewrite", "deny"}
Denying(results) == {i \in DOMAIN results : results[i].channel = "deny"}

(* The order of severity.                                                  *)
LEMMA RanksAre ==
    LET rank == Suites!Engine!Rank
    IN rank["allowed"] = 0 /\ rank["warning"] = 1 /\ rank["rewrite"] = 2 /\ rank["deny"] = 3
BY DEF Suites!Engine!Rank

(* Of results that do not deny, none is made a denial.                     *)
LEMMA MostSevereOf ==
    ASSUME NEW results, DOMAIN results \subseteq Nat,
           \A i \in DOMAIN results : results[i].channel \in Channels \ {"deny"}
    PROVE  Suites!Engine!MostSevere(results).channel \in Channels \ {"deny"}
<1> DEFINE rank == Suites!Engine!Rank
           worst == {i \in DOMAIN results :
                       \A j \in DOMAIN results : rank[results[j].channel] <= rank[results[i].channel]}
           at(n) == {i \in DOMAIN results : rank[results[i].channel] = n}
<1>1. CASE DOMAIN results = {}
  BY <1>1 DEF Suites!Engine!MostSevere, Suites!Engine!Allowed, Channels
<1>2. CASE DOMAIN results # {}
  <2>1. \A i \in DOMAIN results : rank[results[i].channel] \in 0..2
    <3> HIDE DEF rank
    <3>1. rank["allowed"] = 0 /\ rank["warning"] = 1 /\ rank["rewrite"] = 2
      BY RanksAre DEF rank
    <3> QED
      BY <3>1 DEF Channels
  <2> HIDE DEF rank
  <2>2. worst # {}
    <3>1. CASE at(2) # {}
      BY <2>1, <3>1
    <3>2. CASE at(2) = {} /\ at(1) # {}
      <4>1. \A i \in DOMAIN results : rank[results[i].channel] <= 1
        BY <2>1, <3>2
      <4> QED
        BY <3>2, <4>1
    <3>3. CASE at(2) = {} /\ at(1) = {}
      <4>1. \A i \in DOMAIN results : rank[results[i].channel] = 0
        BY <2>1, <3>3
      <4> QED
        BY <1>2, <4>1
    <3> QED
      BY <3>1, <3>2, <3>3
  <2>3. Suites!Min(worst) \in worst
    BY <2>2, FirstIs
  <2>4. Suites!Engine!MostSevere(results) = results[Suites!Min(worst)]
    BY <1>2, EngineMin DEF Suites!Engine!MostSevere, rank
  <2> HIDE DEF worst
  <2>5. Suites!Min(worst) \in DOMAIN results
    BY <2>3 DEF worst
  <2> QED
    BY <2>4, <2>5
<1> QED
  BY <1>1, <1>2

(* The engine's verdict on some results: the first denial if there is one. *)
LEMMA VerdictOf ==
    ASSUME NEW results, DOMAIN results \subseteq Nat,
           \A i \in DOMAIN results : results[i].channel \in Channels
    PROVE  LET v == Suites!Engine!Verdict(results)
           IN /\ v.channel \in Channels
              /\ v.channel = "deny" <=> Denying(results) # {}
              /\ Denying(results) # {} => v = results[Suites!Min(Denying(results))]
<1> DEFINE v == Suites!Engine!Verdict(results)
<1>1. {i \in DOMAIN results : results[i].channel \in {"deny", "error"}} = Denying(results)
  BY DEF Denying, Channels
<1>2. v = IF Denying(results) = {} THEN Suites!Engine!MostSevere(results)
          ELSE results[Suites!Min(Denying(results))]
  BY <1>1, EngineMin DEF Suites!Engine!Verdict
<1> HIDE DEF v
<1>3. CASE Denying(results) = {}
  <2>1. \A i \in DOMAIN results : results[i].channel \in Channels \ {"deny"}
    BY <1>3 DEF Denying
  <2>2. v.channel \in Channels \ {"deny"}
    BY <1>2, <1>3, <2>1, MostSevereOf
  <2> QED
    BY <1>3, <2>2 DEF v
<1>4. CASE Denying(results) # {}
  <2>1. Denying(results) \subseteq Nat
    BY DEF Denying
  <2>2. Suites!Min(Denying(results)) \in Denying(results)
    BY <1>4, <2>1, FirstIs
  <2>3. v = results[Suites!Min(Denying(results))]
    BY <1>2, <1>4
  <2>4. v.channel = "deny"
    BY <2>2, <2>3 DEF Denying
  <2> QED
    BY <1>4, <2>3, <2>4 DEF v, Channels
<1> QED
  BY <1>3, <1>4

-----------------------------------------------------------------------------
(* One pack and one text.                                                  *)

(* A pack whose lists may have lost some of their places.                  *)
IsHeld(pack) ==
    /\ DOMAIN pack.safe \subseteq Nat /\ DOMAIN pack.guarded \subseteq Nat
    /\ \A i \in DOMAIN pack.safe : Suites!IsPattern(pack.safe[i])
    /\ \A i \in DOMAIN pack.guarded : Suites!IsRule(pack.guarded[i])

(* The engine sees a pattern in a text.                                    *)
OwnChecks == [content |-> {"content", "is_shared_checkout"},
              command |-> {"command", "push_requires_current_remote_head"}]

(* The checks that ask for state only: they see every command.             *)
Unconditioned == {"requires_flush_first", "requires_pull_first"}
Sees(p, mode, text) ==
    \/ p.check \in OwnChecks[mode] /\ Suites!Hits(p, text)
    \/ mode = "command" /\ p.check \in Unconditioned

(* Some safe pattern is seen.                                             *)
Excused(pack, mode, text) == \E i \in DOMAIN pack.safe : Sees(pack.safe[i], mode, text)

(* The rules that deny a text, and whether the pack denies it.             *)
Denials(pack, exempt, mode, text) ==
    {i \in DOMAIN pack.guarded :
       /\ pack.guarded[i].enabled /\ pack.guarded[i].id \notin exempt
       /\ pack.guarded[i].channel = "deny" /\ Sees(pack.guarded[i], mode, text)}
Denied(pack, exempt, mode, text) ==
    ~Excused(pack, mode, text) /\ Denials(pack, exempt, mode, text) # {}

(* A result that says so.                                                  *)
Judges(r, pack, exempt, mode, text) ==
    /\ r.channel \in Channels
    /\ r.channel = "deny" <=> Denied(pack, exempt, mode, text)
    /\ Denied(pack, exempt, mode, text) =>
         r.rule = Suites!Key(pack.guarded[Suites!Min(Denials(pack, exempt, mode, text))], exempt)

(* A unit lists the key of a pattern exactly if the pattern matches.       *)
LEMMA MatchingIs ==
    ASSUME NEW pack, NEW exempt, NEW text,
           NEW p \in Suites!ToSet(pack.safe) \cup Suites!ToSet(pack.guarded)
    PROVE  Suites!Key(p, exempt) \in Suites!Matching(pack, exempt, text) <=> Suites!Hits(p, text)
<1> DEFINE all == Suites!ToSet(pack.safe) \cup Suites!ToSet(pack.guarded)
<1>1. ASSUME NEW q \in all, Suites!Key(p, exempt) = Suites!Key(q, exempt)
      PROVE  Suites!Hits(q, text) <=> Suites!Hits(p, text)
  <2>1. p.on = q.on
    BY <1>1 DEF Suites!Key
  <2> QED
    BY <2>1 DEF Suites!Hits
<1> HIDE DEF all
<1>2. Suites!Matching(pack, exempt, text) =
        {Suites!Key(q, exempt) : q \in {q \in all : Suites!Hits(q, text)}}
  BY DEF Suites!Matching, all
<1>3. p \in all
  BY DEF all
<1> QED
  BY <1>1, <1>2, <1>3

(* A pattern that is told to the engine under its key is otherwise as it   *)
(* was.                                                                    *)
LEMMA ToldKey ==
    ASSUME NEW p, NEW exempt, Suites!IsPattern(p)
    PROVE  LET put == [p EXCEPT !.id = Suites!Key(p, exempt)]
           IN /\ put.id = Suites!Key(p, exempt) /\ put.check = p.check
              /\ put.enabled = p.enabled /\ put.channel = p.channel
BY DEF Suites!IsPattern

(* The engine's answer for one pattern of a pack without broken ones and   *)
(* one unit is what the pattern sees.                                      *)
LEMMA SeesIs ==
    ASSUME NEW pack, NEW exempt, NEW text, NEW exe, NEW place, NEW mode \in {"content", "command"},
           NEW p \in Suites!ToSet(pack.safe) \cup Suites!ToSet(pack.guarded),
           Suites!IsPattern(p), mode = "command" => p.check # "deprecated_command"
    PROVE  Suites!Engine!Matches([p EXCEPT !.id = Suites!Key(p, exempt)],
                                 Suites!Unit(mode, exe, place, Suites!Matching(pack, exempt, text)),
                                 Suites!AnyMarks)
             = IF Sees(p, mode, text) THEN "yes" ELSE "no"
<1> DEFINE put == [p EXCEPT !.id = Suites!Key(p, exempt)]
           keys == Suites!Matching(pack, exempt, text)
           unit == Suites!Unit(mode, exe, place, keys)
<1>1. put.id = Suites!Key(p, exempt) /\ put.check = p.check
  BY ToldKey
<1>2. put.id \in keys <=> Suites!Hits(p, text)
  BY <1>1, MatchingIs
<1>3. unit.mode = mode /\ unit.matches = keys /\ unit.mentions = {}
  BY DEF Suites!Unit
<1> HIDE DEF put, unit, keys
<1>4. CASE mode = "content"
  <2>1. Suites!Engine!Matches(put, unit, Suites!AnyMarks) = Suites!Engine!MatchesContent(put, unit)
    BY <1>3, <1>4 DEF Suites!Engine!Matches
  <2>2. Sees(p, mode, text) <=> put.check \in {"content", "is_shared_checkout"} /\ put.id \in unit.matches
    BY <1>1, <1>2, <1>3, <1>4 DEF Sees, OwnChecks
  <2>3. Suites!Engine!MatchesContent(put, unit) = IF Sees(p, mode, text) THEN "yes" ELSE "no"
    BY <2>2 DEF Suites!Engine!MatchesContent, Suites!Engine!YesNo
  <2> QED
    BY <2>1, <2>3 DEF put, unit, keys
<1>5. CASE mode = "command"
  <2>1. Suites!Engine!Matches(put, unit, Suites!AnyMarks) =
          Suites!Engine!MatchesCommand(put, unit, Suites!AnyMarks)
    BY <1>3, <1>5 DEF Suites!Engine!Matches
  <2>2. CASE put.check \in DOMAIN Suites!Engine!StatePredicate
    <3>1. /\ Suites!Engine!StateMatches(put.check, unit, Suites!AnyMarks) <=> put.check \in Unconditioned
          /\ put.check \notin {"command", "push_requires_current_remote_head"}
      BY <1>3, <2>2 DEF Suites!Engine!StateMatches, Suites!Engine!StatePredicate, Suites!AnyMarks, Unconditioned
    <3>2. Sees(p, mode, text) <=> Suites!Engine!StateMatches(put.check, unit, Suites!AnyMarks)
      BY <1>1, <1>5, <3>1 DEF Sees, OwnChecks
    <3>3. Suites!Engine!MatchesCommand(put, unit, Suites!AnyMarks) = IF Sees(p, mode, text) THEN "yes" ELSE "no"
      BY <2>2, <3>2 DEF Suites!Engine!MatchesCommand, Suites!Engine!YesNo, Suites!AnyMarks
    <3> QED
      BY <2>1, <3>3 DEF put, unit, keys
  <2>3. CASE put.check \notin DOMAIN Suites!Engine!StatePredicate
    <3>1. put.check \notin Unconditioned
      BY <2>3 DEF Suites!Engine!StatePredicate, Unconditioned
    <3>2. Sees(p, mode, text) <=> /\ put.check \in {"command", "push_requires_current_remote_head"}
                                 /\ put.id \in unit.matches
      BY <1>1, <1>2, <1>3, <1>5, <3>1 DEF Sees, OwnChecks
    <3>3. put.check # "deprecated_command"
      BY <1>1, <1>5
    <3>4. Suites!Engine!MatchesCommand(put, unit, Suites!AnyMarks) = IF Sees(p, mode, text) THEN "yes" ELSE "no"
      BY <2>3, <3>2, <3>3 DEF Suites!Engine!MatchesCommand, Suites!Engine!YesNo
    <3> QED
      BY <2>1, <3>4 DEF put, unit, keys
  <2> QED
    BY <2>2, <2>3
<1> QED
  BY <1>4, <1>5

(* A rule is active in the engine that holds its pack unless it is         *)
(* disabled or exempted.                                                   *)
LEMMA ActiveIs ==
    ASSUME NEW pack, NEW exempt, <<pack, exempt>> \in Suites!Holdings,
           NEW g \in Suites!ToSet(pack.guarded), Suites!IsPattern(g)
    PROVE  Suites!Engine!Active([g EXCEPT !.id = Suites!Key(g, exempt)]) <=> g.enabled /\ g.id \notin exempt
<1>1. ASSUME g.id \in exempt PROVE Suites!Key(g, exempt) \in Suites!Exempted
  <2> DEFINE Of(h) == {Suites!Key(q, {q.id}) : q \in Suites!ToSet(h[1].guarded)}
  <2>1. exempt \cap {g.id} = {g.id} \cap {g.id}
    BY <1>1
  <2>2. Suites!Key(g, exempt) = Suites!Key(g, {g.id})
    BY <2>1 DEF Suites!Key
  <2>3. Suites!Key(g, {g.id}) \in Of(<<pack, exempt>>)
    OBVIOUS
  <2>4. Suites!Exempted = UNION {Of(h) : h \in Suites!Holdings}
    BY DEF Suites!Exempted
  <2> HIDE DEF Of
  <2> QED
    BY <2>2, <2>3, <2>4
<1>2. ASSUME g.id \notin exempt PROVE Suites!Key(g, exempt) \notin Suites!Exempted
  <2>1. \A q : Suites!Key(q, {q.id}).exempt # {}
    BY DEF Suites!Key
  <2>2. Suites!Key(g, exempt).exempt = {}
    <3>1. exempt \cap {g.id} = {}
      BY <1>2
    <3> QED
      BY <3>1 DEF Suites!Key
  <2>3. \A q : Suites!Key(q, {q.id}) # Suites!Key(g, exempt)
    BY <2>1, <2>2
  <2> QED
    BY <2>3 DEF Suites!Exempted
<1>3. Suites!Engine!Active([g EXCEPT !.id = Suites!Key(g, exempt)]) <=>
        g.enabled /\ Suites!Key(g, exempt) \notin Suites!Exempted
  BY ToldKey DEF Suites!Engine!Active
<1> QED
  BY <1>1, <1>2, <1>3

(* What is held of a pack.                                                 *)
LEMMA HeldIs ==
    ASSUME NEW pack, NEW exempt, <<pack, exempt>> \in Suites!Holdings
    PROVE  LET kept == [h \in Suites!Holdings |-> Suites!Held(h[1], h[2])][<<pack, exempt>>]
           IN /\ kept.keywords = pack.keywords
              /\ kept.files = {f \in Suites!FileClasses : Suites!SelectsFile(pack, f)}
              /\ kept.safe = Suites!Keyed(pack.safe, exempt)
              /\ kept.guarded = Suites!Keyed(pack.guarded, exempt)
<1>1. [h \in Suites!Holdings |-> Suites!Held(h[1], h[2])][<<pack, exempt>>] = Suites!Held(pack, exempt)
  OBVIOUS
<1> QED
  BY <1>1 DEF Suites!Held

(* The verdict of the pack on a text.                                      *)
LEMMA PackSays ==
    ASSUME NEW pack, NEW exempt, <<pack, exempt>> \in Suites!Holdings, IsHeld(pack), Suites!IsPlain(pack),
           NEW text, NEW exe, NEW place, NEW mode \in {"content", "command"}
    PROVE  LET unit == Suites!Unit(mode, exe, place, Suites!Matching(pack, exempt, text))
               r == Suites!Engine!Verdict(Suites!Engine!Signals(<<pack, exempt>>, unit, Suites!AnyMarks))
           IN Judges(r, pack, exempt, mode, text)
<1> DEFINE unit == Suites!Unit(mode, exe, place, Suites!Matching(pack, exempt, text))
           signals == Suites!Engine!Signals(<<pack, exempt>>, unit, Suites!AnyMarks)
           r == Suites!Engine!Verdict(signals)
           safes == Suites!Keyed(pack.safe, exempt)
           rules == Suites!Keyed(pack.guarded, exempt)
           matches(p) == Suites!Engine!Matches(p, unit, Suites!AnyMarks)
           denials == Denials(pack, exempt, mode, text)
<1>1. ASSUME NEW k \in DOMAIN pack.safe
      PROVE  matches(safes[k]) = IF Sees(pack.safe[k], mode, text) THEN "yes" ELSE "no"
  <2>1. pack.safe[k] \in Suites!ToSet(pack.safe)
    BY DEF Suites!ToSet
  <2>2. Suites!IsPattern(pack.safe[k]) /\ pack.safe[k].check # "deprecated_command"
    BY <2>1 DEF IsHeld, Suites!IsPlain, Suites!IsPredicate
  <2>3. safes[k] = [pack.safe[k] EXCEPT !.id = Suites!Key(pack.safe[k], exempt)]
    BY DEF Suites!Keyed
  <2> QED
    BY <2>1, <2>2, <2>3, SeesIs
<1>2. ASSUME NEW i \in DOMAIN pack.guarded
      PROVE  /\ matches(rules[i]) = IF Sees(pack.guarded[i], mode, text) THEN "yes" ELSE "no"
             /\ Suites!Engine!Active(rules[i]) <=> pack.guarded[i].enabled /\ pack.guarded[i].id \notin exempt
             /\ rules[i].id = Suites!Key(pack.guarded[i], exempt)
             /\ rules[i].channel = pack.guarded[i].channel
  <2>1. pack.guarded[i] \in Suites!ToSet(pack.guarded)
    BY DEF Suites!ToSet
  <2>2. Suites!IsPattern(pack.guarded[i]) /\ pack.guarded[i].check # "deprecated_command"
    BY <2>1 DEF IsHeld, Suites!IsPlain, Suites!IsRule
  <2>3. rules[i] = [pack.guarded[i] EXCEPT !.id = Suites!Key(pack.guarded[i], exempt)]
    BY DEF Suites!Keyed
  <2>4. matches(rules[i]) = IF Sees(pack.guarded[i], mode, text) THEN "yes" ELSE "no"
    BY <2>1, <2>2, <2>3, SeesIs
  <2>5. Suites!Engine!Active(rules[i]) <=> pack.guarded[i].enabled /\ pack.guarded[i].id \notin exempt
    BY <2>1, <2>2, <2>3, ActiveIs
  <2>6. /\ rules[i].id = Suites!Key(pack.guarded[i], exempt)
        /\ rules[i].channel = pack.guarded[i].channel
    BY <2>2, <2>3, ToldKey
  <2> QED
    BY <2>4, <2>5, <2>6
<1>3. DOMAIN safes = DOMAIN pack.safe /\ DOMAIN rules = DOMAIN pack.guarded
  BY DEF Suites!Keyed
<1> DEFINE decisive == {k \in DOMAIN pack.safe : matches(safes[k]) # "no"}
           hits == {i \in DOMAIN pack.guarded : Suites!Engine!Active(rules[i]) /\ matches(rules[i]) # "no"}
           signal(i) == IF matches(rules[i]) = "err" THEN Suites!Engine!Error
                        ELSE [channel |-> rules[i].channel, rule |-> rules[i].id, pack |-> <<pack, exempt>>]
<1>4. signals = IF decisive = {} THEN [i \in hits |-> signal(i)]
                ELSE IF matches(safes[Suites!Min(decisive)]) = "err" THEN <<Suites!Engine!Error>> ELSE <<>>
  <2> DEFINE kept == [h \in Suites!Holdings |-> Suites!Held(h[1], h[2])][<<pack, exempt>>]
             first == Suites!Engine!Min(decisive)
  <2>1. kept.safe = safes /\ kept.guarded = rules
    BY HeldIs
  <2>2. signals = IF {k \in DOMAIN kept.safe : matches(kept.safe[k]) # "no"} = {}
                  THEN [i \in {i \in DOMAIN kept.guarded :
                                 Suites!Engine!Active(kept.guarded[i]) /\ matches(kept.guarded[i]) # "no"} |->
                          IF matches(kept.guarded[i]) = "err" THEN Suites!Engine!Error
                          ELSE [channel |-> kept.guarded[i].channel, rule |-> kept.guarded[i].id,
                                pack |-> <<pack, exempt>>]]
                  ELSE IF matches(kept.safe[Suites!Engine!Min({k \in DOMAIN kept.safe :
                                                                 matches(kept.safe[k]) # "no"})]) = "err"
                       THEN <<Suites!Engine!Error>> ELSE <<>>
    BY DEF Suites!Engine!Signals
  <2> HIDE DEF kept, matches, safes, rules, signals, unit
  <2>3. {k \in DOMAIN kept.safe : matches(kept.safe[k]) # "no"} = decisive
    BY <1>3, <2>1
  <2>4. Suites!Engine!Min(decisive) = Suites!Min(decisive)
    BY EngineMin
  <2> QED
    BY <1>3, <2>1, <2>2, <2>3, <2>4
<1> HIDE DEF matches, safes, rules, signals, unit
<1>5. decisive = {k \in DOMAIN pack.safe : Sees(pack.safe[k], mode, text)}
  BY <1>1
<1>6. decisive = {} <=> ~Excused(pack, mode, text)
  BY <1>5 DEF Excused
<1>7. CASE decisive # {}
  <2>1. Suites!Min(decisive) \in decisive
    BY <1>5, <1>7, FirstIs DEF IsHeld
  <2>2. matches(safes[Suites!Min(decisive)]) = "yes"
    BY <1>1, <1>5, <2>1
  <2>3. signals = <<>>
    BY <1>4, <1>7, <2>2
  <2>4. DOMAIN signals = {}
    BY <2>3
  <2>5. Denying(signals) = {}
    BY <2>4 DEF Denying
  <2>6. r.channel \in Channels /\ r.channel # "deny"
    BY <2>4, <2>5, VerdictOf
  <2> QED
    BY <1>6, <1>7, <2>6 DEF Judges, Denied, signals, unit
<1>8. CASE decisive = {}
  <2>1. ASSUME NEW i \in hits
        PROVE  signal(i) = [channel |-> pack.guarded[i].channel,
                            rule |-> Suites!Key(pack.guarded[i], exempt), pack |-> <<pack, exempt>>]
    BY <1>2
  <2>2. /\ DOMAIN signals = hits
        /\ \A i \in hits : /\ signals[i].channel = pack.guarded[i].channel
                           /\ signals[i].rule = Suites!Key(pack.guarded[i], exempt)
    <3>1. signals = [i \in hits |-> signal(i)]
      BY <1>4, <1>8
    <3> HIDE DEF signal, hits
    <3>2. DOMAIN signals = hits /\ \A i \in hits : signals[i] = signal(i)
      BY <3>1
    <3> QED
      BY <2>1, <3>2
  <2>3. hits = {i \in DOMAIN pack.guarded : /\ pack.guarded[i].enabled /\ pack.guarded[i].id \notin exempt
                                           /\ Sees(pack.guarded[i], mode, text)}
    BY <1>2
  <2>4. Denying(signals) = denials
    BY <2>2, <2>3 DEF Denying, Denials
  <2>5. hits \subseteq Nat /\ \A i \in hits : signals[i].channel \in Channels
    BY <2>2 DEF IsHeld, Suites!IsRule, Channels
  <2> HIDE DEF hits
  <2>6. /\ r.channel \in Channels
        /\ r.channel = "deny" <=> denials # {}
        /\ denials # {} => r = signals[Suites!Min(denials)]
    <3>1. DOMAIN signals \subseteq Nat /\ \A i \in DOMAIN signals : signals[i].channel \in Channels
      BY <2>2, <2>5
    <3>2. /\ r.channel \in Channels
          /\ r.channel = "deny" <=> Denying(signals) # {}
          /\ Denying(signals) # {} => r = signals[Suites!Min(Denying(signals))]
      BY <3>1, VerdictOf
    <3> QED
      BY <2>4, <3>2
  <2>7. ASSUME denials # {}
        PROVE  r.rule = Suites!Key(pack.guarded[Suites!Min(denials)], exempt)
    <3>1. denials \subseteq Nat /\ denials \subseteq hits
      BY <2>3, <2>5 DEF Denials, IsHeld
    <3>2. Suites!Min(denials) \in denials
      BY <2>7, <3>1, FirstIs
    <3> QED
      BY <2>2, <2>6, <2>7, <3>1, <3>2
  <2>8. Denied(pack, exempt, mode, text) <=> denials # {}
    BY <1>6, <1>8 DEF Denied
  <2> HIDE DEF r
  <2>9. Judges(r, pack, exempt, mode, text)
    BY <2>6, <2>7, <2>8 DEF Judges
  <2> QED
    BY <2>9 DEF r, signals, unit
<1> QED
  BY <1>7, <1>8

-----------------------------------------------------------------------------
(* The engine's answer to an input.                                        *)

(* It holds a single pack, which is asked or not.                          *)
LEMMA ScanOne ==
    ASSUME NEW h, NEW among, NEW unit, NEW store,
           Suites!Engine!Verdict(Suites!Engine!Signals(h, unit, store)).channel \in Channels
    PROVE  LET v == Suites!Engine!Verdict(Suites!Engine!Signals(h, unit, store))
               r == Suites!Engine!ScanPacks(among, <<h>>, unit, store)
           IN /\ r.channel \in Channels
              /\ h \in among => (r.channel = "deny" <=> v.channel = "deny") /\ (r.channel = "deny" => r = v)
              /\ h \notin among => r.channel # "deny"
<1> DEFINE v == Suites!Engine!Verdict(Suites!Engine!Signals(h, unit, store))
           results == [n \in {k \in DOMAIN <<h>> : <<h>>[k] \in among} |->
                         Suites!Engine!Verdict(Suites!Engine!Signals(<<h>>[n], unit, store))]
           whole == Suites!Engine!Verdict(results)
           r == Suites!Engine!ScanPacks(among, <<h>>, unit, store)
<1>1. r = Suites!Engine!LetThrough(whole)
  BY DEF Suites!Engine!ScanPacks
<1>2. DOMAIN results = IF h \in among THEN {1} ELSE {}
  OBVIOUS
<1>3. h \in among => results[1] = v
  OBVIOUS
<1> HIDE DEF v, results
<1>4. /\ whole.channel \in Channels
      /\ whole.channel = "deny" <=> Denying(results) # {}
      /\ Denying(results) # {} => whole = results[Suites!Min(Denying(results))]
  <2>1. DOMAIN results \subseteq Nat /\ \A i \in DOMAIN results : results[i].channel \in Channels
    BY <1>2, <1>3 DEF v
  <2> QED
    BY <2>1, VerdictOf
<1>5. r = whole
  BY <1>1, <1>4 DEF Suites!Engine!LetThrough, Channels
<1>6. h \notin among => Denying(results) = {}
  BY <1>2 DEF Denying
<1>7. h \in among => Denying(results) = IF v.channel = "deny" THEN {1} ELSE {}
  BY <1>2, <1>3 DEF Denying
<1>8. Suites!Min({1}) = 1
  BY FirstOf
<1> HIDE DEF r, whole
<1>9. /\ r.channel \in Channels
      /\ h \in among => (r.channel = "deny" <=> v.channel = "deny") /\ (r.channel = "deny" => r = v)
      /\ h \notin among => r.channel # "deny"
  BY <1>3, <1>4, <1>5, <1>6, <1>7, <1>8
<1> QED
  BY <1>9 DEF r, v

(* What the pack says, if it is asked.                                     *)
LEMMA ScanSays ==
    ASSUME NEW pack, NEW exempt, <<pack, exempt>> \in Suites!Holdings, IsHeld(pack), Suites!IsPlain(pack),
           NEW text, NEW exe, NEW place, NEW mode \in {"content", "command"}, NEW among
    PROVE  LET unit == Suites!Unit(mode, exe, place, Suites!Matching(pack, exempt, text))
               r == Suites!Engine!ScanPacks(among, <<<<pack, exempt>>>>, unit, Suites!AnyMarks)
           IN /\ <<pack, exempt>> \in among => Judges(r, pack, exempt, mode, text)
              /\ <<pack, exempt>> \notin among => r.channel \in Channels \ {"deny"}
<1> DEFINE h == <<pack, exempt>>
           unit == Suites!Unit(mode, exe, place, Suites!Matching(pack, exempt, text))
           v == Suites!Engine!Verdict(Suites!Engine!Signals(h, unit, Suites!AnyMarks))
           r == Suites!Engine!ScanPacks(among, <<h>>, unit, Suites!AnyMarks)
<1>1. Judges(v, pack, exempt, mode, text)
  BY PackSays
<1>2. v.channel \in Channels
  BY <1>1 DEF Judges
<1> HIDE DEF h, unit
<1>3. /\ r.channel \in Channels
      /\ h \in among => (r.channel = "deny" <=> v.channel = "deny") /\ (r.channel = "deny" => r = v)
      /\ h \notin among => r.channel # "deny"
  BY <1>2, ScanOne
<1> HIDE DEF r, v
<1>4. h \in among => Judges(r, pack, exempt, mode, text)
  BY <1>1, <1>3 DEF Judges
<1> QED
  BY <1>3, <1>4 DEF r, h, unit

(* The first of some texts that is denied says which rule denies them.     *)
DeniedAt(pack, exempt, mode, texts) == {k \in DOMAIN texts : Denied(pack, exempt, mode, texts[k])}

(* A result that is the denial of the first denied text by its first       *)
(* denying rule, and no denial if there is none.                           *)
Reports(r, pack, exempt, mode, texts) ==
    LET ends == DeniedAt(pack, exempt, mode, texts)
        first == texts[Suites!Min(ends)]
    IN /\ r.channel = "deny" <=> ends # {}
       /\ ends # {} =>
            r.rule = Suites!Key(pack.guarded[Suites!Min(Denials(pack, exempt, mode, first))], exempt)

(* Results that judge the texts one by one, and others that do not deny,   *)
(* add up to the verdict on the texts.                                     *)
LEMMA FirstDenied ==
    ASSUME NEW pack, NEW exempt, NEW mode, NEW results, NEW texts,
           DOMAIN results \subseteq Nat, DOMAIN texts \subseteq DOMAIN results,
           \A k \in DOMAIN texts : Judges(results[k], pack, exempt, mode, texts[k]),
           \A k \in DOMAIN results \ DOMAIN texts : results[k].channel \in Channels \ {"deny"}
    PROVE  Reports(Suites!Engine!Verdict(results), pack, exempt, mode, texts)
<1> DEFINE v == Suites!Engine!Verdict(results)
           ends == DeniedAt(pack, exempt, mode, texts)
<1>1. \A k \in DOMAIN results : results[k].channel \in Channels
  BY DEF Judges
<1>2. Denying(results) = ends
  BY DEF Denying, DeniedAt, Judges
<1>3. /\ v.channel = "deny" <=> ends # {}
      /\ ends # {} => v = results[Suites!Min(ends)]
  BY <1>1, <1>2, VerdictOf
<1>4. ends \subseteq Nat /\ ends \subseteq DOMAIN texts
  BY DEF DeniedAt
<1>5. ASSUME ends # {}
      PROVE  /\ Judges(results[Suites!Min(ends)], pack, exempt, mode, texts[Suites!Min(ends)])
             /\ Denied(pack, exempt, mode, texts[Suites!Min(ends)])
  <2>1. Suites!Min(ends) \in ends
    BY <1>4, <1>5, FirstIs
  <2> QED
    BY <1>4, <2>1 DEF DeniedAt
<1> HIDE DEF v, ends
<1>6. Reports(v, pack, exempt, mode, texts)
  BY <1>3, <1>5 DEF Reports, Judges, ends
<1> QED
  BY <1>6 DEF v

-----------------------------------------------------------------------------
(* The whole input.                                                        *)

(* The unit of a content is of no built-in guard.                          *)
LEMMA NoGuard ==
    ASSUME NEW mode, NEW exe, NEW place, NEW keys
    PROVE  LET unit == Suites!Unit(mode, exe, place, keys)
           IN ~ unit.builtin /\ unit.file = place /\ unit.exe = exe
BY DEF Suites!Unit

(* Which units the engine asks a pack about: what the suites call          *)
(* selecting a file, having a keyword and having none.                     *)
LEMMA AskedOf ==
    ASSUME NEW pack, NEW exempt, <<pack, exempt>> \in Suites!Holdings, IsHeld(pack), Suites!IsPlain(pack)
    PROVE  /\ \A f : <<pack, exempt>> \in Suites!Engine!ContentPacks(f) <=>
                       f \in Suites!FileClasses /\ Suites!SelectsFile(pack, f)
           /\ \A exe : <<pack, exempt>> \in Suites!Engine!TokenPacks(exe) <=> exe \in pack.keywords
           /\ <<pack, exempt>> \in Suites!Engine!UnconditionalPacks <=> pack.keywords = {}
<1> DEFINE h == <<pack, exempt>>
           kept == [k \in Suites!Holdings |-> Suites!Held(k[1], k[2])][h]
<1>1. /\ kept.keywords = pack.keywords
      /\ kept.files = {f \in Suites!FileClasses : Suites!SelectsFile(pack, f)}
      /\ kept.guarded = Suites!Keyed(pack.guarded, exempt)
  BY HeldIs
<1>2. \A g \in Suites!ToSet(kept.guarded) : g.check # "deprecated_command"
  <2>1. \A i \in DOMAIN pack.guarded :
          /\ pack.guarded[i].check # "deprecated_command"
          /\ [pack.guarded[i] EXCEPT !.id = Suites!Key(pack.guarded[i], exempt)].check = pack.guarded[i].check
    BY ToldKey DEF IsHeld, Suites!IsRule, Suites!IsPlain, Suites!ToSet
  <2>2. DOMAIN kept.guarded = DOMAIN pack.guarded
    BY <1>1 DEF Suites!Keyed
  <2>3. \A i \in DOMAIN pack.guarded :
          kept.guarded[i] = [pack.guarded[i] EXCEPT !.id = Suites!Key(pack.guarded[i], exempt)]
    BY <1>1 DEF Suites!Keyed
  <2> HIDE DEF kept
  <2>4. \A i \in DOMAIN kept.guarded : kept.guarded[i].check # "deprecated_command"
    BY <2>1, <2>2, <2>3
  <2> QED
    BY <2>4 DEF Suites!ToSet
<1>3. Suites!Engine!DispatchKeywords(h) =
        kept.keywords \cup UNION {IF g.check = "deprecated_command" THEN g.names ELSE {} :
                                    g \in Suites!Engine!ToSet(kept.guarded)}
  BY DEF Suites!Engine!DispatchKeywords
<1>4. Suites!Engine!ToSet(kept.guarded) = Suites!ToSet(kept.guarded)
  BY DEF Suites!Engine!ToSet, Suites!ToSet
<1>5. /\ \A f : h \in Suites!Engine!ContentPacks(f) <=> f \in kept.files
      /\ \A exe : h \in Suites!Engine!TokenPacks(exe) <=> exe \in Suites!Engine!DispatchKeywords(h)
      /\ h \in Suites!Engine!UnconditionalPacks <=> kept.keywords = {}
  BY DEF Suites!Engine!ContentPacks, Suites!Engine!TokenPacks, Suites!Engine!UnconditionalPacks
<1> HIDE DEF kept
<1>6. Suites!Engine!DispatchKeywords(h) = pack.keywords
  BY <1>1, <1>2, <1>3, <1>4
<1> QED
  BY <1>1, <1>5, <1>6

(* The engine's answer to a content is the first denial of the text that   *)
(* the curation asks about.                                                *)
LEMMA ContentAnswer ==
    ASSUME NEW pack, NEW exempt, <<pack, exempt>> \in Suites!Holdings, IsHeld(pack), Suites!IsPlain(pack),
           Suites!Loads(pack), NEW input, input.mode = "content", input.file \in Suites!FileClasses
    PROVE  Reports(Suites!Answer(pack, exempt, input), pack, exempt, "content", Suites!Texts(pack, input))
<1> DEFINE h == <<pack, exempt>>
           unit == Suites!Unit("content", "", input.file, Suites!Matching(pack, exempt, input.text))
           call == [kind |-> "content", units |-> <<unit>>]
           r == Suites!Engine!ScanPacks(Suites!Engine!ContentPacks(input.file), <<h>>, unit, Suites!AnyMarks)
           results == [i \in {1} |-> r]
           texts == Suites!Texts(pack, input)
<1>1. /\ h \in Suites!Engine!ContentPacks(input.file) => Judges(r, pack, exempt, "content", input.text)
      /\ h \notin Suites!Engine!ContentPacks(input.file) => r.channel \in Channels \ {"deny"}
  BY ScanSays
<1>2. h \in Suites!Engine!ContentPacks(input.file) <=> Suites!SelectsFile(pack, input.file)
  BY AskedOf
<1>3. Suites!Answer(pack, exempt, input) = Suites!Engine!Verdict(results)
  <2>1. Suites!Call(pack, exempt, input) = call
    BY DEF Suites!Call
  <2>2. /\ ~ unit.builtin
        /\ unit.file = input.file
    BY DEF Suites!Unit
  <2> HIDE DEF unit, h
  <2>3. Suites!Engine!EvaluateContent(unit, <<h>>, Suites!AnyMarks, FALSE, FALSE) = r
    BY <2>2 DEF Suites!Engine!EvaluateContent
  <2>4. call.kind = "content" /\ DOMAIN call.units = {1} /\ call.units[1] = unit
    OBVIOUS
  <2> HIDE DEF r, call
  <2>5. [i \in DOMAIN call.units |->
           Suites!Engine!EvaluateContent(call.units[i], <<h>>, Suites!AnyMarks, FALSE, FALSE)] = results
    BY <2>3, <2>4
  <2>6. Suites!Engine!Evaluate(call, <<h>>, Suites!AnyMarks, FALSE, FALSE) = Suites!Engine!Verdict(results)
    BY <2>4, <2>5 DEF Suites!Engine!Evaluate
  <2>7. (~ Suites!Loads(pack)) = FALSE
    OBVIOUS
  <2>8. Suites!Answer(pack, exempt, input) = Suites!Engine!Evaluate(call, <<h>>, Suites!AnyMarks, FALSE, FALSE)
    BY <2>1, <2>7 DEF Suites!Answer, h
  <2> QED
    BY <2>6, <2>8
<1>4. /\ DOMAIN texts = IF Suites!SelectsFile(pack, input.file) THEN {1} ELSE {}
      /\ \A k \in DOMAIN texts : texts[k] = input.text
  BY DEF Suites!Texts, Suites!At
<1> HIDE DEF r, texts
<1>5. Reports(Suites!Engine!Verdict(results), pack, exempt, "content", texts)
  <2>1. DOMAIN results = {1} /\ results[1] = r
    OBVIOUS
  <2> HIDE DEF results
  <2>2. \A k \in DOMAIN texts : Judges(results[k], pack, exempt, "content", texts[k])
    BY <1>1, <1>2, <1>4, <2>1
  <2>3. \A k \in DOMAIN results \ DOMAIN texts : results[k].channel \in Channels \ {"deny"}
    BY <1>1, <1>2, <1>4, <2>1
  <2>4. DOMAIN results \subseteq Nat /\ DOMAIN texts \subseteq DOMAIN results
    BY <1>4, <2>1
  <2> QED
    BY <2>2, <2>3, <2>4, FirstDenied
<1> QED
  BY <1>3, <1>5 DEF texts

(* A line that is asked about as a whole is the only text, at any place.   *)
LEMMA OnlyText ==
    ASSUME NEW pack, NEW exempt, NEW mode, NEW r, NEW one, NEW other,
           NEW m \in Nat, NEW n \in Nat, DOMAIN one = {m}, DOMAIN other = {n}, one[m] = other[n],
           Reports(r, pack, exempt, mode, one)
    PROVE  Reports(r, pack, exempt, mode, other)
<1>1. /\ DeniedAt(pack, exempt, mode, one) = IF Denied(pack, exempt, mode, one[m]) THEN {m} ELSE {}
      /\ DeniedAt(pack, exempt, mode, other) = IF Denied(pack, exempt, mode, one[m]) THEN {n} ELSE {}
  BY DEF DeniedAt
<1>2. Suites!Min({m}) = m /\ Suites!Min({n}) = n
  BY FirstOf
<1> QED
  BY <1>1, <1>2 DEF Reports

(* And to a command that both split alike, or that an unkeyed pack takes   *)
(* whole.                                                                  *)
LEMMA CommandAnswer ==
    ASSUME NEW pack, NEW exempt, <<pack, exempt>> \in Suites!Holdings, IsHeld(pack), Suites!IsPlain(pack),
           Suites!Loads(pack), NEW input, input.mode = "command", Suites!IsList(input.tokens),
           pack.keywords = {} \/ Suites!Segments(input.words) = input.tokens
    PROVE  Reports(Suites!Answer(pack, exempt, input), pack, exempt, "command", Suites!Texts(pack, input))
<1> DEFINE h == <<pack, exempt>>
           tokens == input.tokens
           whole == Suites!Unit("command", "", "", Suites!Matching(pack, exempt, input.words))
           piece(i) == Suites!Unit("command", tokens[i][1], "", Suites!Matching(pack, exempt, tokens[i]))
           call == [kind |-> "command", front |-> "hook", raw |-> whole,
                    units |-> [i \in DOMAIN tokens |-> piece(i)]]
           first == Suites!Engine!ScanPacks(Suites!Engine!UnconditionalPacks, <<h>>, whole, Suites!AnyMarks)
           later(i) == Suites!Engine!ScanPacks(Suites!Engine!TokenPacks(tokens[i][1]), <<h>>, piece(i),
                                               Suites!AnyMarks)
           results == [i \in {0} \cup DOMAIN tokens |-> IF i # 0 THEN later(i) ELSE first]
           texts == Suites!Texts(pack, input)
<1>1. /\ pack.keywords = {} => Judges(first, pack, exempt, "command", input.words)
      /\ pack.keywords # {} => first.channel \in Channels \ {"deny"}
  BY ScanSays, AskedOf
<1>2. \A i \in DOMAIN tokens :
        /\ tokens[i][1] \in pack.keywords => Judges(later(i), pack, exempt, "command", tokens[i])
        /\ tokens[i][1] \notin pack.keywords => later(i).channel \in Channels \ {"deny"}
  BY ScanSays, AskedOf
<1>3. DOMAIN tokens \subseteq Nat \ {0}
  BY ListIs
<1>4. Suites!Answer(pack, exempt, input) = Suites!Engine!Verdict(results)
  <2>1. Suites!Call(pack, exempt, input) = call
    BY DEF Suites!Call
  <2>2. \A i \in DOMAIN tokens : piece(i).exe = tokens[i][1]
    BY DEF Suites!Unit
  <2> HIDE DEF piece, whole, h
  <2>3. /\ call.kind = "command" /\ call.front = "hook" /\ call.raw = whole
        /\ DOMAIN call.units = DOMAIN tokens /\ \A i \in DOMAIN tokens : call.units[i] = piece(i)
    OBVIOUS
  <2> HIDE DEF call
  <2>4. \A i \in DOMAIN tokens :
          Suites!Engine!EvaluateToken(call.units[i], <<h>>, Suites!AnyMarks) = later(i)
    BY <2>2, <2>3 DEF Suites!Engine!EvaluateToken
  <2>5. Suites!Engine!EvaluateUnconditional(call.raw, <<h>>, Suites!AnyMarks) = first
    BY <2>3 DEF Suites!Engine!EvaluateUnconditional
  <2> HIDE DEF first, later
  <2>6. [i \in {0} \cup DOMAIN call.units |->
           IF i # 0 THEN Suites!Engine!EvaluateToken(call.units[i], <<h>>, Suites!AnyMarks)
           ELSE IF call.front = "hook"
                THEN Suites!Engine!EvaluateUnconditional(call.raw, <<h>>, Suites!AnyMarks)
                ELSE Suites!Engine!Allowed] = results
    BY <2>3, <2>4, <2>5
  <2>7. Suites!Engine!EvaluateCommand(call, <<h>>, Suites!AnyMarks) = Suites!Engine!Verdict(results)
    BY <2>6 DEF Suites!Engine!EvaluateCommand
  <2> HIDE DEF results
  <2>8. Suites!Engine!Evaluate(call, <<h>>, Suites!AnyMarks, FALSE, FALSE) = Suites!Engine!Verdict(results)
    BY <2>3, <2>7 DEF Suites!Engine!Evaluate
  <2>9. (~ Suites!Loads(pack)) = FALSE
    OBVIOUS
  <2>10. Suites!Answer(pack, exempt, input) = Suites!Engine!Evaluate(call, <<h>>, Suites!AnyMarks, FALSE, FALSE)
    BY <2>1, <2>9 DEF Suites!Answer, h
  <2> QED
    BY <2>8, <2>10
<1>5. /\ DOMAIN results = {0} \cup DOMAIN tokens
      /\ results[0] = first
      /\ \A i \in DOMAIN tokens : results[i] = later(i)
  <2> HIDE DEF first, later
  <2> QED
    BY <1>3
<1> HIDE DEF results, first, later
<1>6. CASE pack.keywords = {}
  <2> DEFINE line == [k \in {0} |-> input.words]
  <2>1. DOMAIN line = {0} /\ line[0] = input.words
    OBVIOUS
  <2> HIDE DEF line
  <2>2. \A k \in DOMAIN line : Judges(results[k], pack, exempt, "command", line[k])
    BY <1>1, <1>5, <1>6, <2>1
  <2>3. \A k \in DOMAIN results \ DOMAIN line : results[k].channel \in Channels \ {"deny"}
    BY <1>2, <1>5, <1>6, <2>1
  <2>4. DOMAIN results \subseteq Nat /\ DOMAIN line \subseteq DOMAIN results
    BY <1>3, <1>5, <2>1
  <2>5. Reports(Suites!Engine!Verdict(results), pack, exempt, "command", line)
    BY <2>2, <2>3, <2>4, FirstDenied
  <2>6. texts = <<input.words>>
    BY <1>6 DEF Suites!Texts
  <2>7. DOMAIN texts = {1} /\ texts[1] = input.words
    BY <2>6
  <2> HIDE DEF texts
  <2>8. Reports(Suites!Engine!Verdict(results), pack, exempt, "command", texts)
    BY <2>1, <2>5, <2>7, OnlyText
  <2> QED
    BY <1>4, <2>8 DEF texts
<1>7. CASE pack.keywords # {}
  <2>1. texts = [k \in {k \in DOMAIN tokens : tokens[k][1] \in pack.keywords} |-> tokens[k]]
    BY <1>7 DEF Suites!Texts, Suites!Considered, Suites!At
  <2>2. /\ DOMAIN texts = {k \in DOMAIN tokens : tokens[k][1] \in pack.keywords}
        /\ \A k \in DOMAIN texts : texts[k] = tokens[k]
    BY <2>1
  <2> HIDE DEF texts, tokens
  <2>3. \A k \in DOMAIN texts : Judges(results[k], pack, exempt, "command", texts[k])
    BY <1>2, <1>5, <2>2
  <2>4. \A k \in DOMAIN results \ DOMAIN texts : results[k].channel \in Channels \ {"deny"}
    BY <1>1, <1>2, <1>5, <1>7, <2>2
  <2>5. DOMAIN results \subseteq Nat /\ DOMAIN texts \subseteq DOMAIN results
    BY <1>3, <1>5, <2>2
  <2>6. Reports(Suites!Engine!Verdict(results), pack, exempt, "command", texts)
    BY <2>3, <2>4, <2>5, FirstDenied
  <2> QED
    BY <1>4, <2>6 DEF texts
<1> QED
  BY <1>6, <1>7

(* The suites and the engine see the same of an input.                     *)
Alike(pack, input) ==
    input.mode = "command" => pack.keywords = {} \/ Suites!Segments(input.words) = input.tokens

(* The answer is that of the first denied of the texts the suites look at. *)
LEMMA AnswerIs ==
    ASSUME NEW pack, NEW exempt, <<pack, exempt>> \in Suites!Holdings, IsHeld(pack), Suites!IsPlain(pack),
           Suites!Loads(pack), NEW input, Suites!IsInput(input), Alike(pack, input)
    PROVE  Reports(Suites!Answer(pack, exempt, input), pack, exempt, input.mode, Suites!Texts(pack, input))
<1>1. CASE input.mode = "content"
  <2>1. input.file \in Suites!FileClasses
    BY <1>1 DEF Suites!IsInput
  <2> QED
    BY <1>1, <2>1, ContentAnswer
<1>2. CASE input.mode = "command"
  <2>1. Suites!IsList(input.tokens)
    BY <1>2 DEF Suites!IsInput
  <2>2. pack.keywords = {} \/ Suites!Segments(input.words) = input.tokens
    BY <1>2 DEF Alike
  <2> QED
    BY <1>2, <2>1, <2>2, CommandAnswer
<1> QED
  BY <1>1, <1>2 DEF Suites!IsInput

-----------------------------------------------------------------------------
(* A denial is never that of an exempted rule, whatever the pack.          *)

(* A result that is no denial by an exempted rule.                         *)
Spares(r, exempt) ==
    /\ r.channel \in Channels \cup {"error"}
    /\ r.channel = "deny" => r.rule.name \notin exempt

(* The verdict on results that spare the exempted rules does so.           *)
LEMMA VerdictSpares ==
    ASSUME NEW results, DOMAIN results \subseteq Nat, NEW exempt,
           \A i \in DOMAIN results : Spares(results[i], exempt)
    PROVE  Spares(Suites!Engine!Verdict(results), exempt)
<1> DEFINE ends == {i \in DOMAIN results : results[i].channel \in {"deny", "error"}}
           v == Suites!Engine!Verdict(results)
<1>1. v = IF ends = {} THEN Suites!Engine!MostSevere(results) ELSE results[Suites!Min(ends)]
  BY EngineMin DEF Suites!Engine!Verdict
<1>2. CASE ends = {}
  <2>1. \A i \in DOMAIN results : results[i].channel \in Channels \ {"deny"}
    BY <1>2 DEF Spares
  <2>2. v.channel \in Channels \ {"deny"}
    BY <1>1, <1>2, <2>1, MostSevereOf
  <2> QED
    BY <2>2 DEF Spares
<1>3. CASE ends # {}
  <2>1. Suites!Min(ends) \in ends
    BY <1>3, FirstIs
  <2> QED
    BY <1>1, <1>3, <2>1
<1> QED
  BY <1>2, <1>3

(* One pack asked about one unit spares them,                              *)
LEMMA SignalsSpare ==
    ASSUME NEW pack, NEW exempt, <<pack, exempt>> \in Suites!Holdings, IsHeld(pack), NEW unit, NEW store
    PROVE  Spares(Suites!Engine!Verdict(Suites!Engine!Signals(<<pack, exempt>>, unit, store)), exempt)
<1> DEFINE h == <<pack, exempt>>
           signals == Suites!Engine!Signals(h, unit, store)
           kept == [k \in Suites!Holdings |-> Suites!Held(k[1], k[2])][h]
           matches(p) == Suites!Engine!Matches(p, unit, store)
           hits == {i \in DOMAIN kept.guarded :
                      Suites!Engine!Active(kept.guarded[i]) /\ matches(kept.guarded[i]) # "no"}
           signal(i) == IF matches(kept.guarded[i]) = "err" THEN Suites!Engine!Error
                        ELSE [channel |-> kept.guarded[i].channel, rule |-> kept.guarded[i].id, pack |-> h]
<1>1. signals \in {[i \in hits |-> signal(i)], <<Suites!Engine!Error>>, <<>>}
  BY DEF Suites!Engine!Signals
<1>2. Spares(Suites!Engine!Error, exempt)
  BY DEF Spares, Suites!Engine!Error
<1>3. kept.guarded = Suites!Keyed(pack.guarded, exempt)
  BY HeldIs
<1>4. DOMAIN kept.guarded = DOMAIN pack.guarded
  BY <1>3 DEF Suites!Keyed
<1> HIDE DEF matches
<1>5. ASSUME NEW i \in hits
      PROVE  Spares(signal(i), exempt)
  <2>1. pack.guarded[i] \in Suites!ToSet(pack.guarded) /\ i \in DOMAIN pack.guarded
    BY <1>4 DEF Suites!ToSet
  <2>2. Suites!IsPattern(pack.guarded[i]) /\ pack.guarded[i].channel \in {"warning", "rewrite", "deny"}
    BY <2>1 DEF IsHeld, Suites!IsRule
  <2>3. kept.guarded[i] = [pack.guarded[i] EXCEPT !.id = Suites!Key(pack.guarded[i], exempt)]
    BY <1>3, <2>1 DEF Suites!Keyed
  <2>4. /\ kept.guarded[i].id = Suites!Key(pack.guarded[i], exempt)
        /\ kept.guarded[i].channel = pack.guarded[i].channel
    <3> HIDE DEF kept
    <3> QED
      BY <2>2, <2>3, ToldKey
  <2>5. pack.guarded[i].id \notin exempt
    <3>1. Suites!Engine!Active([pack.guarded[i] EXCEPT !.id = Suites!Key(pack.guarded[i], exempt)])
      BY <2>3
    <3> QED
      BY <2>1, <2>2, <3>1, ActiveIs
  <2>6. Suites!Key(pack.guarded[i], exempt).name = pack.guarded[i].id
    BY DEF Suites!Key
  <2>7. CASE matches(kept.guarded[i]) = "err"
    BY <1>2, <2>7
  <2>8. CASE matches(kept.guarded[i]) # "err"
    <3> HIDE DEF kept
    <3>1. /\ signal(i).channel = pack.guarded[i].channel
          /\ signal(i).rule.name = pack.guarded[i].id
      BY <2>4, <2>6, <2>8
    <3> QED
      BY <2>2, <2>5, <3>1 DEF Spares, Channels
  <2> QED
    BY <2>7, <2>8
<1>6. hits \subseteq Nat
  BY <1>4 DEF IsHeld
<1> HIDE DEF hits, signal, signals
<1>7. DOMAIN signals \subseteq Nat /\ \A i \in DOMAIN signals : Spares(signals[i], exempt)
  BY <1>1, <1>2, <1>5, <1>6
<1> QED
  BY <1>7, VerdictSpares DEF signals

(* so does the scan of the packs that are asked about it,                  *)
LEMMA ScanSpares ==
    ASSUME NEW pack, NEW exempt, <<pack, exempt>> \in Suites!Holdings, IsHeld(pack),
           NEW unit, NEW store, NEW among
    PROVE  Spares(Suites!Engine!ScanPacks(among, <<<<pack, exempt>>>>, unit, store), exempt)
<1> DEFINE h == <<pack, exempt>>
           results == [n \in {k \in DOMAIN <<h>> : <<h>>[k] \in among} |->
                         Suites!Engine!Verdict(Suites!Engine!Signals(<<h>>[n], unit, store))]
           whole == Suites!Engine!Verdict(results)
<1>1. Suites!Engine!ScanPacks(among, <<h>>, unit, store) = Suites!Engine!LetThrough(whole)
  BY DEF Suites!Engine!ScanPacks
<1>2. Spares(Suites!Engine!Verdict(Suites!Engine!Signals(h, unit, store)), exempt)
  BY SignalsSpare
<1>3. /\ DOMAIN results \subseteq {1}
      /\ 1 \in DOMAIN results => results[1] = Suites!Engine!Verdict(Suites!Engine!Signals(h, unit, store))
  OBVIOUS
<1> HIDE DEF results
<1>4. Spares(whole, exempt)
  <2>1. DOMAIN results \subseteq Nat /\ \A i \in DOMAIN results : Spares(results[i], exempt)
    BY <1>2, <1>3
  <2> QED
    BY <2>1, VerdictSpares
<1> HIDE DEF whole
<1>5. Spares(Suites!Engine!LetThrough(whole), exempt)
  BY <1>4 DEF Spares, Suites!Engine!LetThrough, Suites!Engine!Allowed, Channels
<1> QED
  BY <1>1, <1>5

(* and so does the engine's answer, however it reads the input.            *)
LEMMA AnswerSpares ==
    ASSUME NEW pack, NEW exempt, <<pack, exempt>> \in Suites!Holdings, IsHeld(pack), Suites!Loads(pack),
           NEW input, Suites!IsInput(input)
    PROVE  Spares(Suites!Answer(pack, exempt, input), exempt)
<1> DEFINE h == <<pack, exempt>>
           call == Suites!Call(pack, exempt, input)
           answer == Suites!Answer(pack, exempt, input)
<1>1. answer = Suites!Engine!Evaluate(call, <<h>>, Suites!AnyMarks, FALSE, FALSE)
  <2>1. (~ Suites!Loads(pack)) = FALSE
    OBVIOUS
  <2> QED
    BY <2>1 DEF Suites!Answer
<1>2. CASE input.mode = "content"
  <2> DEFINE unit == Suites!Unit("content", "", input.file, Suites!Matching(pack, exempt, input.text))
             result(i) == Suites!Engine!EvaluateContent(call.units[i], <<h>>, Suites!AnyMarks, FALSE, FALSE)
             results == [i \in DOMAIN call.units |-> result(i)]
  <2>1. call = [kind |-> "content", units |-> <<unit>>]
    BY <1>2 DEF Suites!Call
  <2>2. ~ unit.builtin
    BY DEF Suites!Unit
  <2> HIDE DEF unit, call
  <2>3. call.kind = "content" /\ DOMAIN call.units = {1} /\ call.units[1] = unit
    BY <2>1
  <2>4. result(1) = Suites!Engine!ScanPacks(Suites!Engine!ContentPacks(unit.file), <<h>>, unit, Suites!AnyMarks)
    BY <2>2, <2>3 DEF Suites!Engine!EvaluateContent
  <2>5. Spares(result(1), exempt)
    BY <2>4, ScanSpares
  <2> HIDE DEF result
  <2>6. Spares(Suites!Engine!Verdict(results), exempt)
    <3>1. DOMAIN results \subseteq Nat /\ \A i \in DOMAIN results : Spares(results[i], exempt)
      BY <2>3, <2>5
    <3> QED
      BY <3>1, VerdictSpares
  <2>7. Suites!Engine!Evaluate(call, <<h>>, Suites!AnyMarks, FALSE, FALSE) = Suites!Engine!Verdict(results)
    BY <2>3 DEF Suites!Engine!Evaluate, result
  <2> QED
    BY <1>1, <2>6, <2>7
<1>3. CASE input.mode = "command"
  <2> DEFINE result(i) == IF i # 0 THEN Suites!Engine!EvaluateToken(call.units[i], <<h>>, Suites!AnyMarks)
                          ELSE Suites!Engine!EvaluateUnconditional(call.raw, <<h>>, Suites!AnyMarks)
             results == [i \in {0} \cup DOMAIN call.units |-> result(i)]
  <2>1. call.kind = "command" /\ call.front = "hook" /\ DOMAIN call.units = DOMAIN input.tokens
    BY <1>3 DEF Suites!Call
  <2>2. DOMAIN input.tokens \subseteq Nat
    <3>1. Suites!IsList(input.tokens)
      BY <1>3 DEF Suites!IsInput
    <3> QED
      BY <3>1, ListIs
  <2> HIDE DEF call
  <2>3. \A i : Spares(result(i), exempt)
    BY ScanSpares DEF Suites!Engine!EvaluateToken, Suites!Engine!EvaluateUnconditional
  <2>4. Suites!Engine!EvaluateCommand(call, <<h>>, Suites!AnyMarks) = Suites!Engine!Verdict(results)
    <3>1. [i \in {0} \cup DOMAIN call.units |->
             IF i # 0 THEN Suites!Engine!EvaluateToken(call.units[i], <<h>>, Suites!AnyMarks)
             ELSE IF call.front = "hook"
                  THEN Suites!Engine!EvaluateUnconditional(call.raw, <<h>>, Suites!AnyMarks)
                  ELSE Suites!Engine!Allowed] = results
      BY <2>1
    <3> QED
      BY <3>1 DEF Suites!Engine!EvaluateCommand
  <2>5. Suites!Engine!Evaluate(call, <<h>>, Suites!AnyMarks, FALSE, FALSE) = Suites!Engine!Verdict(results)
    BY <2>1, <2>4 DEF Suites!Engine!Evaluate
  <2> HIDE DEF result
  <2>6. DOMAIN results \subseteq Nat /\ \A i \in DOMAIN results : Spares(results[i], exempt)
    BY <2>1, <2>2, <2>3
  <2> QED
    BY <1>1, <2>5, <2>6, VerdictSpares
<1> QED
  BY <1>2, <1>3 DEF Suites!IsInput

-----------------------------------------------------------------------------
(* A case that is validated.                                               *)

(* A pack, or the rules of it that a release needs cases of.               *)
IsPartOf(less, pack) ==
    /\ less.keywords = pack.keywords /\ less.safe = pack.safe
    /\ DOMAIN less.guarded \subseteq DOMAIN pack.guarded
    /\ \A i \in DOMAIN less.guarded : less.guarded[i] = pack.guarded[i]

(* The rules that are asked about a command.                               *)
Asked(pack) == Suites!Enabled(pack) \cap Suites!OfCheck(pack.guarded, "command")

(* The first text that any pattern ends, and the first rule that ends it.  *)
LEMMA FirstCase ==
    ASSUME NEW less, NEW target, NEW words, DOMAIN less.guarded \subseteq Nat,
           DOMAIN Suites!Considered(less, words) \subseteq Nat, Suites!DeniesCase(less, target, words)
    PROVE  LET texts == Suites!Considered(less, words)
               rule(i) == less.guarded[i]
           IN \E k \in DOMAIN texts : \E f \in Asked(less) :
                /\ Suites!Hits(rule(f), texts[k]) /\ ~ rule(f).broken
                /\ rule(f).id = target.id
                /\ Suites!SafeEnds(less, "command", texts[k]) = {}
                /\ \A i \in Asked(less) : Suites!Ends(rule(i), texts[k]) => f <= i
                /\ \A l \in DOMAIN texts :
                     (\E i \in Asked(less) : Suites!Ends(rule(i), texts[l])) => k <= l
<1> DEFINE texts == Suites!Considered(less, words)
           safe(k) == Suites!SafeEnds(less, "command", texts[k])
           rules(k) == Suites!RuleEnds(less, Asked(less), texts[k])
           ends == {k \in DOMAIN texts : safe(k) # {} \/ rules(k) # {}}
           k == Suites!Min(ends)
           f == Suites!Min(rules(k))
<1>1. /\ ends # {} /\ safe(k) = {}
      /\ ~ less.guarded[f].broken /\ less.guarded[f].id = target.id
  BY DEF Suites!DeniesCase, Asked
<1>2. k \in ends /\ \A l \in ends : k <= l
  BY <1>1, FirstIs
<1>3. rules(k) # {} /\ rules(k) \subseteq Nat
  BY <1>1, <1>2 DEF Suites!RuleEnds, Asked, Suites!Enabled
<1>4. f \in rules(k) /\ \A i \in rules(k) : f <= i
  BY <1>3, FirstIs
<1>5. \A l : rules(l) = {i \in Asked(less) : Suites!Ends(less.guarded[i], texts[l])}
  BY DEF Suites!RuleEnds
<1> HIDE DEF k, f, rules, safe, texts
<1>6. k \in DOMAIN texts /\ f \in Asked(less) /\ Suites!Ends(less.guarded[f], texts[k])
  BY <1>2, <1>4, <1>5
<1>7. Suites!Hits(less.guarded[f], texts[k])
  BY <1>1, <1>6 DEF Suites!Ends
<1>8. \A i \in Asked(less) : Suites!Ends(less.guarded[i], texts[k]) => f <= i
  BY <1>4, <1>5
<1>9. \A l \in DOMAIN texts :
        (\E i \in Asked(less) : Suites!Ends(less.guarded[i], texts[l])) => k <= l
  BY <1>2, <1>5
<1> QED
  BY <1>1, <1>6, <1>7, <1>8, <1>9 DEF texts, safe

(* A safe pattern that the engine sees ends the scan of the suites.        *)
LEMMA NotExcused ==
    ASSUME NEW pack, Suites!IsPlain(pack), NEW mode \in {"content", "command"}, NEW text,
           Suites!SafeEnds(pack, mode, text) = {}
    PROVE  ~ Excused(pack, mode, text)
<1> SUFFICES ASSUME NEW i \in DOMAIN pack.safe, Sees(pack.safe[i], mode, text)
             PROVE  FALSE
  BY DEF Excused
<1>1. pack.safe[i].check \in {"command", "content"}
  BY DEF Suites!IsPlain, Suites!IsPredicate, Suites!ToSet
<1>2. pack.safe[i].check = mode /\ Suites!Hits(pack.safe[i], text)
  BY <1>1 DEF Sees, OwnChecks, Unconditioned
<1>3. i \in Suites!SafeEnds(pack, mode, text)
  BY <1>2 DEF Suites!SafeEnds, Suites!OfCheck, Suites!Ends
<1> QED
  BY <1>3

(* Who may take the denial of a command: the rule it is a case of, or a    *)
(* rule that asks for state.                                               *)
TakenBy(pack, id, name) ==
    \/ name = id
    \/ \E i \in Suites!Enabled(pack) : Suites!IsPredicate(pack.guarded[i]) /\ pack.guarded[i].id = name

(* A pack denies the case that was validated against it, or against a part *)
(* of it; only a predicate before the rule may take the case from it.      *)
LEMMA CommandDenied ==
    ASSUME NEW pack, NEW exempt, <<pack, exempt>> \in Suites!Holdings, IsHeld(pack), Suites!Loads(pack),
           NEW input, Suites!IsInput(input), input.mode = "command", Suites!ReadAlike(pack, input),
           NEW less, IsPartOf(less, pack), NEW target, Suites!DeniesCase(less, target, input.words),
           \A i \in Suites!Enabled(less) : less.guarded[i].id = target.id => less.guarded[i].channel = "deny",
           target.id \notin exempt
    PROVE  LET answer == Suites!Answer(pack, exempt, input)
           IN answer.channel = "deny" /\ (less = pack => TakenBy(pack, target.id, answer.rule.name))
<1> DEFINE answer == Suites!Answer(pack, exempt, input)
           texts == Suites!Considered(pack, input.words)
           denied == DeniedAt(pack, exempt, "command", texts)
           denials(k) == Denials(pack, exempt, "command", texts[k])
<1>1. Suites!IsPlain(pack) /\ pack.keywords # {} /\ Suites!Segments(input.words) = input.tokens
  BY DEF Suites!ReadAlike
<1>2. Suites!Texts(pack, input) = texts
  BY <1>1 DEF Suites!Texts
<1>3. Reports(answer, pack, exempt, "command", texts)
  <2>1. Alike(pack, input)
    BY <1>1 DEF Alike
  <2> QED
    BY <1>1, <1>2, <2>1, AnswerIs
<1>4. DOMAIN texts \subseteq Nat
  <2>1. Suites!IsList(input.tokens)
    BY DEF Suites!IsInput
  <2>2. DOMAIN input.tokens \subseteq Nat
    BY <2>1, ListIs
  <2> QED
    BY <1>1, <2>2 DEF Suites!Considered, Suites!At
<1>5. Suites!Considered(less, input.words) = texts
  BY DEF Suites!Considered, IsPartOf
<1>6. PICK k \in DOMAIN texts : \E f \in Asked(less) :
                /\ Suites!Hits(less.guarded[f], texts[k]) /\ ~ less.guarded[f].broken
                /\ less.guarded[f].id = target.id
                /\ Suites!SafeEnds(less, "command", texts[k]) = {}
                /\ \A i \in Asked(less) : Suites!Ends(less.guarded[i], texts[k]) => f <= i
                /\ \A l \in DOMAIN texts :
                     (\E i \in Asked(less) : Suites!Ends(less.guarded[i], texts[l])) => k <= l
  <2>1. DOMAIN less.guarded \subseteq Nat
    BY DEF IsHeld, IsPartOf
  <2> HIDE DEF texts
  <2> QED
    BY <1>4, <1>5, <2>1, FirstCase
<1>7. PICK f \in Asked(less) :
                /\ Suites!Hits(less.guarded[f], texts[k]) /\ ~ less.guarded[f].broken
                /\ less.guarded[f].id = target.id
                /\ Suites!SafeEnds(less, "command", texts[k]) = {}
                /\ \A i \in Asked(less) : Suites!Ends(less.guarded[i], texts[k]) => f <= i
                /\ \A l \in DOMAIN texts :
                     (\E i \in Asked(less) : Suites!Ends(less.guarded[i], texts[l])) => k <= l
  BY <1>6
<1> HIDE DEF texts, answer
<1>8. ~ Excused(pack, "command", texts[k])
  <2>1. Suites!SafeEnds(pack, "command", texts[k]) = {}
    BY <1>7 DEF IsPartOf, Suites!SafeEnds
  <2> QED
    BY <1>1, <2>1, NotExcused
<1>9. f \in denials(k)
  <2>1. /\ f \in DOMAIN less.guarded /\ less.guarded[f].enabled /\ less.guarded[f].check = "command"
        /\ less.guarded[f].channel = "deny"
    BY <1>7 DEF Asked, Suites!Enabled, Suites!OfCheck
  <2>2. f \in DOMAIN pack.guarded /\ pack.guarded[f] = less.guarded[f]
    BY <2>1 DEF IsPartOf
  <2>3. Sees(pack.guarded[f], "command", texts[k])
    BY <1>7, <2>1, <2>2 DEF Sees, OwnChecks
  <2> QED
    BY <1>7, <2>1, <2>2, <2>3 DEF Denials
<1>10. k \in denied
  BY <1>8, <1>9 DEF DeniedAt, Denied
<1>11. answer.channel = "deny"
  BY <1>3, <1>10 DEF Reports
<1>12. ASSUME less = pack
       PROVE  TakenBy(pack, target.id, answer.rule.name)
  <2> DEFINE l == Suites!Min(denied)
             d == Suites!Min(denials(l))
  <2>1. l \in denied /\ l <= k /\ l \in Nat
    <3>1. denied \subseteq Nat
      BY <1>4 DEF DeniedAt
    <3> QED
      BY <1>10, <3>1, FirstIs
  <2>2. l \in DOMAIN texts /\ ~ Excused(pack, "command", texts[l]) /\ denials(l) # {}
    BY <2>1 DEF DeniedAt, Denied
  <2>3. denials(l) \subseteq DOMAIN pack.guarded /\ denials(l) \subseteq Nat
    BY DEF Denials, IsHeld
  <2> HIDE DEF l
  <2>4. d \in denials(l) /\ \A i \in denials(l) : d <= i
    BY <2>2, <2>3, FirstIs
  <2> HIDE DEF d
  <2>5. answer.rule = Suites!Key(pack.guarded[d], exempt)
    BY <1>3, <1>10 DEF Reports, l, d
  <2>6. answer.rule.name = pack.guarded[d].id
    BY <2>5 DEF Suites!Key
  <2>7. d \in Suites!Enabled(pack) /\ Sees(pack.guarded[d], "command", texts[l])
    BY <2>4 DEF Denials, Suites!Enabled
  <2>8. CASE Suites!IsPredicate(pack.guarded[d])
    BY <2>6, <2>7, <2>8 DEF TakenBy
  <2>9. CASE ~ Suites!IsPredicate(pack.guarded[d])
    <3>1. pack.guarded[d].check = "command" /\ Suites!Hits(pack.guarded[d], texts[l])
      BY <2>7, <2>9 DEF Suites!IsPredicate, Sees, OwnChecks, Unconditioned
    <3>2. d \in Asked(pack) /\ Suites!Ends(pack.guarded[d], texts[l])
      BY <2>7, <3>1 DEF Asked, Suites!Enabled, Suites!OfCheck, Suites!Ends
    <3>3. k <= l
      BY <1>7, <1>12, <2>2, <3>2
    <3>4. k = l
      BY <1>4, <2>1, <3>3
    <3>5. f <= d /\ d <= f
      BY <1>7, <1>9, <1>12, <2>4, <3>2, <3>4
    <3>6. f \in Nat /\ d \in Nat
      BY <1>9, <2>3, <2>4, <3>4
    <3>7. f = d
      BY <3>5, <3>6
    <3> QED
      BY <1>7, <1>12, <2>6, <3>7 DEF TakenBy
  <2> QED
    BY <2>8, <2>9
<1> QED
  BY <1>11, <1>12 DEF answer

(* A content that any rule denies is denied, perhaps by another.           *)
LEMMA ContentDenied ==
    ASSUME NEW pack, NEW exempt, <<pack, exempt>> \in Suites!Holdings, IsHeld(pack), Suites!Loads(pack),
           NEW input, Suites!IsInput(input), input.mode = "content", Suites!ReadAlike(pack, input),
           NEW i \in Suites!Enabled(pack), pack.guarded[i].check = "content", pack.guarded[i].channel = "deny",
           Suites!Hits(pack.guarded[i], input.text), Suites!SafeEnds(pack, "content", input.text) = {},
           pack.guarded[i].id \notin exempt
    PROVE  LET answer == Suites!Answer(pack, exempt, input)
           IN /\ answer.channel = "deny"
              /\ \E d \in Suites!Enabled(pack) :
                   Suites!Hits(pack.guarded[d], input.text) /\ answer.rule.name = pack.guarded[d].id
<1> DEFINE answer == Suites!Answer(pack, exempt, input)
           texts == Suites!Texts(pack, input)
           denied == DeniedAt(pack, exempt, "content", texts)
           denials == Denials(pack, exempt, "content", input.text)
<1>1. Suites!IsPlain(pack) /\ Suites!SelectsFile(pack, input.file)
  BY DEF Suites!ReadAlike
<1>2. DOMAIN texts = {1} /\ texts[1] = input.text
  BY <1>1 DEF Suites!Texts, Suites!At
<1>3. Reports(answer, pack, exempt, "content", texts)
  <2>1. Alike(pack, input)
    BY DEF Alike
  <2> QED
    BY <1>1, <2>1, AnswerIs
<1> HIDE DEF texts, answer
<1>4. i \in denials
  BY DEF Denials, Suites!Enabled, Sees, OwnChecks
<1>5. ~ Excused(pack, "content", input.text)
  BY <1>1, NotExcused
<1>6. denied = {1}
  BY <1>2, <1>4, <1>5 DEF DeniedAt, Denied
<1>7. Suites!Min({1}) = 1
  BY FirstOf
<1>8. answer.channel = "deny" /\ answer.rule = Suites!Key(pack.guarded[Suites!Min(denials)], exempt)
  BY <1>2, <1>3, <1>6, <1>7 DEF Reports
<1>9. denials \subseteq Nat
  BY DEF Denials, IsHeld
<1>10. Suites!Min(denials) \in denials
  BY <1>4, <1>9, FirstIs
<1>11. /\ Suites!Min(denials) \in Suites!Enabled(pack)
       /\ Suites!Hits(pack.guarded[Suites!Min(denials)], input.text)
  BY <1>10 DEF Denials, Suites!Enabled, Sees
<1>12. answer.rule.name = pack.guarded[Suites!Min(denials)].id
  BY <1>8 DEF Suites!Key
<1> QED
  BY <1>8, <1>11, <1>12 DEF answer

-----------------------------------------------------------------------------
(* Packs and holdings that an inquiry brings.                              *)

(* A pack of an inquiry is one the engine can hold.                        *)
LEMMA PackIsHeld ==
    ASSUME NEW pack, Suites!IsPack(pack)
    PROVE  /\ IsHeld(pack) /\ IsFiniteSet(DOMAIN pack.guarded)
           /\ \A i \in DOMAIN pack.guarded : Suites!IsRule(pack.guarded[i])
<1>1. /\ Suites!IsList(pack.safe) /\ Suites!IsList(pack.guarded)
      /\ \A p \in Suites!ToSet(pack.safe) : Suites!IsPattern(p)
      /\ \A g \in Suites!ToSet(pack.guarded) : Suites!IsRule(g)
  BY DEF Suites!IsPack
<1>2. DOMAIN pack.safe \subseteq Nat /\ \A i \in DOMAIN pack.safe : pack.safe[i] \in Suites!ToSet(pack.safe)
  BY <1>1, ListIs
<1>3. /\ DOMAIN pack.guarded \subseteq Nat /\ IsFiniteSet(DOMAIN pack.guarded)
      /\ \A i \in DOMAIN pack.guarded : pack.guarded[i] \in Suites!ToSet(pack.guarded)
  BY <1>1, ListIs
<1> QED
  BY <1>1, <1>2, <1>3 DEF IsHeld

(* The engines that the properties ask exist.                              *)
LEMMA HeldPacks ==
    ASSUME NEW pack \in Suites!ToSet(inquiry.packs)
    PROVE  /\ <<pack, {}>> \in Suites!Holdings /\ <<Suites!Intact(pack), {}>> \in Suites!Holdings
           /\ inquiry.kind = "gate" => <<pack, inquiry.exempt>> \in Suites!Holdings
BY DEF Suites!Holdings

(* A pack that was reduced for a release is part of the pack.              *)
LEMMA ReducedIs ==
    ASSUME NEW pack, Suites!IsPack(pack)
    PROVE  /\ IsPartOf(Suites!Reduced(pack), pack) /\ Suites!Reduced(pack).id = pack.id
           /\ \A i \in DOMAIN Suites!Reduced(pack).guarded : Suites!IsRule(Suites!Reduced(pack).guarded[i])
<1> DEFINE needed == {i \in DOMAIN pack.guarded : Suites!NeedsCase(pack.guarded[i])}
           less == Suites!Reduced(pack)
<1>1. less = [pack EXCEPT !.guarded = Suites!At(pack.guarded, needed)]
  BY DEF Suites!Reduced
<1>2. "guarded" \in DOMAIN pack
  BY DEF Suites!IsPack
<1> HIDE DEF needed
<1>3. /\ less.keywords = pack.keywords /\ less.safe = pack.safe /\ less.id = pack.id
      /\ less.guarded = Suites!At(pack.guarded, needed)
  BY <1>1, <1>2
<1> HIDE DEF less
<1>4. /\ DOMAIN less.guarded \subseteq DOMAIN pack.guarded
      /\ \A i \in DOMAIN less.guarded : less.guarded[i] = pack.guarded[i]
  BY <1>3 DEF Suites!At, needed
<1>5. \A i \in DOMAIN pack.guarded : Suites!IsRule(pack.guarded[i])
  BY PackIsHeld
<1>6. \A i \in DOMAIN less.guarded : Suites!IsRule(less.guarded[i])
  BY <1>4, <1>5
<1> QED
  BY <1>3, <1>4, <1>6 DEF IsPartOf, less

-----------------------------------------------------------------------------
(* What generation makes.                                                  *)

(* The enabled rules that a suite has cases of.                            *)
InScope(pack) == {i \in Suites!Enabled(pack) : ~ Suites!OutOfScope(pack, pack.guarded[i])}

(* The case of the rule at a place.                                        *)
CaseOf(pack, i) == Suites!Case(pack, pack.guarded[i], Suites!Input(pack, pack.guarded[i]))

(* What a generated suite consists of.                                     *)
LEMMA GeneratedIs ==
    ASSUME NEW pack, Suites!Generate(pack).ok
    PROVE  /\ \A i, j \in DOMAIN pack.guarded : pack.guarded[i].id = pack.guarded[j].id => i = j
           /\ \A i \in InScope(pack) : Suites!Usable(pack, pack.guarded[i])
           /\ Suites!Generate(pack).cases = {CaseOf(pack, i) : i \in InScope(pack)}
           /\ Suites!Generate(pack).skipped =
                {pack.guarded[i].id : i \in Suites!Enabled(pack) \ InScope(pack)}
<1> DEFINE fits == /\ Suites!IsInjective(Suites!Ids(pack.guarded))
                   /\ \A i \in InScope(pack) : Suites!Usable(pack, pack.guarded[i])
           made == [ok |-> TRUE, cases |-> {CaseOf(pack, i) : i \in InScope(pack)},
                    skipped |-> {pack.guarded[i].id : i \in Suites!Enabled(pack) \ InScope(pack)}]
<1>1. Suites!Generate(pack) = IF fits THEN made ELSE Suites!Refused
  BY DEF Suites!Generate, InScope, CaseOf
<1>2. ~ Suites!Refused.ok
  BY DEF Suites!Refused
<1>3. fits /\ Suites!Generate(pack) = made
  <2> HIDE DEF fits, made
  <2>1. CASE fits
    BY <1>1, <2>1
  <2>2. CASE ~ fits
    <3>1. Suites!Generate(pack) = Suites!Refused
      BY <1>1, <2>2
    <3> QED
      BY <1>2, <3>1, Zenon
  <2> QED
    BY <2>1, <2>2
<1>4. \A i, j \in DOMAIN pack.guarded : pack.guarded[i].id = pack.guarded[j].id => i = j
  BY <1>3 DEF Suites!IsInjective, Suites!Ids
<1>5. made.cases = {CaseOf(pack, i) : i \in InScope(pack)}
  OBVIOUS
<1>6. made.skipped = {pack.guarded[i].id : i \in Suites!Enabled(pack) \ InScope(pack)}
  OBVIOUS
<1> HIDE DEF made
<1> QED
  BY <1>3, <1>4, <1>5, <1>6

(* The input of a case, given or spelled, is an input.                     *)
LEMMA InputIs ==
    ASSUME NEW pack, NEW r, Suites!IsRule(r), r.example.mode # "empty"
    PROVE  Suites!IsInput(Suites!Input(pack, r))
<1> DEFINE words == IF r.spells # <<>> /\ r.spells[1] \in pack.keywords
                    THEN r.spells ELSE <<pack.first>> \o r.spells
           place == IF pack.globs # <<>> /\ pack.globs[1] = "yml" THEN "yml" ELSE "yaml"
<1>1. CASE r.example.mode # "none"
  BY <1>1 DEF Suites!Input, Suites!IsRule
<1>2. CASE r.example.mode = "none" /\ r.check = "command"
  <2> HIDE DEF words
  <2>1. Suites!Input(pack, r) = [mode |-> "command", words |-> words, tokens |-> <<words>>]
    BY <1>2 DEF Suites!Input, Suites!RepresentativeInput, Suites!RepresentativeCommand, words
  <2>2. Suites!IsList(<<words>>)
    BY DEF Suites!IsList, Suites!ToSet
  <2> QED
    BY <2>1, <2>2 DEF Suites!IsInput
<1>3. CASE r.example.mode = "none" /\ r.check # "command"
  <2> HIDE DEF place
  <2>1. Suites!Input(pack, r) = [mode |-> "content", text |-> r.spells, file |-> place]
    BY <1>3 DEF Suites!Input, Suites!RepresentativeInput, place
  <2>2. place \in Suites!FileClasses
    BY DEF place, Suites!FileClasses
  <2> QED
    BY <2>1, <2>2 DEF Suites!IsInput
<1> QED
  BY <1>1, <1>2, <1>3

(* A case is of one rule of the pack, which is validated by it.            *)
LEMMA CaseIs ==
    ASSUME NEW pack, Suites!Generate(pack).ok, \A i \in DOMAIN pack.guarded : Suites!IsRule(pack.guarded[i]),
           NEW c \in Suites!Generate(pack).cases
    PROVE  \E i \in InScope(pack) :
             /\ c.rule = pack.guarded[i].id /\ c.pack = pack.id /\ c = CaseOf(pack, i)
             /\ Suites!IsInput(c.input) /\ Suites!Validates(pack, pack.guarded[i], c.input)
<1>1. PICK i \in InScope(pack) : c = CaseOf(pack, i)
  BY GeneratedIs
<1>2. Suites!Usable(pack, pack.guarded[i])
  BY GeneratedIs
<1>3. /\ c.rule = pack.guarded[i].id /\ c.pack = pack.id
      /\ c.input = Suites!Input(pack, pack.guarded[i])
  BY <1>1 DEF CaseOf, Suites!Case
<1>4. Suites!IsRule(pack.guarded[i]) /\ pack.guarded[i].example.mode # "empty"
  BY <1>2 DEF Suites!Usable, InScope, Suites!Enabled
<1>5. Suites!IsInput(c.input)
  BY <1>3, <1>4, InputIs
<1>6. Suites!Validates(pack, pack.guarded[i], c.input)
  BY <1>2, <1>3 DEF Suites!Usable
<1> QED
  BY <1>1, <1>3, <1>5, <1>6

(* What is validated is denied, if both read it alike.                     *)
LEMMA ValidatedIsDenied ==
    ASSUME NEW pack, NEW exempt, <<pack, exempt>> \in Suites!Holdings, IsHeld(pack), Suites!Loads(pack),
           NEW input, Suites!IsInput(input), Suites!ReadAlike(pack, input),
           NEW less, IsPartOf(less, pack), NEW i \in Suites!Enabled(less),
           Suites!Validates(less, less.guarded[i], input),
           \A j \in Suites!Enabled(less) : less.guarded[j].id = less.guarded[i].id => j = i,
           less.guarded[i].id \notin exempt
    PROVE  LET answer == Suites!Answer(pack, exempt, input)
           IN /\ answer.channel = "deny"
              /\ input.mode = "command" /\ less = pack =>
                   TakenBy(pack, less.guarded[i].id, answer.rule.name)
              /\ input.mode = "content" =>
                   \E d \in Suites!Enabled(pack) :
                     Suites!Hits(pack.guarded[d], input.text) /\ answer.rule.name = pack.guarded[d].id
<1> DEFINE target == less.guarded[i]
           answer == Suites!Answer(pack, exempt, input)
<1>1. CASE input.mode = "command" /\ Suites!DeniesCase(less, target, input.words)
  <2>1. target.channel = "deny"
    BY <1>1 DEF Suites!DeniesCase
  <2>2. \A j \in Suites!Enabled(less) : less.guarded[j].id = target.id => less.guarded[j].channel = "deny"
    BY <2>1
  <2> HIDE DEF target
  <2>3. target.id \notin exempt
    BY DEF target
  <2>4. answer.channel = "deny" /\ (less = pack => TakenBy(pack, target.id, answer.rule.name))
    BY <1>1, <2>2, <2>3, CommandDenied
  <2> QED
    BY <1>1, <2>4 DEF target
<1>2. CASE /\ target.check = "content" /\ input.mode = "content"
           /\ target.channel = "deny" /\ ~ target.broken /\ Suites!Hits(target, input.text)
           /\ Suites!SafeEnds(less, "content", input.text) = {}
  <2>1. i \in Suites!Enabled(pack) /\ pack.guarded[i] = target
    BY DEF IsPartOf, Suites!Enabled
  <2>2. Suites!SafeEnds(pack, "content", input.text) = {}
    BY <1>2 DEF IsPartOf, Suites!SafeEnds
  <2>3. pack.guarded[i].id \notin exempt
    BY <2>1
  <2>4. /\ pack.guarded[i].check = "content" /\ pack.guarded[i].channel = "deny"
        /\ Suites!Hits(pack.guarded[i], input.text)
    BY <1>2, <2>1
  <2> HIDE DEF target
  <2>5. /\ answer.channel = "deny"
        /\ \E d \in Suites!Enabled(pack) :
             Suites!Hits(pack.guarded[d], input.text) /\ answer.rule.name = pack.guarded[d].id
    BY <1>2, <2>1, <2>2, <2>3, <2>4, ContentDenied
  <2> QED
    BY <1>2, <2>5
<1> QED
  BY <1>1, <1>2 DEF Suites!Validates

-----------------------------------------------------------------------------
(* The states of the suites.                                               *)

(* What is asked, and the suite that was made of it.                       *)
IsAsked == inquiry \in Inquiries \cup {NoInquiry}

(* The suite that there is was made of what is asked.                      *)
SuiteMade ==
    suite # <<>> =>
        /\ inquiry.kind \in {"verify", "gate", "release"}
        /\ suite[1] = IF inquiry.kind = "release" THEN Suites!GenerateRelease(inquiry.packs)
                      ELSE Suites!Generate(inquiry.packs[1])

(* The packs and files of an inquiry are well formed.                      *)
LEMMA AskedPacks ==
    ASSUME IsAsked, inquiry.kind # "none"
    PROVE  /\ Suites!IsList(inquiry.packs)
           /\ \A p \in Suites!ToSet(inquiry.packs) : Suites!IsPack(p)
           /\ inquiry.kind \in {"verify", "gate"} => inquiry.packs[1] \in Suites!ToSet(inquiry.packs)
           /\ inquiry.kind = "verify" => inquiry.packs[2] \in Suites!ToSet(inquiry.packs)
           /\ inquiry.kind = "curate" =>
                /\ Suites!IsList(inquiry.files) /\ inquiry.limit \in Nat
                /\ \A f \in Suites!ToSet(inquiry.files) : Suites!IsCorpus(f)
<1>1. inquiry \in Inquiries
  BY DEF IsAsked, NoInquiry
<1>2. Suites!IsInquiry(inquiry)
  BY <1>1, InquiriesAssumption DEF Suites!InquiriesAreWellFormed
<1>3. \A n \in DOMAIN inquiry.packs : inquiry.packs[n] \in Suites!ToSet(inquiry.packs)
  BY DEF Suites!ToSet
<1> QED
  BY <1>2, <1>3 DEF Suites!IsInquiry

(* The cases of a suite are cases of a pack of the inquiry, or of what a   *)
(* release needs of one.                                                   *)
LEMMA CasesOfPacks ==
    ASSUME IsAsked, SuiteMade, suite # <<>>, suite[1].ok, NEW c \in suite[1].cases
    PROVE  \E q \in Suites!ToSet(inquiry.packs) :
             LET less == IF inquiry.kind = "release" THEN Suites!Reduced(q) ELSE q
             IN /\ inquiry.kind # "release" => q = inquiry.packs[1]
                /\ Suites!Generate(less).ok /\ c \in Suites!Generate(less).cases
<1>1. inquiry.kind \in {"verify", "gate", "release"}
  BY DEF SuiteMade
<1>2. CASE inquiry.kind # "release"
  <2>1. suite[1] = Suites!Generate(inquiry.packs[1])
    BY <1>2 DEF SuiteMade
  <2>2. inquiry.packs[1] \in Suites!ToSet(inquiry.packs)
    BY <1>1, <1>2, AskedPacks
  <2> QED
    BY <1>2, <2>1, <2>2
<1>3. CASE inquiry.kind = "release"
  <2> DEFINE suites == {Suites!Generate(Suites!Reduced(p)) : p \in Suites!ToSet(inquiry.packs)}
             fits == (\A s \in suites : s.ok) /\ \E s \in suites : s.cases # {}
             made == [ok |-> TRUE, cases |-> UNION {s.cases : s \in suites},
                      skipped |-> UNION {s.skipped : s \in suites}]
  <2>1. suite[1] = IF fits THEN made ELSE Suites!Refused
    BY <1>3 DEF SuiteMade, Suites!GenerateRelease
  <2>2. ~ Suites!Refused.ok
    BY DEF Suites!Refused
  <2>3. fits
    <3> HIDE DEF fits, made
    <3>1. ASSUME ~ fits PROVE FALSE
      <4>1. suite[1] = Suites!Refused
        BY <2>1, <3>1
      <4> QED
        BY <2>2, <4>1, Zenon
    <3> QED
      BY <3>1
  <2>4. suite[1] = made
    BY <2>1, <2>3
  <2>5. made.cases = UNION {s.cases : s \in suites}
    OBVIOUS
  <2> HIDE DEF made
  <2>6. c \in UNION {s.cases : s \in suites}
    BY <2>4, <2>5
  <2>7. PICK q \in Suites!ToSet(inquiry.packs) : c \in Suites!Generate(Suites!Reduced(q)).cases
    BY <2>6
  <2>8. Suites!Generate(Suites!Reduced(q)).ok
    BY <2>3
  <2> QED
    BY <1>3, <2>7, <2>8
<1> QED
  BY <1>2, <1>3

(* The first of the four promises: a suite is denied.                      *)
LEMMA SuitesDeny ==
    ASSUME IsAsked, SuiteMade
    PROVE  Suites!SuiteIsDenied
<1> SUFFICES ASSUME inquiry.kind \in {"verify", "gate", "release"}, suite # <<>>, suite[1].ok
             PROVE  /\ inquiry.kind # "release" =>
                         {c.rule : c \in suite[1].cases} \cup suite[1].skipped
                           = {g.id : g \in {h \in Suites!ToSet(inquiry.packs[1].guarded) : h.enabled}}
                    /\ \A c \in suite[1].cases : \A p \in Suites!ToSet(inquiry.packs) :
                         LET answer == Suites!Answer(p, {}, c.input)
                             own == \A q \in Suites!ToSet(inquiry.packs) : q.id = c.pack => q = p
                         IN (/\ IF inquiry.kind = "release" THEN own ELSE p = inquiry.packs[1]
                             /\ p.id = c.pack
                             /\ Suites!Loads(p) /\ Suites!ReadAlike(p, c.input)) =>
                              /\ answer.channel = "deny"
                              /\ (c.input.mode = "command" /\ inquiry.kind # "release") =>
                                   \/ answer.rule.name = c.rule
                                   \/ \E g \in Suites!ToSet(p.guarded) :
                                        Suites!IsPredicate(g) /\ g.id = answer.rule.name
  BY DEF Suites!SuiteIsDenied
<1>1. ASSUME inquiry.kind # "release"
      PROVE  {c.rule : c \in suite[1].cases} \cup suite[1].skipped
               = {g.id : g \in {h \in Suites!ToSet(inquiry.packs[1].guarded) : h.enabled}}
  <2> DEFINE pack == inquiry.packs[1]
  <2>1. suite[1] = Suites!Generate(pack)
    BY <1>1 DEF SuiteMade
  <2> HIDE DEF pack
  <2>2. /\ suite[1].cases = {CaseOf(pack, i) : i \in InScope(pack)}
        /\ suite[1].skipped = {pack.guarded[i].id : i \in Suites!Enabled(pack) \ InScope(pack)}
    BY <2>1, GeneratedIs
  <2>3. \A i : CaseOf(pack, i).rule = pack.guarded[i].id
    BY DEF CaseOf, Suites!Case
  <2>4. {c.rule : c \in suite[1].cases} = {pack.guarded[i].id : i \in InScope(pack)}
    BY <2>2, <2>3
  <2>5. InScope(pack) \subseteq Suites!Enabled(pack)
    BY DEF InScope
  <2>6. {g.id : g \in {h \in Suites!ToSet(pack.guarded) : h.enabled}}
          = {pack.guarded[i].id : i \in Suites!Enabled(pack)}
    BY DEF Suites!ToSet, Suites!Enabled
  <2> QED
    BY <2>2, <2>4, <2>5, <2>6 DEF pack
<1>2. ASSUME NEW c \in suite[1].cases, NEW p \in Suites!ToSet(inquiry.packs),
             IF inquiry.kind = "release"
             THEN \A q \in Suites!ToSet(inquiry.packs) : q.id = c.pack => q = p
             ELSE p = inquiry.packs[1],
             p.id = c.pack, Suites!Loads(p), Suites!ReadAlike(p, c.input)
      PROVE  LET answer == Suites!Answer(p, {}, c.input)
             IN /\ answer.channel = "deny"
                /\ (c.input.mode = "command" /\ inquiry.kind # "release") =>
                     \/ answer.rule.name = c.rule
                     \/ \E g \in Suites!ToSet(p.guarded) :
                          Suites!IsPredicate(g) /\ g.id = answer.rule.name
  <2> DEFINE answer == Suites!Answer(p, {}, c.input)
  <2>1. PICK q \in Suites!ToSet(inquiry.packs) :
             LET less == IF inquiry.kind = "release" THEN Suites!Reduced(q) ELSE q
             IN /\ inquiry.kind # "release" => q = inquiry.packs[1]
                /\ Suites!Generate(less).ok /\ c \in Suites!Generate(less).cases
    BY CasesOfPacks
  <2> DEFINE less == IF inquiry.kind = "release" THEN Suites!Reduced(q) ELSE q
  <2>2. Suites!IsPack(q)
    BY AskedPacks
  <2>3. /\ IsPartOf(less, q) /\ less.id = q.id
        /\ \A i \in DOMAIN less.guarded : Suites!IsRule(less.guarded[i])
    BY <2>2, ReducedIs, PackIsHeld DEF IsPartOf
  <2>4. Suites!Generate(less).ok /\ c \in Suites!Generate(less).cases
    BY <2>1
  <2>5. inquiry.kind # "release" => less = q /\ q = inquiry.packs[1]
    BY <2>1
  <2> HIDE DEF less, answer
  <2>6. PICK i \in InScope(less) :
             /\ c.rule = less.guarded[i].id /\ c.pack = less.id
             /\ Suites!IsInput(c.input) /\ Suites!Validates(less, less.guarded[i], c.input)
    BY <2>3, <2>4, CaseIs
  <2>7. q = p
    BY <1>2, <2>3, <2>5, <2>6
  <2>8. <<p, {}>> \in Suites!Holdings /\ IsHeld(p) /\ IsPartOf(less, p)
    BY <2>2, <2>3, <2>7, HeldPacks, PackIsHeld
  <2>9. i \in Suites!Enabled(less) /\ less.guarded[i].id \notin {}
    BY DEF InScope
  <2>10. \A j \in Suites!Enabled(less) : less.guarded[j].id = less.guarded[i].id => j = i
    BY <2>4, <2>9, GeneratedIs DEF Suites!Enabled
  <2>11. /\ answer.channel = "deny"
         /\ c.input.mode = "command" /\ less = p => TakenBy(p, less.guarded[i].id, answer.rule.name)
    <3>1. Suites!Loads(p) /\ Suites!ReadAlike(p, c.input)
      BY <1>2
    <3>2. Suites!IsInput(c.input) /\ Suites!Validates(less, less.guarded[i], c.input)
      BY <2>6
    <3>3. i \in Suites!Enabled(less) /\ less.guarded[i].id \notin {}
      BY <2>9
    <3>4. <<p, {}>> \in Suites!Holdings /\ IsHeld(p) /\ IsPartOf(less, p)
      BY <2>8
    <3>5. \A exempt, input :
            /\ <<p, exempt>> \in Suites!Holdings /\ Suites!IsInput(input) /\ Suites!ReadAlike(p, input)
            /\ Suites!Validates(less, less.guarded[i], input) /\ less.guarded[i].id \notin exempt
            => /\ Suites!Answer(p, exempt, input).channel = "deny"
               /\ input.mode = "command" /\ less = p =>
                    TakenBy(p, less.guarded[i].id, Suites!Answer(p, exempt, input).rule.name)
      BY <2>10, <3>1, <3>3, <3>4, ValidatedIsDenied
    <3> QED
      BY <3>1, <3>2, <3>3, <3>4, <3>5 DEF answer
  <2>12. ASSUME c.input.mode = "command", inquiry.kind # "release"
         PROVE  \/ answer.rule.name = c.rule
                \/ \E g \in Suites!ToSet(p.guarded) : Suites!IsPredicate(g) /\ g.id = answer.rule.name
    <3>1. TakenBy(p, c.rule, answer.rule.name)
      BY <2>5, <2>6, <2>7, <2>11, <2>12
    <3> QED
      BY <3>1 DEF TakenBy, Suites!Enabled, Suites!ToSet
  <2> QED
    BY <2>11, <2>12 DEF answer
<1> QED
  BY <1>1, <1>2

-----------------------------------------------------------------------------
(* Verification.                                                           *)

(* The community module's Cardinality is the standard one.                 *)
LEMMA CountIs ==
    ASSUME NEW S
    PROVE  Suites!Cardinality(S) = Cardinality(S)
BY DEF Suites!Cardinality, Cardinality

(* As many cases as enabled rules, and one for each: no two share an id.   *)
LEMMA VerifiedIds ==
    ASSUME NEW pack, NEW cases, IsHeld(pack), IsFiniteSet(DOMAIN pack.guarded), Suites!Verifies(pack, cases)
    PROVE  \A i, j \in Suites!Enabled(pack) : pack.guarded[i].id = pack.guarded[j].id => i = j
<1> DEFINE enabled == Suites!Enabled(pack)
           rule(i) == pack.guarded[i]
           of == [i \in enabled |-> CHOOSE c \in cases : c.rule = rule(i).id]
           named(c) == {i \in DOMAIN pack.guarded : rule(i).id = c.rule}
<1>1. /\ Cardinality(cases) = Cardinality(enabled)
      /\ \A c, d \in cases : c.rule = d.rule => c = d
      /\ \A c \in cases : named(c) # {} /\ Suites!Min(named(c)) \in enabled
      /\ \A i \in enabled : \E c \in cases : c.rule = rule(i).id
  BY CountIs DEF Suites!Verifies
<1>2. \A i \in enabled : of[i] \in cases /\ of[i].rule = rule(i).id
  BY <1>1
<1>3. ASSUME NEW c \in cases PROVE \E i \in enabled : of[i] = c
  <2>1. named(c) \subseteq Nat
    BY DEF IsHeld
  <2>2. Suites!Min(named(c)) \in named(c)
    BY <1>1, <2>1, FirstIs
  <2>3. rule(Suites!Min(named(c))).id = c.rule /\ Suites!Min(named(c)) \in enabled
    BY <1>1, <2>2
  <2> HIDE DEF of, named
  <2> QED
    BY <1>1, <1>2, <2>3
<1>4. of \in [enabled -> cases]
  <2>1. \A i \in enabled : (CHOOSE c \in cases : c.rule = rule(i).id) \in cases
    BY <1>1
  <2> QED
    BY <2>1
<1>5. of \in Surjection(enabled, cases)
  <2> HIDE DEF of
  <2> QED
    BY <1>3, <1>4 DEF Surjection
<1>6. IsFiniteSet(enabled)
  BY FS_Subset DEF Suites!Enabled
<1>7. of \in Injection(enabled, cases)
  <2> HIDE DEF of, enabled
  <2> QED
    BY <1>1, <1>5, <1>6, FS_SurjSameCardinalityImpliesInj
<1>8. \A i, j \in enabled : of[i] = of[j] => i = j
  <2> HIDE DEF of, enabled
  <2> QED
    BY <1>4, <1>7 DEF Injection, IsInjective
<1>9. ASSUME NEW i \in enabled, NEW j \in enabled, rule(i).id = rule(j).id
      PROVE  i = j
  <2>1. of[i] = of[j]
    BY <1>9
  <2> QED
    BY <1>8, <2>1
<1> QED
  BY <1>9

(* A suite verifies the pack that it was made of, if no rule was skipped.  *)
LEMMA OwnSuite ==
    ASSUME NEW pack, Suites!IsPack(pack), Suites!Generate(pack).ok
    PROVE  Suites!Verifies(pack, Suites!Generate(pack).cases) <=> Suites!Generate(pack).skipped = {}
<1> DEFINE cases == Suites!Generate(pack).cases
           skipped == Suites!Generate(pack).skipped
           enabled == Suites!Enabled(pack)
           scope == InScope(pack)
           rule(i) == pack.guarded[i]
<1>1. /\ \A i, j \in DOMAIN pack.guarded : rule(i).id = rule(j).id => i = j
      /\ cases = {CaseOf(pack, i) : i \in scope}
      /\ skipped = {rule(i).id : i \in enabled \ scope}
  BY GeneratedIs
<1>2. \A i : CaseOf(pack, i).rule = rule(i).id
  BY DEF CaseOf, Suites!Case
<1>3. scope \subseteq enabled /\ enabled \subseteq DOMAIN pack.guarded
  BY DEF InScope, Suites!Enabled
<1> HIDE DEF cases, skipped, scope
<1>4. ASSUME Suites!Verifies(pack, cases)
      PROVE  skipped = {}
  <2> SUFFICES ASSUME NEW i \in enabled \ scope PROVE FALSE
    BY <1>1
  <2>1. PICK c \in cases : c.rule = rule(i).id
    BY <1>4 DEF Suites!Verifies
  <2>2. PICK j \in scope : c = CaseOf(pack, j)
    BY <1>1
  <2>3. i = j
    BY <1>1, <1>2, <1>3, <2>1, <2>2
  <2> QED
    BY <2>3
<1>5. ASSUME skipped = {}
      PROVE  Suites!Verifies(pack, cases)
  <2>1. scope = enabled
    <3>1. \A i \in enabled \ scope : rule(i).id \in skipped
      BY <1>1
    <3> QED
      BY <1>3, <1>5, <3>1
  <2>2. IsFiniteSet(enabled) /\ DOMAIN pack.guarded \subseteq Nat
    <3>1. IsFiniteSet(DOMAIN pack.guarded) /\ DOMAIN pack.guarded \subseteq Nat
      BY PackIsHeld DEF IsHeld
    <3> QED
      BY <1>3, <3>1, FS_Subset
  <2>3. Cardinality(cases) = Cardinality(enabled)
    <3> DEFINE of == [i \in enabled |-> CaseOf(pack, i)]
    <3> HIDE DEF enabled
    <3>1. of \in Bijection(enabled, cases)
      <4>1. of \in [enabled -> cases] /\ \A c \in cases : \E i \in enabled : of[i] = c
        BY <1>1, <2>1
      <4>2. \A i, j \in enabled : of[i] = of[j] => i = j
        BY <1>1, <1>2, <1>3
      <4> HIDE DEF of
      <4> QED
        BY <4>1, <4>2 DEF Bijection, Injection, Surjection, IsInjective
    <3> QED
      BY <2>2, <3>1, FS_Bijection DEF ExistsBijection
  <2>4. \A c, d \in cases : c.rule = d.rule => c = d
    BY <1>1, <1>2, <1>3
  <2>5. ASSUME NEW c \in cases
        PROVE  LET named == {i \in DOMAIN pack.guarded : rule(i).id = c.rule}
               IN /\ c.pack = pack.id
                  /\ named # {} /\ Suites!Min(named) \in enabled
                  /\ Suites!Validates(pack, rule(Suites!Min(named)), c.input)
    <3>1. \A i \in DOMAIN pack.guarded : Suites!IsRule(rule(i))
      BY PackIsHeld
    <3>2. PICK i \in scope : c.rule = rule(i).id /\ c.pack = pack.id
                             /\ Suites!Validates(pack, rule(i), c.input)
      BY <3>1, CaseIs DEF cases, scope
    <3>3. {j \in DOMAIN pack.guarded : rule(j).id = c.rule} = {i}
      BY <1>1, <1>3, <3>2
    <3>4. Suites!Min({i}) = i
      BY <1>3, <2>2, FirstOf
    <3> QED
      BY <1>3, <3>2, <3>3, <3>4
  <2>6. \A i \in enabled : \E c \in cases : c.rule = rule(i).id
    BY <1>1, <1>2, <2>1
  <2>7. Suites!Cardinality(cases) = Suites!Cardinality(enabled)
    BY <2>3, CountIs
  <2> QED
    BY <2>4, <2>5, <2>6, <2>7 DEF Suites!Verifies
<1> QED
  BY <1>4, <1>5 DEF cases, skipped

(* A pack that a suite verifies denies a case of each of its rules.        *)
LEMMA VerifiedPack ==
    ASSUME NEW pack \in Suites!ToSet(inquiry.packs), Suites!IsPack(pack), NEW cases,
           \A c \in cases : Suites!IsInput(c.input), Suites!Verifies(pack, cases), Suites!Loads(pack),
           NEW i \in Suites!Enabled(pack)
    PROVE  \E c \in cases :
             /\ c.rule = pack.guarded[i].id
             /\ Suites!ReadAlike(pack, c.input) => Suites!Answer(pack, {}, c.input).channel = "deny"
<1>1. IsHeld(pack) /\ IsFiniteSet(DOMAIN pack.guarded)
  BY PackIsHeld
<1>2. PICK c \in cases : c.rule = pack.guarded[i].id
  BY DEF Suites!Verifies
<1> DEFINE named == {j \in DOMAIN pack.guarded : pack.guarded[j].id = c.rule}
           m == Suites!Min(named)
<1>3. named # {} /\ m \in Suites!Enabled(pack) /\ Suites!Validates(pack, pack.guarded[m], c.input)
  BY DEF Suites!Verifies
<1> HIDE DEF m
<1>4. \A k, j \in Suites!Enabled(pack) : pack.guarded[k].id = pack.guarded[j].id => k = j
  BY <1>1, VerifiedIds
<1>5. <<pack, {}>> \in Suites!Holdings /\ IsPartOf(pack, pack) /\ pack.guarded[m].id \notin {}
  BY HeldPacks DEF IsPartOf
<1>6. ASSUME Suites!ReadAlike(pack, c.input)
      PROVE  Suites!Answer(pack, {}, c.input).channel = "deny"
  <2>1. \A exempt, input :
          /\ <<pack, exempt>> \in Suites!Holdings /\ Suites!IsInput(input) /\ Suites!ReadAlike(pack, input)
          /\ Suites!Validates(pack, pack.guarded[m], input) /\ pack.guarded[m].id \notin exempt
          => Suites!Answer(pack, exempt, input).channel = "deny"
    BY <1>1, <1>3, <1>4, <1>5, ValidatedIsDenied
  <2>2. Suites!IsInput(c.input)
    OBVIOUS
  <2> QED
    BY <1>3, <1>5, <1>6, <2>1, <2>2
<1> QED
  BY <1>2, <1>6

(* What the suite was told to verify, and said of it.                      *)
VerdictGiven ==
    verdict # <<>> /\ inquiry.kind \in {"verify", "gate"} =>
        /\ suite # <<>> /\ suite[1].ok
        /\ inquiry.kind = "verify" =>
             (verdict[1] <=> Suites!Verifies(inquiry.packs[2], suite[1].cases))
        /\ inquiry.kind = "gate" =>
             (verdict[1] <=> Suites!PassesGate(inquiry.packs[1], suite[1].cases, inquiry.exempt))

(* What was verified was made of the first pack.                           *)
LEMMA MadeOfFirst ==
    ASSUME IsAsked, SuiteMade, VerdictGiven, inquiry.kind \in {"verify", "gate"}, verdict # <<>>
    PROVE  /\ inquiry.packs[1] \in Suites!ToSet(inquiry.packs) /\ Suites!IsPack(inquiry.packs[1])
           /\ suite[1] = Suites!Generate(inquiry.packs[1]) /\ Suites!Generate(inquiry.packs[1]).ok
           /\ \A c \in suite[1].cases : Suites!IsInput(c.input)
<1>1. inquiry.packs[1] \in Suites!ToSet(inquiry.packs) /\ Suites!IsPack(inquiry.packs[1])
  BY AskedPacks
<1>2. suite # <<>> /\ suite[1].ok
  BY DEF VerdictGiven
<1>3. suite[1] = Suites!Generate(inquiry.packs[1])
  BY <1>2 DEF SuiteMade
<1>4. Suites!Generate(inquiry.packs[1]).ok
  BY <1>2, <1>3
<1>5. \A i \in DOMAIN inquiry.packs[1].guarded : Suites!IsRule(inquiry.packs[1].guarded[i])
  BY <1>1, PackIsHeld
<1>6. \A c \in suite[1].cases : Suites!IsInput(c.input)
  BY <1>3, <1>4, <1>5, CaseIs
<1> QED
  BY <1>1, <1>3, <1>4, <1>6

(* The second promise: a pack that verifies denies.                        *)
LEMMA VerifiedDenies ==
    ASSUME IsAsked, SuiteMade, VerdictGiven
    PROVE  Suites!VerifiedIsDenied
<1> DEFINE pack == inquiry.packs[2]
           cases == suite[1].cases
<1> SUFFICES ASSUME inquiry.kind = "verify", verdict # <<>>
             PROVE  /\ pack = inquiry.packs[1] => (verdict[1] <=> suite[1].skipped = {})
                    /\ verdict[1] /\ Suites!Loads(pack) =>
                         \A g \in {h \in Suites!ToSet(pack.guarded) : h.enabled} : \E c \in cases :
                           /\ c.rule = g.id
                           /\ Suites!ReadAlike(pack, c.input) =>
                                Suites!Answer(pack, {}, c.input).channel = "deny"
  BY DEF Suites!VerifiedIsDenied
<1>1. verdict[1] <=> Suites!Verifies(pack, cases)
  BY DEF VerdictGiven
<1>2. /\ Suites!IsPack(inquiry.packs[1]) /\ suite[1] = Suites!Generate(inquiry.packs[1])
      /\ Suites!Generate(inquiry.packs[1]).ok /\ \A c \in cases : Suites!IsInput(c.input)
  BY MadeOfFirst
<1>3. pack \in Suites!ToSet(inquiry.packs) /\ Suites!IsPack(pack)
  BY AskedPacks
<1> HIDE DEF pack, cases
<1>4. ASSUME pack = inquiry.packs[1]
      PROVE  verdict[1] <=> suite[1].skipped = {}
  <2>1. Suites!Verifies(pack, Suites!Generate(pack).cases) <=> Suites!Generate(pack).skipped = {}
    BY <1>2, <1>4, OwnSuite
  <2> QED
    BY <1>1, <1>2, <1>4, <2>1 DEF cases
<1>5. ASSUME verdict[1], Suites!Loads(pack),
             NEW g \in {h \in Suites!ToSet(pack.guarded) : h.enabled}
      PROVE  \E c \in cases :
               /\ c.rule = g.id
               /\ Suites!ReadAlike(pack, c.input) => Suites!Answer(pack, {}, c.input).channel = "deny"
  <2>1. PICK i \in Suites!Enabled(pack) : g = pack.guarded[i]
    BY DEF Suites!ToSet, Suites!Enabled
  <2>2. Suites!Verifies(pack, cases)
    BY <1>1, <1>5
  <2>3. \A c \in cases : Suites!IsInput(c.input)
    BY <1>2
  <2>4. Suites!Loads(pack)
    BY <1>5
  <2> QED
    BY <1>3, <2>1, <2>2, <2>3, <2>4, VerifiedPack
<1> QED
  BY <1>4, <1>5

(* What an override that does not pass the gate is held back for.          *)
LEMMA HeldBackFairly ==
    ASSUME NEW pack \in Suites!ToSet(inquiry.packs), Suites!IsPack(pack), Suites!Generate(pack).ok,
           Suites!Generate(pack).skipped = {}, Suites!Loads(pack), inquiry.kind = "gate",
           NEW c \in Suites!Generate(pack).cases, Suites!ReadAlike(pack, c.input),
           c.rule \in inquiry.exempt <=> Suites!DeniedBy(Suites!Answer(pack, inquiry.exempt, c.input), c.rule)
    PROVE  /\ c.rule \notin inquiry.exempt /\ c.input.mode = "content"
           /\ \E g \in {g \in Suites!ToSet(pack.guarded) : g.enabled} :
                g.id # c.rule /\ Suites!Hits(g, c.input.text)
<1> DEFINE exempt == inquiry.exempt
           answer == Suites!Answer(pack, exempt, c.input)
<1>1. /\ <<pack, exempt>> \in Suites!Holdings /\ IsHeld(pack) /\ IsPartOf(pack, pack)
      /\ \A i \in DOMAIN pack.guarded : Suites!IsRule(pack.guarded[i])
  BY HeldPacks, PackIsHeld DEF IsPartOf
<1>2. PICK i \in InScope(pack) :
         /\ c.rule = pack.guarded[i].id
         /\ Suites!IsInput(c.input) /\ Suites!Validates(pack, pack.guarded[i], c.input)
  BY <1>1, CaseIs
<1>3. i \in Suites!Enabled(pack)
  BY DEF InScope
<1>4. \A j, k \in DOMAIN pack.guarded : pack.guarded[j].id = pack.guarded[k].id => j = k
  BY GeneratedIs
<1>5. \A j \in Suites!Enabled(pack) : ~ Suites!IsPredicate(pack.guarded[j])
  <2> SUFFICES ASSUME NEW j \in Suites!Enabled(pack) PROVE ~ Suites!IsPredicate(pack.guarded[j])
    OBVIOUS
  <2>1. \A k \in Suites!Enabled(pack) \ InScope(pack) :
          pack.guarded[k].id \in Suites!Generate(pack).skipped
    <3>1. Suites!Generate(pack).skipped =
            {pack.guarded[k].id : k \in Suites!Enabled(pack) \ InScope(pack)}
      BY GeneratedIs
    <3> QED
      BY <3>1
  <2>2. j \in InScope(pack)
    BY <2>1
  <2> QED
    BY <2>2 DEF InScope, Suites!OutOfScope
<1>6. c.rule \notin exempt
  <2>1. Spares(answer, exempt)
    BY <1>1, <1>2, AnswerSpares
  <2> HIDE DEF answer
  <2>2. ASSUME c.rule \in exempt PROVE FALSE
    <3>1. answer.channel = "deny" /\ answer.rule.name = c.rule
      BY <2>2 DEF Suites!DeniedBy, answer
    <3> QED
      BY <2>1, <2>2, <3>1 DEF Spares
  <2> QED
    BY <2>2
<1>7. ~ (answer.channel = "deny" /\ answer.rule.name = c.rule)
  BY <1>6 DEF Suites!DeniedBy
<1>8. /\ answer.channel = "deny"
      /\ c.input.mode = "command" => TakenBy(pack, c.rule, answer.rule.name)
      /\ c.input.mode = "content" =>
           \E d \in Suites!Enabled(pack) :
             Suites!Hits(pack.guarded[d], c.input.text) /\ answer.rule.name = pack.guarded[d].id
  <2>1. \A j \in Suites!Enabled(pack) : pack.guarded[j].id = pack.guarded[i].id => j = i
    BY <1>3, <1>4 DEF Suites!Enabled
  <2>2. \A input :
          /\ Suites!IsInput(input) /\ Suites!ReadAlike(pack, input)
          /\ Suites!Validates(pack, pack.guarded[i], input)
          => LET a == Suites!Answer(pack, exempt, input)
             IN /\ a.channel = "deny"
                /\ input.mode = "command" => TakenBy(pack, pack.guarded[i].id, a.rule.name)
                /\ input.mode = "content" =>
                     \E d \in Suites!Enabled(pack) :
                       Suites!Hits(pack.guarded[d], input.text) /\ a.rule.name = pack.guarded[d].id
    BY <1>1, <1>2, <1>3, <1>6, <2>1, ValidatedIsDenied
  <2> QED
    BY <1>2, <2>2
<1> HIDE DEF answer
<1>9. c.input.mode # "command"
  <2>1. ~ TakenBy(pack, c.rule, answer.rule.name)
    BY <1>5, <1>7, <1>8 DEF TakenBy
  <2> QED
    BY <1>8, <2>1
<1>10. c.input.mode = "content"
  BY <1>2, <1>9 DEF Suites!IsInput
<1>11. PICK d \in Suites!Enabled(pack) :
          Suites!Hits(pack.guarded[d], c.input.text) /\ answer.rule.name = pack.guarded[d].id
  BY <1>8, <1>10
<1>12. pack.guarded[d] \in {g \in Suites!ToSet(pack.guarded) : g.enabled} /\ pack.guarded[d].id # c.rule
  BY <1>7, <1>8, <1>11 DEF Suites!Enabled, Suites!ToSet
<1> QED
  BY <1>6, <1>10, <1>11, <1>12

(* The third promise: the gate passes an override exactly for what it      *)
(* does.                                                                   *)
LEMMA GateIsFairly ==
    ASSUME IsAsked, SuiteMade, VerdictGiven
    PROVE  Suites!GateIsFair
<1> DEFINE pack == inquiry.packs[1]
           exempt == inquiry.exempt
           cases == suite[1].cases
           enabled == {g \in Suites!ToSet(pack.guarded) : g.enabled}
           denies(c, id) == Suites!DeniedBy(Suites!Answer(pack, exempt, c.input), id)
<1> SUFFICES ASSUME inquiry.kind = "gate", verdict # <<>>
             PROVE  IF verdict[1]
                    THEN \A g \in enabled : \E c \in cases :
                           c.rule = g.id /\ (g.id \notin exempt <=> denies(c, g.id))
                    ELSE \/ ~ Suites!ExemptsDenials(pack, exempt)
                         \/ suite[1].skipped # {} \/ ~ Suites!Loads(pack)
                         \/ \E c \in cases :
                              /\ c.rule \notin exempt
                              /\ \/ ~ Suites!ReadAlike(pack, c.input)
                                 \/ /\ c.input.mode = "content"
                                    /\ \E g \in enabled : g.id # c.rule /\ Suites!Hits(g, c.input.text)
  BY DEF Suites!GateIsFair
<1>1. verdict[1] <=> Suites!PassesGate(pack, cases, exempt)
  BY DEF VerdictGiven
<1>2. Suites!PassesGate(pack, cases, exempt) <=>
        /\ Suites!ExemptsDenials(pack, exempt)
        /\ Suites!Verifies(pack, cases) /\ Suites!Loads(pack)
        /\ \A c \in cases : ~ (c.rule \in exempt <=> denies(c, c.rule))
  BY DEF Suites!PassesGate, Suites!DeniedBy
<1>3. /\ pack \in Suites!ToSet(inquiry.packs) /\ Suites!IsPack(pack)
      /\ suite[1] = Suites!Generate(pack) /\ Suites!Generate(pack).ok
  BY MadeOfFirst
<1> HIDE DEF pack, denies
<1>4. ASSUME verdict[1], NEW g \in enabled
      PROVE  \E c \in cases : c.rule = g.id /\ (g.id \notin exempt <=> denies(c, g.id))
  <2>1. PICK i \in Suites!Enabled(pack) : g = pack.guarded[i]
    BY DEF Suites!ToSet, Suites!Enabled
  <2>2. PICK c \in cases : c.rule = g.id
    BY <1>1, <1>2, <1>4, <2>1 DEF Suites!Verifies
  <2> QED
    BY <1>1, <1>2, <1>4, <2>2
<1>5. ASSUME ~ verdict[1], Suites!ExemptsDenials(pack, exempt), suite[1].skipped = {}, Suites!Loads(pack)
      PROVE  \E c \in cases :
               /\ c.rule \notin exempt
               /\ \/ ~ Suites!ReadAlike(pack, c.input)
                  \/ /\ c.input.mode = "content"
                     /\ \E g \in enabled : g.id # c.rule /\ Suites!Hits(g, c.input.text)
  <2>1. Suites!Verifies(pack, cases)
    BY <1>3, <1>5, OwnSuite
  <2>2. PICK c \in cases : c.rule \in exempt <=> denies(c, c.rule)
    BY <1>1, <1>2, <1>5, <2>1
  <2>3. c \in Suites!Generate(pack).cases
    BY <1>3
  <2>4. CASE Suites!ReadAlike(pack, c.input)
    <3>1. c.rule \in exempt <=> Suites!DeniedBy(Suites!Answer(pack, exempt, c.input), c.rule)
      BY <2>2 DEF denies
    <3>2. Suites!Generate(pack).skipped = {} /\ Suites!Loads(pack)
      BY <1>3, <1>5
    <3>3. /\ c.rule \notin exempt /\ c.input.mode = "content"
          /\ \E g \in enabled : g.id # c.rule /\ Suites!Hits(g, c.input.text)
      BY <1>3, <2>3, <2>4, <3>1, <3>2, HeldBackFairly
    <3> QED
      BY <3>3
  <2>5. CASE ~ Suites!ReadAlike(pack, c.input)
    <3>1. \E i \in InScope(pack) : Suites!IsInput(c.input)
      <4>1. \A i \in DOMAIN pack.guarded : Suites!IsRule(pack.guarded[i])
        BY <1>3, PackIsHeld
      <4> QED
        BY <1>3, <2>3, <4>1, CaseIs
    <3>2. <<pack, exempt>> \in Suites!Holdings /\ IsHeld(pack)
      BY <1>3, HeldPacks, PackIsHeld
    <3>3. Spares(Suites!Answer(pack, exempt, c.input), exempt)
      BY <1>5, <3>1, <3>2, AnswerSpares
    <3>4. ASSUME c.rule \in exempt PROVE FALSE
      BY <2>2, <3>3, <3>4 DEF denies, Suites!DeniedBy, Spares
    <3> QED
      BY <2>5, <3>4
  <2> QED
    BY <2>4, <2>5
<1> QED
  BY <1>4, <1>5

-----------------------------------------------------------------------------
(* Curation.                                                               *)

(* A pack without its broken patterns.                                     *)
LEMMA IntactIs ==
    ASSUME NEW pack, Suites!IsPack(pack)
    PROVE  LET whole == Suites!Intact(pack)
           IN /\ whole.keywords = pack.keywords /\ whole.globs = pack.globs
              /\ DOMAIN whole.safe = {i \in DOMAIN pack.safe : ~ pack.safe[i].broken}
              /\ \A i \in DOMAIN whole.safe : whole.safe[i] = pack.safe[i]
              /\ DOMAIN whole.guarded = {i \in DOMAIN pack.guarded : ~ pack.guarded[i].broken}
              /\ \A i \in DOMAIN whole.guarded : whole.guarded[i] = pack.guarded[i]
              /\ IsHeld(whole) /\ Suites!Loads(whole)
              /\ Suites!IsPlain(pack) => Suites!IsPlain(whole)
<1> DEFINE whole == Suites!Intact(pack)
           safes == {i \in DOMAIN pack.safe : ~ pack.safe[i].broken}
           rules == {i \in DOMAIN pack.guarded : ~ pack.guarded[i].broken}
<1>1. whole = [pack EXCEPT !.safe = Suites!At(pack.safe, safes), !.guarded = Suites!At(pack.guarded, rules)]
  BY DEF Suites!Intact
<1>2. "safe" \in DOMAIN pack /\ "guarded" \in DOMAIN pack
  BY DEF Suites!IsPack
<1> HIDE DEF whole, safes, rules
<1>3. /\ whole.keywords = pack.keywords /\ whole.globs = pack.globs
      /\ whole.safe = Suites!At(pack.safe, safes) /\ whole.guarded = Suites!At(pack.guarded, rules)
  BY <1>1, <1>2
<1>4. /\ DOMAIN whole.safe = safes /\ \A i \in safes : whole.safe[i] = pack.safe[i]
      /\ DOMAIN whole.guarded = rules /\ \A i \in rules : whole.guarded[i] = pack.guarded[i]
  BY <1>3 DEF Suites!At
<1>5. IsHeld(pack)
  BY PackIsHeld
<1>6. IsHeld(whole)
  BY <1>4, <1>5 DEF IsHeld, safes, rules
<1>7. Suites!Loads(whole)
  BY <1>4 DEF Suites!Loads, Suites!ToSet, safes, rules
<1>8. Suites!IsPlain(pack) => Suites!IsPlain(whole)
  BY <1>4 DEF Suites!IsPlain, Suites!ToSet, safes, rules
<1> QED
  BY <1>3, <1>4, <1>6, <1>7, <1>8 DEF whole, safes, rules

(* Where a recorded input is settled: no rule asks for state.              *)
NoState(pack) == ~ \E g \in Suites!ToSet(pack.guarded) : Suites!IsPredicate(g)

(* An input that the curation and the engine read alike.                   *)
SameRead(pack, input) == input.mode = "content" \/ pack.keywords = {} \/ Suites!ReadAlike(pack, input)

(* The texts of an input are at places of a list.                          *)
LEMMA TextPlaces ==
    ASSUME NEW pack, NEW input, Suites!IsInput(input), SameRead(pack, input)
    PROVE  DOMAIN Suites!Texts(pack, input) \subseteq Nat
<1>1. CASE input.mode = "content"
  BY <1>1 DEF Suites!Texts, Suites!At
<1>2. CASE input.mode = "command" /\ pack.keywords = {}
  BY <1>2 DEF Suites!Texts
<1>3. CASE input.mode = "command" /\ pack.keywords # {}
  <2>1. Suites!IsList(input.tokens) /\ Suites!Segments(input.words) = input.tokens
    BY <1>3 DEF SameRead, Suites!ReadAlike, Suites!IsInput
  <2>2. DOMAIN input.tokens \subseteq Nat
    BY <2>1, ListIs
  <2>3. DOMAIN Suites!Texts(pack, input) \subseteq DOMAIN input.tokens
    BY <1>3, <2>1 DEF Suites!Texts, Suites!Considered, Suites!At
  <2> QED
    BY <2>2, <2>3
<1> QED
  BY <1>1, <1>2, <1>3 DEF Suites!IsInput

(* What a recorded case reaches is what the engine denies it by.           *)
LEMMA ReachedIs ==
    ASSUME NEW pack, Suites!IsPack(pack), Suites!IsPlain(pack), NoState(pack),
           <<Suites!Intact(pack), {}>> \in Suites!Holdings,
           NEW case, Suites!IsInput(case.input), SameRead(pack, case.input),
           Suites!Reached(pack, case).kind # "error"
    PROVE  LET answer == Suites!Answer(Suites!Intact(pack), {}, case.input)
               reached == Suites!Reached(pack, case)
           IN /\ reached.kind = "kept" <=> answer.channel = "deny"
              /\ reached.kind = "kept" => reached.rule = answer.rule.name
<1> DEFINE whole == Suites!Intact(pack)
           input == case.input
           mode == input.mode
           texts == Suites!Texts(pack, input)
           rule(i) == pack.guarded[i]
           reached == Suites!Reached(pack, case)
           answer == Suites!Answer(whole, {}, input)
           owns(g) == Suites!IsPredicate(g) /\ g.id = case.rule
           asks == {i \in Suites!Enabled(pack) : /\ rule(i).channel = "deny"
                                                 /\ rule(i).check = mode \/ owns(rule(i))}
           safe(k) == Suites!SafeEnds(pack, mode, texts[k])
           rules(k) == {i \in asks : owns(rule(i)) \/ Suites!Ends(rule(i), texts[k])}
           faulty(k) == safe(k) # {} /\ pack.safe[Suites!Min(safe(k))].broken
           ends == {k \in DOMAIN texts : faulty(k) \/ (safe(k) = {} /\ rules(k) # {})}
           e == Suites!Min(ends)
           f == Suites!Min(rules(e))
           denials(k) == Denials(whole, {}, mode, texts[k])
           denied == DeniedAt(whole, {}, mode, texts)
<1>1. reached = IF ends = {} THEN [kind |-> "dropped"]
                ELSE IF faulty(e) \/ rule(f).broken THEN [kind |-> "error"]
                ELSE [kind |-> "kept", rule |-> rule(f).id]
  BY DEF Suites!Reached
<1>2. /\ whole.keywords = pack.keywords /\ whole.globs = pack.globs
      /\ DOMAIN whole.safe = {i \in DOMAIN pack.safe : ~ pack.safe[i].broken}
      /\ \A i \in DOMAIN whole.safe : whole.safe[i] = pack.safe[i]
      /\ DOMAIN whole.guarded = {i \in DOMAIN pack.guarded : ~ rule(i).broken}
      /\ \A i \in DOMAIN whole.guarded : whole.guarded[i] = rule(i)
      /\ IsHeld(whole) /\ Suites!Loads(whole) /\ Suites!IsPlain(whole)
  BY IntactIs
<1>3. IsHeld(pack)
  BY PackIsHeld
<1>4. \A i \in DOMAIN pack.guarded : ~ Suites!IsPredicate(rule(i))
  BY DEF NoState, Suites!ToSet
<1>5. \A i \in DOMAIN pack.safe : ~ Suites!IsPredicate(pack.safe[i])
  BY DEF Suites!IsPlain, Suites!ToSet
<1>6. mode \in {"content", "command"}
  BY DEF Suites!IsInput
<1>7. DOMAIN texts \subseteq Nat
  BY TextPlaces
<1>8. Reports(answer, whole, {}, mode, texts)
  <2>1. Suites!Texts(whole, input) = texts
    BY <1>2 DEF Suites!Texts, Suites!SelectsFile, Suites!Considered
  <2>2. Alike(whole, input)
    BY <1>2 DEF Alike, SameRead, Suites!ReadAlike
  <2> HIDE DEF whole, texts
  <2>3. Reports(answer, whole, {}, mode, Suites!Texts(whole, input))
    BY <1>2, <2>2, AnswerIs DEF whole
  <2> QED
    BY <2>1, <2>3
<1> HIDE DEF whole, texts, answer, reached
<1>9. \A k : \A i \in DOMAIN pack.guarded :
        Sees(rule(i), mode, texts[k]) <=> rule(i).check = mode /\ Suites!Hits(rule(i), texts[k])
  BY <1>4, <1>6 DEF Sees, OwnChecks, Unconditioned, Suites!IsPredicate
<1>10. \A k : \A i \in DOMAIN pack.safe :
         Sees(pack.safe[i], mode, texts[k]) <=> pack.safe[i].check = mode /\ Suites!Hits(pack.safe[i], texts[k])
  BY <1>5, <1>6 DEF Sees, OwnChecks, Unconditioned, Suites!IsPredicate
<1>11. \A k : /\ rules(k) \subseteq Nat /\ safe(k) \subseteq Nat
              /\ safe(k) \subseteq DOMAIN pack.safe
  BY <1>3 DEF IsHeld, Suites!Enabled, Suites!SafeEnds, Suites!OfCheck
<1>12. \A k : denials(k) = {i \in rules(k) : ~ rule(i).broken}
  <2>1. \A i \in DOMAIN pack.guarded : ~ owns(rule(i))
    BY <1>4
  <2>2. \A k, i : i \in denials(k) <=>
                    /\ i \in DOMAIN pack.guarded /\ ~ rule(i).broken /\ rule(i).enabled
                    /\ rule(i).channel = "deny" /\ rule(i).check = mode /\ Suites!Hits(rule(i), texts[k])
    BY <1>2, <1>9 DEF Denials
  <2>3. \A k, i : i \in rules(k) <=>
                    /\ i \in DOMAIN pack.guarded /\ rule(i).enabled /\ rule(i).channel = "deny"
                    /\ rule(i).check = mode /\ Suites!Ends(rule(i), texts[k])
    BY <2>1 DEF Suites!Enabled
  <2> HIDE DEF denials, rules
  <2>4. \A k, i : i \in denials(k) <=> i \in rules(k) /\ ~ rule(i).broken
    BY <2>2, <2>3 DEF Suites!Ends
  <2> QED
    BY <2>4
<1>13. \A k : Excused(whole, mode, texts[k]) <=> \E i \in safe(k) : ~ pack.safe[i].broken
  BY <1>2, <1>10 DEF Excused, Suites!SafeEnds, Suites!OfCheck, Suites!Ends
<1> HIDE DEF safe, rules, denials, e, f
<1>14. ASSUME NEW k \in denied
       PROVE  k \in ends
  <2>1. /\ k \in DOMAIN texts /\ denials(k) # {}
        /\ ~ \E i \in safe(k) : ~ pack.safe[i].broken
    BY <1>13, <1>14 DEF DeniedAt, Denied, denials
  <2>2. rules(k) # {}
    BY <1>12, <2>1
  <2>3. safe(k) # {} => Suites!Min(safe(k)) \in safe(k)
    BY <1>11, FirstIs
  <2> QED
    BY <2>1, <2>2, <2>3
<1>15. denied \subseteq Nat
  BY <1>7 DEF DeniedAt
<1>16. CASE ends = {}
  <2>1. denied = {}
    BY <1>14, <1>16
  <2>2. answer.channel # "deny"
    BY <1>8, <2>1 DEF Reports
  <2>3. reached.kind = "dropped"
    BY <1>1, <1>16
  <2> QED
    BY <2>2, <2>3 DEF answer, reached, whole
<1>17. CASE ends # {}
  <2>1. ~ faulty(e) /\ ~ rule(f).broken /\ reached = [kind |-> "kept", rule |-> rule(f).id]
    BY <1>1, <1>17 DEF reached
  <2>2. e \in ends /\ \A k \in ends : e <= k
    <3>1. ends \subseteq Nat
      BY <1>7
    <3> QED
      BY <1>17, <3>1, FirstIs DEF e
  <2>3. safe(e) = {} /\ rules(e) # {} /\ e \in DOMAIN texts
    BY <2>1, <2>2
  <2>4. f \in rules(e) /\ \A i \in rules(e) : f <= i
    BY <1>11, <2>3, FirstIs DEF f
  <2>5. f \in denials(e) /\ \A i \in denials(e) : f <= i
    BY <1>12, <2>1, <2>4
  <2>6. Suites!Min(denials(e)) = f
    <3>1. denials(e) \subseteq Nat
      BY <1>11, <1>12
    <3> QED
      BY <2>5, <3>1, FirstOf
  <2>7. e \in denied
    BY <1>13, <2>3, <2>5 DEF DeniedAt, Denied, denials
  <2>8. Suites!Min(denied) = e
    BY <1>14, <1>15, <2>2, <2>7, FirstOf
  <2>9. answer.channel = "deny" /\ answer.rule = Suites!Key(whole.guarded[f], {})
    BY <1>8, <2>6, <2>7, <2>8 DEF Reports, denials
  <2>10. f \in DOMAIN whole.guarded
    BY <2>5 DEF denials, Denials
  <2>11. answer.rule.name = rule(f).id
    BY <1>2, <2>9, <2>10 DEF Suites!Key
  <2> QED
    BY <2>1, <2>9, <2>11 DEF answer, reached, whole
<1> QED
  BY <1>16, <1>17

(* Of some places, those that have at most n places up to them are n, if   *)
(* there are more.                                                         *)
LEMMA FirstPlaces ==
    ASSUME NEW S \in SUBSET Nat, IsFiniteSet(S), NEW n \in Nat,
           NEW last \in S, Cardinality({j \in S : j <= last}) > n
    PROVE  Cardinality({i \in S : Cardinality({j \in S : j <= i}) <= n}) = n
<1> DEFINE upto(i) == {j \in S : j <= i}
           rank == [i \in S |-> Cardinality(upto(i))]
           few == {i \in S : rank[i] <= n}
           all == 1..Cardinality(S)
<1>1. ASSUME NEW i \in S
      PROVE  rank[i] \in all
  <2>1. upto(i) \in SUBSET S /\ upto(i) # {}
    OBVIOUS
  <2> HIDE DEF upto
  <2>2. IsFiniteSet(upto(i)) /\ Cardinality(upto(i)) <= Cardinality(S)
    BY <2>1, FS_Subset
  <2>3. Cardinality(upto(i)) \in Nat /\ Cardinality(S) \in Nat
    BY <2>2, FS_CardinalityType
  <2>4. Cardinality(upto(i)) # 0
    BY <2>1, <2>2, FS_EmptySet
  <2> QED
    BY <2>2, <2>3, <2>4
<1>2. ASSUME NEW i \in S, NEW k \in S, i < k
      PROVE  rank[i] # rank[k]
  <2>1. upto(i) \in SUBSET upto(k) /\ k \in upto(k) /\ k \notin upto(i) /\ upto(k) \in SUBSET S
    <3>1. \A j \in S : j <= i => j <= k
      BY <1>2
    <3>2. k <= k /\ ~ (k <= i)
      BY <1>2
    <3> QED
      BY <3>1, <3>2
  <2> HIDE DEF upto
  <2>2. IsFiniteSet(upto(k))
    BY <2>1, FS_Subset
  <2>3. Cardinality(upto(k)) = Cardinality(upto(i)) => upto(k) = upto(i)
    BY <2>1, <2>2, FS_Subset
  <2> QED
    BY <2>1, <2>3
<1>3. \A i, k \in S : rank[i] = rank[k] => i = k
  <2> HIDE DEF rank
  <2>1. \A i, k \in S : i < k => rank[i] # rank[k]
    BY <1>2
  <2>2. \A i, k \in S : i < k \/ k < i \/ i = k
    OBVIOUS
  <2> QED
    BY <2>1, <2>2
<1>4. rank \in Injection(S, all)
  <2>1. rank \in [S -> all]
    BY <1>1
  <2> HIDE DEF rank, all
  <2> QED
    BY <1>3, <2>1 DEF Injection, IsInjective
<1>5. Cardinality(S) \in Nat
  BY FS_CardinalityType
<1>6. IsFiniteSet(all) /\ Cardinality(all) = Cardinality(S)
  BY <1>5, FS_Interval
<1>7. rank \in Surjection(S, all)
  <2> HIDE DEF rank, all
  <2> QED
    BY <1>4, <1>6, FS_Injection
<1>8. rank[last] > n /\ rank[last] \in all
  BY <1>1
<1> DEFINE places == [i \in few |-> rank[i]]
<1>9. places \in Bijection(few, 1..n)
  <2>1. \A i \in few : places[i] = rank[i] /\ rank[i] \in 1..n
    BY <1>1, <1>5
  <2>2. \A m \in 1..n : \E i \in few : places[i] = m
    <3> SUFFICES ASSUME NEW m \in 1..n PROVE \E i \in few : places[i] = m
      OBVIOUS
    <3>1. m \in all
      BY <1>5, <1>8
    <3> HIDE DEF rank, all
    <3>2. PICK i \in S : rank[i] = m
      BY <1>7, <3>1 DEF Surjection
    <3> QED
      BY <3>2
  <2>3. places \in [few -> 1..n]
    BY <2>1
  <2>4. \A i, k \in few : places[i] = places[k] => i = k
    BY <1>3, <2>1
  <2> HIDE DEF places, few
  <2> QED
    BY <2>2, <2>3, <2>4 DEF Bijection, Injection, Surjection, IsInjective
<1>10. IsFiniteSet(few)
  BY FS_Subset
<1>11. Cardinality(1..n) = n
  BY FS_Interval
<1> HIDE DEF places, few
<1>12. Cardinality(few) = n
  BY <1>9, <1>10, <1>11, FS_Bijection DEF ExistsBijection
<1>13. few = {i \in S : Cardinality({j \in S : j <= i}) <= n}
  BY DEF few
<1> QED
  BY <1>12, <1>13

(* What is left of a file.                                                 *)
Survives(all, case) == Suites!Curated(all, case).kind = "kept"

(* A recorded case under the rule that it reaches now.                     *)
Renamed(all, case) == [case EXCEPT !.rule = Suites!Curated(all, case).rule]

(* What pruning leaves: cases that survive, and all of them up to the      *)
(* limit.                                                                  *)
LEMMA PrunedIs ==
    ASSUME NEW old, Suites!IsList(old), NEW all, NEW limit \in Nat
    PROVE  LET left == Suites!Pruned(old, all, limit)
           IN /\ \A j \in DOMAIN left : /\ j \in DOMAIN old /\ Survives(all, old[j])
                                        /\ left[j] = Renamed(all, old[j])
              /\ \A i \in DOMAIN old : Survives(all, old[i]) =>
                   \/ \E j \in DOMAIN left : left[j] = Renamed(all, old[i])
                   \/ Cardinality(DOMAIN left) = limit
<1> DEFINE left == Suites!Pruned(old, all, limit)
           kept == {i \in DOMAIN old : Survives(all, old[i])}
           now == [i \in kept |-> Renamed(all, old[i])]
           once == {i \in kept : \A j \in kept : now[j] = now[i] => i <= j}
           among == {i \in once : Cardinality({j \in once : j <= i}) <= limit}
<1>1. left = [i \in among |-> now[i]]
  <2>1. left = [i \in {i \in once : Suites!Cardinality({j \in once : j <= i}) <= limit} |-> now[i]]
    BY DEF Suites!Pruned, Suites!At, Survives, Renamed
  <2>2. {i \in once : Suites!Cardinality({j \in once : j <= i}) <= limit} = among
    BY CountIs
  <2> QED
    BY <2>1, <2>2
<1>2. DOMAIN old \subseteq Nat /\ IsFiniteSet(DOMAIN old)
  BY ListIs
<1>3. /\ kept \subseteq DOMAIN old /\ once \subseteq kept /\ among \subseteq once
      /\ \A i \in kept : now[i] = Renamed(all, old[i])
  OBVIOUS
<1>4. DOMAIN left = among /\ \A j \in among : left[j] = now[j]
  BY <1>1
<1> HIDE DEF left, now
<1>5. \A j \in DOMAIN left : /\ j \in DOMAIN old /\ Survives(all, old[j])
                             /\ left[j] = Renamed(all, old[j])
  BY <1>3, <1>4
<1>6. ASSUME NEW i \in DOMAIN old, Survives(all, old[i])
      PROVE  \/ \E j \in DOMAIN left : left[j] = Renamed(all, old[i])
             \/ Cardinality(DOMAIN left) = limit
  <2> DEFINE same == {j \in kept : now[j] = now[i]}
             first == Suites!Min(same)
  <2>1. i \in kept /\ same # {} /\ same \subseteq Nat
    BY <1>2, <1>6
  <2>2. first \in same /\ \A j \in same : first <= j
    BY <2>1, FirstIs
  <2> HIDE DEF first
  <2>3. first \in once /\ now[first] = Renamed(all, old[i])
    BY <1>3, <2>1, <2>2
  <2>4. once \in SUBSET Nat /\ IsFiniteSet(once)
    <3>1. once \in SUBSET DOMAIN old
      BY <1>3
    <3> HIDE DEF once
    <3> QED
      BY <1>2, <3>1, FS_Subset
  <2> HIDE DEF once
  <2>5. CASE Cardinality({j \in once : j <= first}) <= limit
    <3>1. first \in among
      BY <2>3, <2>5
    <3> QED
      BY <1>4, <2>3, <3>1
  <2>6. CASE ~ (Cardinality({j \in once : j <= first}) <= limit)
    <3>1. Cardinality({j \in once : j <= first}) \in Nat
      <4>1. IsFiniteSet({j \in once : j <= first})
        BY <2>4, FS_Subset
      <4> QED
        BY <4>1, FS_CardinalityType
    <3>2. Cardinality({j \in once : j <= first}) > limit
      BY <2>6, <3>1
    <3>3. Cardinality(among) = limit
      BY <2>3, <2>4, <3>2, FirstPlaces
    <3> QED
      BY <1>4, <3>3
  <2> QED
    BY <2>5, <2>6
<1> QED
  BY <1>5, <1>6 DEF left

(* What has been curated: the files before the next one, without an error. *)
FilesCurated ==
    inquiry.kind = "curate" =>
        /\ next \in Nat /\ DOMAIN corpora = DOMAIN inquiry.files
        /\ \A f \in DOMAIN corpora :
             IF f >= next THEN corpora[f] = inquiry.files[f]
             ELSE /\ corpora[f] = Suites!Pruned(inquiry.files[f], inquiry.packs, inquiry.limit)
                  /\ \A i \in DOMAIN inquiry.files[f] :
                       Suites!Curated(inquiry.packs, inquiry.files[f][i]).kind # "error"

(* What becomes of a case depends on what was recorded, and not on the     *)
(* rule it was recorded under.                                             *)
LEMMA CuratedAlike ==
    ASSUME NEW all, NEW case, NEW other, other.pack = case.pack, other.input = case.input,
           Suites!Owners(all, case) # {}, NoState(all[Suites!Min(Suites!Owners(all, case))])
    PROVE  Suites!Curated(all, other) = Suites!Curated(all, case)
<1> DEFINE pack == all[Suites!Min(Suites!Owners(all, case))]
           input == case.input
           mode == input.mode
           texts == Suites!Texts(pack, input)
           rule(i) == pack.guarded[i]
           owns(c, g) == Suites!IsPredicate(g) /\ g.id = c.rule
           asks(c) == {i \in Suites!Enabled(pack) : /\ rule(i).channel = "deny"
                                                    /\ rule(i).check = mode \/ owns(c, rule(i))}
           safe(k) == Suites!SafeEnds(pack, mode, texts[k])
           rules(c, k) == {i \in asks(c) : owns(c, rule(i)) \/ Suites!Ends(rule(i), texts[k])}
           faulty(k) == safe(k) # {} /\ pack.safe[Suites!Min(safe(k))].broken
           ends(c) == {k \in DOMAIN texts : faulty(k) \/ (safe(k) = {} /\ rules(c, k) # {})}
           first(c) == rule(Suites!Min(rules(c, Suites!Min(ends(c)))))
           said(c) == IF ends(c) = {} THEN [kind |-> "dropped"]
                      ELSE IF faulty(Suites!Min(ends(c))) \/ first(c).broken THEN [kind |-> "error"]
                      ELSE [kind |-> "kept", rule |-> first(c).id]
<1>1. Suites!Owners(all, other) = Suites!Owners(all, case)
  BY DEF Suites!Owners
<1>2. Suites!Curated(all, case) = Suites!Reached(pack, case)
  BY DEF Suites!Curated
<1>3. Suites!Curated(all, other) = Suites!Reached(pack, other)
  BY <1>1 DEF Suites!Curated
<1> HIDE DEF pack
<1>4. Suites!Reached(pack, case) = said(case)
  BY DEF Suites!Reached
<1>5. Suites!Reached(pack, other) = said(other)
  BY DEF Suites!Reached
<1>6. \A i \in Suites!Enabled(pack) : ~ Suites!IsPredicate(rule(i))
  BY DEF NoState, Suites!ToSet, Suites!Enabled, pack
<1>7. asks(other) = asks(case)
  BY <1>6
<1>8. \A k : rules(other, k) = rules(case, k)
  <2>1. \A c, k : rules(c, k) = {i \in asks(c) : Suites!Ends(rule(i), texts[k])}
    BY <1>6
  <2> HIDE DEF rules, asks
  <2> QED
    BY <1>7, <2>1
<1> HIDE DEF rules, asks
<1>9. ends(other) = ends(case)
  BY <1>8
<1> HIDE DEF ends
<1>10. first(other) = first(case)
  BY <1>8, <1>9
<1> HIDE DEF first
<1>11. said(other) = said(case)
  BY <1>9, <1>10
<1> QED
  BY <1>2, <1>3, <1>4, <1>5, <1>11

(* The fourth promise: curation drops no case that is still denied.        *)
LEMMA CuratedExactly ==
    ASSUME IsAsked, FilesCurated
    PROVE  Suites!CurationIsExact
<1> SUFFICES ASSUME inquiry.kind = "curate", NEW f \in DOMAIN corpora, NEW i \in DOMAIN inquiry.files[f]
             PROVE  LET case == inquiry.files[f][i]
                        owners == Suites!Owners(inquiry.packs, case)
                        pack == inquiry.packs[Suites!Min(owners)]
                        answer == Suites!Answer(Suites!Intact(pack), {}, case.input)
                        kept == {r \in Suites!ToSet(corpora[f]) : r.pack = case.pack /\ r.input = case.input}
                        settled == /\ owners # {} /\ Suites!IsPlain(pack)
                                   /\ \/ case.input.mode = "content" \/ pack.keywords = {}
                                      \/ Suites!ReadAlike(pack, case.input)
                                   /\ ~ \E g \in Suites!ToSet(pack.guarded) : Suites!IsPredicate(g)
                    IN IF f >= next THEN corpora[f] = inquiry.files[f]
                       ELSE /\ owners = {} => kept = {}
                            /\ settled /\ answer.channel = "deny" =>
                                 \/ \E r \in kept : r.rule = answer.rule.name
                                 \/ Suites!Cardinality(DOMAIN corpora[f]) = inquiry.limit
                            /\ settled /\ answer.channel # "deny" => kept = {}
  BY DEF Suites!CurationIsExact
<1>1. CASE f >= next
  BY <1>1 DEF FilesCurated
<1>2. CASE ~ (f >= next)
  <2> DEFINE old == inquiry.files[f]
             case == old[i]
             all == inquiry.packs
             owners == Suites!Owners(all, case)
             pack == all[Suites!Min(owners)]
             answer == Suites!Answer(Suites!Intact(pack), {}, case.input)
             left == corpora[f]
             kept == {r \in Suites!ToSet(left) : r.pack = case.pack /\ r.input = case.input}
             settled == /\ owners # {} /\ Suites!IsPlain(pack)
                        /\ SameRead(pack, case.input) /\ NoState(pack)
  <2>1. /\ left = Suites!Pruned(old, all, inquiry.limit)
        /\ \A j \in DOMAIN old : Suites!Curated(all, old[j]).kind # "error"
    BY <1>2 DEF FilesCurated
  <2>2. Suites!IsCorpus(old) /\ inquiry.limit \in Nat
    <3>1. old \in Suites!ToSet(inquiry.files)
      BY DEF FilesCurated, Suites!ToSet
    <3> QED
      BY <3>1, AskedPacks
  <2>3. Suites!IsList(old)
    BY <2>2 DEF Suites!IsCorpus
  <2>4. \A j \in DOMAIN old :
          {"rule", "pack", "input"} \subseteq DOMAIN old[j] /\ Suites!IsInput(old[j].input)
    <3>1. \A j \in DOMAIN old : old[j] \in Suites!ToSet(old)
      BY <2>3, ListIs
    <3> QED
      BY <2>2, <3>1 DEF Suites!IsCorpus
  <2> HIDE DEF old, left
  <2>5. \A j \in DOMAIN left : /\ j \in DOMAIN old /\ Survives(all, old[j])
                               /\ left[j] = Renamed(all, old[j])
    BY <2>1, <2>2, <2>3, PrunedIs
  <2>6. Survives(all, case) =>
          \/ \E j \in DOMAIN left : left[j] = Renamed(all, case)
          \/ Cardinality(DOMAIN left) = inquiry.limit
    BY <2>1, <2>2, <2>3, PrunedIs DEF old
  <2>7. \A j \in DOMAIN old : /\ Renamed(all, old[j]).pack = old[j].pack
                              /\ Renamed(all, old[j]).input = old[j].input
                              /\ Renamed(all, old[j]).rule = Suites!Curated(all, old[j]).rule
    BY <2>4 DEF Renamed
  <2>8. ASSUME NEW r \in kept
        PROVE  \E j \in DOMAIN old : /\ old[j].pack = case.pack /\ old[j].input = case.input
                                     /\ Survives(all, old[j])
    <3>1. PICK j \in DOMAIN left : r = left[j]
      BY DEF Suites!ToSet
    <3>2. r.pack = case.pack /\ r.input = case.input
      OBVIOUS
    <3> QED
      BY <2>5, <2>7, <3>1, <3>2
  <2>9. i \in DOMAIN old
    BY DEF old
  <2> HIDE DEF case, pack, kept
  <2>10. ASSUME owners = {} PROVE kept = {}
    <3> SUFFICES ASSUME NEW r \in kept PROVE FALSE
      OBVIOUS
    <3>1. PICK j \in DOMAIN old : old[j].pack = case.pack /\ Survives(all, old[j])
      BY <2>8
    <3>2. Suites!Owners(all, old[j]) = {}
      BY <2>10, <3>1 DEF Suites!Owners
    <3> QED
      BY <3>1, <3>2 DEF Survives, Suites!Curated
  <2>11. ASSUME settled
         PROVE  /\ Survives(all, case) <=> answer.channel = "deny"
                /\ Survives(all, case) => Suites!Curated(all, case).rule = answer.rule.name
    <3>1. Suites!Curated(all, case) = Suites!Reached(pack, case)
      BY <2>11 DEF Suites!Curated, pack
    <3>2. pack \in Suites!ToSet(all) /\ Suites!IsPack(pack)
      <4>1. DOMAIN all \subseteq Nat /\ \A n \in DOMAIN all : all[n] \in Suites!ToSet(all)
        BY AskedPacks, ListIs
      <4>2. Suites!Min(owners) \in owners
        <5>1. owners \subseteq Nat
          BY <4>1 DEF Suites!Owners
        <5> QED
          BY <2>11, <5>1, FirstIs
      <4>3. pack \in Suites!ToSet(all)
        BY <4>1, <4>2 DEF pack, Suites!Owners
      <4> QED
        BY <4>3, AskedPacks
    <3>3. <<Suites!Intact(pack), {}>> \in Suites!Holdings
      BY <3>2, HeldPacks
    <3>4. Suites!IsInput(case.input) /\ Suites!Curated(all, case).kind # "error"
      BY <2>1, <2>4, <2>9 DEF case
    <3>5. Suites!Reached(pack, case).kind # "error"
      BY <3>1, <3>4
    <3>6. /\ Suites!Reached(pack, case).kind = "kept" <=> answer.channel = "deny"
          /\ Suites!Reached(pack, case).kind = "kept" => Suites!Reached(pack, case).rule = answer.rule.name
      BY <2>11, <3>2, <3>3, <3>4, <3>5, ReachedIs
    <3> QED
      BY <3>1, <3>6 DEF Survives
  <2>12. ASSUME settled, answer.channel = "deny"
         PROVE  \/ \E r \in kept : r.rule = answer.rule.name
                \/ Suites!Cardinality(DOMAIN left) = inquiry.limit
    <3>1. Survives(all, case) /\ Suites!Curated(all, case).rule = answer.rule.name
      BY <2>11, <2>12
    <3>2. CASE Cardinality(DOMAIN left) = inquiry.limit
      BY <3>2, CountIs
    <3>3. CASE \E j \in DOMAIN left : left[j] = Renamed(all, case)
      <4>1. PICK j \in DOMAIN left : left[j] = Renamed(all, case)
        BY <3>3
      <4>2. /\ left[j].pack = case.pack /\ left[j].input = case.input
            /\ left[j].rule = Suites!Curated(all, case).rule
        BY <2>7, <2>9, <4>1 DEF case
      <4>3. left[j] \in kept
        BY <4>2 DEF kept, Suites!ToSet
      <4> QED
        BY <3>1, <4>2, <4>3
    <3> QED
      BY <2>6, <3>1, <3>2, <3>3
  <2>13. ASSUME settled, answer.channel # "deny"
         PROVE  kept = {}
    <3> SUFFICES ASSUME NEW r \in kept PROVE FALSE
      OBVIOUS
    <3>1. PICK j \in DOMAIN old : /\ old[j].pack = case.pack /\ old[j].input = case.input
                                  /\ Survives(all, old[j])
      BY <2>8
    <3>2. Suites!Curated(all, old[j]) = Suites!Curated(all, case)
      BY <2>13, <3>1, CuratedAlike DEF pack
    <3>3. Survives(all, case)
      BY <3>1, <3>2 DEF Survives
    <3> QED
      BY <2>11, <2>13, <3>3
  <2> QED
    BY <1>2, <2>10, <2>12, <2>13 DEF case, pack, kept, old, left, SameRead, NoState
<1> QED
  BY <1>1, <1>2

-----------------------------------------------------------------------------
(* The engine answers alike as long as the inquiry is the same.            *)

(* Every operator on the way to an answer reads the constants and the      *)
(* inquiry alone.                                                          *)
LEMMA EngineRests ==
    ASSUME inquiry' = inquiry
    PROVE  \A c, order, store, faulty, closed :
             Suites!Engine!Evaluate(c, order, store, faulty, closed)'
               = Suites!Engine!Evaluate(c, order, store, faulty, closed)
<1>1. Suites!Holdings' = Suites!Holdings
  BY DEF Suites!Holdings
<1>2. Suites!Exempted' = Suites!Exempted
  BY <1>1 DEF Suites!Exempted
<1>3. \A g : Suites!Engine!Active(g)' <=> Suites!Engine!Active(g)
  BY <1>2 DEF Suites!Engine!Active
<1>4. \A h, unit, store : Suites!Engine!Signals(h, unit, store)' = Suites!Engine!Signals(h, unit, store)
  <2> SUFFICES ASSUME NEW h, NEW unit, NEW store
               PROVE  Suites!Engine!Signals(h, unit, store)' = Suites!Engine!Signals(h, unit, store)
    OBVIOUS
  <2> DEFINE kept == [k \in Suites!Holdings |-> Suites!Held(k[1], k[2])][h]
             matches(p) == Suites!Engine!Matches(p, unit, store)
             safe == {k \in DOMAIN kept.safe : matches(kept.safe[k]) # "no"}
             hits == {i \in DOMAIN kept.guarded :
                        Suites!Engine!Active(kept.guarded[i]) /\ matches(kept.guarded[i]) # "no"}
             signal(i) == IF matches(kept.guarded[i]) = "err" THEN Suites!Engine!Error
                          ELSE [channel |-> kept.guarded[i].channel, rule |-> kept.guarded[i].id, pack |-> h]
             signals == IF safe = {} THEN [i \in hits |-> signal(i)]
                        ELSE IF matches(kept.safe[Suites!Engine!Min(safe)]) = "err"
                             THEN <<Suites!Engine!Error>> ELSE <<>>
  <2>1. Suites!Engine!Signals(h, unit, store) = signals
    BY DEF Suites!Engine!Signals
  <2>2. Suites!Engine!Signals(h, unit, store)' = signals'
    BY DEF Suites!Engine!Signals
  <2>3. kept' = kept
    BY <1>1
  <2> HIDE DEF kept
  <2>4. safe' = safe
    BY <2>3
  <2>5. hits' = hits
    BY <1>3, <2>3
  <2>6. \A i : signal(i)' = signal(i)
    BY <2>3
  <2> HIDE DEF safe, hits, signal
  <2>7. signals' = signals
    BY <2>3, <2>4, <2>5, <2>6
  <2> QED
    BY <2>1, <2>2, <2>7
<1>5. \A among, order, unit, store :
        Suites!Engine!ScanPacks(among, order, unit, store)' = Suites!Engine!ScanPacks(among, order, unit, store)
  BY <1>4 DEF Suites!Engine!ScanPacks
<1>6. \A h : Suites!Engine!DispatchKeywords(h)' = Suites!Engine!DispatchKeywords(h)
  BY <1>1 DEF Suites!Engine!DispatchKeywords
<1>7. /\ \A exe : Suites!Engine!TokenPacks(exe)' = Suites!Engine!TokenPacks(exe)
      /\ \A f : Suites!Engine!ContentPacks(f)' = Suites!Engine!ContentPacks(f)
      /\ Suites!Engine!UnconditionalPacks' = Suites!Engine!UnconditionalPacks
  BY <1>1, <1>6 DEF Suites!Engine!TokenPacks, Suites!Engine!ContentPacks, Suites!Engine!UnconditionalPacks
<1>8. \A c, order, store :
        Suites!Engine!EvaluateCommand(c, order, store)' = Suites!Engine!EvaluateCommand(c, order, store)
  BY <1>5, <1>7 DEF Suites!Engine!EvaluateCommand, Suites!Engine!EvaluateToken,
                    Suites!Engine!EvaluateUnconditional
<1>9. \A unit, order, store, faulty, closed :
        Suites!Engine!EvaluateContent(unit, order, store, faulty, closed)'
          = Suites!Engine!EvaluateContent(unit, order, store, faulty, closed)
  BY <1>5, <1>7 DEF Suites!Engine!EvaluateContent
<1> QED
  BY <1>8, <1>9 DEF Suites!Engine!Evaluate

(* And so do those of the override gate.                                   *)
LEMMA GateRests ==
    ASSUME inquiry' = inquiry
    PROVE  \A pack, cases, exempt :
             Suites!PassesGate(pack, cases, exempt)' <=> Suites!PassesGate(pack, cases, exempt)
<1>1. \A pack, exempt, input : Suites!Answer(pack, exempt, input)' = Suites!Answer(pack, exempt, input)
  BY EngineRests DEF Suites!Answer
<1> QED
  BY <1>1 DEF Suites!PassesGate

-----------------------------------------------------------------------------
(* The theorem.                                                            *)

(* The inductive invariant.                                                *)
SuitesInv == IsAsked /\ SuiteMade /\ VerdictGiven /\ FilesCurated

(* It holds before anything was asked,                                     *)
LEMMA SuitesStart ==
    ASSUME ReleaseInit
    PROVE  SuitesInv
<1>1. /\ inquiry \in Inquiries \cup {NoInquiry}
      /\ corpora = inquiry.files /\ suite = <<>> /\ next = 1 /\ verdict = <<>>
  BY DEF ReleaseInit, Suites!SuitesInit
<1>2. IsAsked /\ SuiteMade /\ VerdictGiven
  BY <1>1 DEF IsAsked, SuiteMade, VerdictGiven
<1>3. FilesCurated
  <2> SUFFICES ASSUME inquiry.kind = "curate"
               PROVE  /\ next \in Nat /\ DOMAIN corpora = DOMAIN inquiry.files
                      /\ \A f \in DOMAIN corpora : f >= next /\ corpora[f] = inquiry.files[f]
    BY DEF FilesCurated
  <2>1. Suites!IsList(inquiry.files)
    BY <1>2, AskedPacks
  <2>2. DOMAIN inquiry.files \subseteq Nat \ {0}
    BY <2>1, ListIs
  <2> QED
    BY <1>1, <2>2
<1> QED
  BY <1>2, <1>3 DEF SuitesInv

(* while the suites are not used,                                          *)
LEMMA SuitesRest ==
    ASSUME SuitesInv, UNCHANGED suiteVars
    PROVE  SuitesInv'
<1>1. /\ inquiry' = inquiry /\ suite' = suite /\ corpora' = corpora
      /\ next' = next /\ verdict' = verdict
  BY DEF suiteVars
<1>2. IsAsked' /\ SuiteMade' /\ FilesCurated'
  BY <1>1 DEF SuitesInv, IsAsked, SuiteMade, FilesCurated
<1>3. VerdictGiven'
  BY <1>1, GateRests DEF SuitesInv, VerdictGiven
<1> QED
  BY <1>2, <1>3 DEF SuitesInv

(* and after each of their steps.                                          *)
LEMMA SuitesStep ==
    ASSUME SuitesInv, Suites!SuitesNext
    PROVE  SuitesInv'
<1>1. CASE Suites!MakeSuite
  <2>1. /\ inquiry.kind \in {"verify", "gate", "release"} /\ suite = <<>>
        /\ suite' = <<IF inquiry.kind = "release" THEN Suites!GenerateRelease(inquiry.packs)
                      ELSE Suites!Generate(inquiry.packs[1])>>
        /\ inquiry' = inquiry /\ verdict' = verdict
    BY <1>1 DEF Suites!MakeSuite
  <2>2. IsAsked'
    BY <2>1 DEF SuitesInv, IsAsked
  <2>3. SuiteMade'
    BY <2>1 DEF SuiteMade
  <2>4. VerdictGiven'
    BY <2>1 DEF SuitesInv, VerdictGiven
  <2>5. FilesCurated'
    BY <2>1 DEF FilesCurated
  <2> QED
    BY <2>2, <2>3, <2>4, <2>5 DEF SuitesInv
<1>2. CASE Suites!VerifySuite
  <2>1. /\ inquiry.kind \in {"verify", "gate"} /\ suite # <<>> /\ suite[1].ok
        /\ inquiry' = inquiry /\ suite' = suite
    BY <1>2 DEF Suites!VerifySuite
  <2>2. verdict' = <<IF inquiry.kind = "verify"
                     THEN Suites!Verifies(inquiry.packs[2], suite[1].cases)
                     ELSE Suites!PassesGate(inquiry.packs[1], suite[1].cases, inquiry.exempt)>>
    BY <1>2 DEF Suites!VerifySuite
  <2>3. IsAsked' /\ SuiteMade'
    BY <2>1 DEF SuitesInv, IsAsked, SuiteMade
  <2>4. VerdictGiven'
    <3>1. inquiry.kind = "verify" =>
            (verdict'[1] <=> Suites!Verifies(inquiry.packs[2], suite[1].cases))
      BY <2>2
    <3>2. inquiry.kind = "gate" =>
            (verdict'[1] <=> Suites!PassesGate(inquiry.packs[1], suite[1].cases, inquiry.exempt))
      BY <2>2
    <3> QED
      BY <2>1, <3>1, <3>2, GateRests DEF VerdictGiven
  <2>5. FilesCurated'
    BY <2>1 DEF FilesCurated
  <2> QED
    BY <2>3, <2>4, <2>5 DEF SuitesInv
<1>3. CASE Suites!CurateFile
  <2>1. /\ inquiry.kind = "curate" /\ inquiry' = inquiry /\ suite' = suite
    BY <1>3 DEF Suites!CurateFile
  <2>2. IsAsked' /\ SuiteMade' /\ VerdictGiven'
    BY <2>1 DEF SuitesInv, IsAsked, SuiteMade, VerdictGiven
  <2>3. /\ next \in Nat /\ DOMAIN corpora = DOMAIN inquiry.files /\ DOMAIN corpora \subseteq Nat
    <3>1. DOMAIN inquiry.files \subseteq Nat
      BY <2>1, AskedPacks, ListIs DEF SuitesInv
    <3> QED
      BY <2>1, <3>1 DEF SuitesInv, FilesCurated
  <2>4. CASE \E i \in DOMAIN corpora[next] : Suites!Curated(inquiry.packs, corpora[next][i]).kind = "error"
    <3>1. corpora' = corpora /\ next' = next
      BY <1>3, <2>4 DEF Suites!CurateFile
    <3>2. FilesCurated'
      BY <2>1, <3>1 DEF SuitesInv, FilesCurated
    <3> QED
      BY <2>2, <3>2 DEF SuitesInv
  <2>5. CASE ~ \E i \in DOMAIN corpora[next] : Suites!Curated(inquiry.packs, corpora[next][i]).kind = "error"
    <3>1. /\ corpora' = [corpora EXCEPT ![next] = Suites!Pruned(@, inquiry.packs, inquiry.limit)]
          /\ next' = next + 1
      BY <1>3, <2>5 DEF Suites!CurateFile
    <3>2. /\ DOMAIN corpora' = DOMAIN corpora
          /\ \A f \in DOMAIN corpora :
               corpora'[f] = IF f = next THEN Suites!Pruned(corpora[f], inquiry.packs, inquiry.limit)
                             ELSE corpora[f]
      BY <3>1
    <3>3. ASSUME NEW f \in DOMAIN corpora
          PROVE  IF f >= next' THEN corpora'[f] = inquiry.files[f]
                 ELSE /\ corpora'[f] = Suites!Pruned(inquiry.files[f], inquiry.packs, inquiry.limit)
                      /\ \A i \in DOMAIN inquiry.files[f] :
                           Suites!Curated(inquiry.packs, inquiry.files[f][i]).kind # "error"
      <4>1. IF f >= next THEN corpora[f] = inquiry.files[f]
            ELSE /\ corpora[f] = Suites!Pruned(inquiry.files[f], inquiry.packs, inquiry.limit)
                 /\ \A i \in DOMAIN inquiry.files[f] :
                      Suites!Curated(inquiry.packs, inquiry.files[f][i]).kind # "error"
        BY <2>1 DEF SuitesInv, FilesCurated
      <4>2. CASE f = next
        <5>1. corpora[f] = inquiry.files[f]
          BY <2>3, <4>1, <4>2
        <5>2. ~ (f >= next')
          BY <2>3, <3>1, <4>2
        <5>3. corpora'[f] = Suites!Pruned(inquiry.files[f], inquiry.packs, inquiry.limit)
          BY <3>2, <4>2, <5>1
        <5> QED
          BY <2>5, <4>2, <5>1, <5>2, <5>3
      <4>3. CASE f # next
        <5>1. f >= next' <=> f >= next
          BY <2>3, <3>1, <4>3
        <5>2. corpora'[f] = corpora[f]
          BY <3>2, <4>3
        <5> QED
          BY <4>1, <5>1, <5>2
      <4> QED
        BY <4>2, <4>3
    <3>4. FilesCurated'
      BY <2>1, <2>3, <3>1, <3>2, <3>3 DEF FilesCurated
    <3> QED
      BY <2>2, <3>4 DEF SuitesInv
  <2> QED
    BY <2>4, <2>5
<1> QED
  BY <1>1, <1>2, <1>3 DEF Suites!SuitesNext

(* What a suite or the curation of recorded cases says of a pack is what   *)
(* the engine does with it (regression.rs, overrides.rs): a suite's cases  *)
(* are denied, a pack that is verified denies, an override that passes the *)
(* gate exempts exactly what it names, and curation keeps what is denied.  *)
THEOREM RegressionSuitesTrue == ReleaseSpec => []RegressionSuitesHold
<1>1. ReleaseInit => SuitesInv
  BY SuitesStart
<1>2. SuitesInv /\ [ReleaseNext]_releaseVars => SuitesInv'
  <2> SUFFICES ASSUME SuitesInv, [ReleaseNext]_releaseVars
               PROVE  SuitesInv'
    OBVIOUS
  <2>1. Suites!SuitesNext \/ UNCHANGED suiteVars
    BY DEF ReleaseNext, releaseVars
  <2> QED
    BY <2>1, SuitesRest, SuitesStep
<1>3. SuitesInv => RegressionSuitesHold
  <2> SUFFICES ASSUME SuitesInv PROVE RegressionSuitesHold
    OBVIOUS
  <2>1. IsAsked /\ SuiteMade /\ VerdictGiven /\ FilesCurated
    BY DEF SuitesInv
  <2>2. Suites!SuiteIsDenied
    BY <2>1, SuitesDeny
  <2>3. Suites!VerifiedIsDenied
    BY <2>1, VerifiedDenies
  <2>4. Suites!GateIsFair
    BY <2>1, GateIsFairly
  <2>5. Suites!CurationIsExact
    BY <2>1, CuratedExactly
  <2> QED
    BY <2>2, <2>3, <2>4, <2>5 DEF RegressionSuitesHold, Suites!RegressionSuitesHold
<1> QED
  BY <1>1, <1>2, <1>3, PTL DEF ReleaseSpec
=============================================================================
