------------------------ MODULE HookInvocationProofs ------------------------
(***************************************************************************)
(* That the engine answers with the severest of what its rules demand, and *)
(* what follows for any number of concurrent invocations of any calls.     *)
(***************************************************************************)
EXTENDS HookInvocation, CallReadings, FiniteSetTheorems, SequenceTheorems, WellFoundedInduction, TLAPS

-----------------------------------------------------------------------------
(* Places.                                                                 *)

(* A set of places has a first one.                                        *)
LEMMA Least ==
    ASSUME NEW S \in SUBSET Nat, S # {}
    PROVE  Min(S) \in S /\ \A m \in S : Min(S) <= m
<1>1. IsWellFoundedOn(OpToRel(<, Nat), Nat)
  BY NatLessThanWellFounded
<1>2. PICK n \in S : \A m \in S : ~ (<<m, n>> \in OpToRel(<, Nat))
  BY <1>1, WFMin
<1>3. \A m \in S : ~ (m < n)
  BY <1>2 DEF OpToRel
<1>4. \A m \in S : n <= m
  BY <1>3
<1> QED
  BY <1>4 DEF Min

-----------------------------------------------------------------------------
(* One pack.                                                               *)

LEMMA RankValues ==
    /\ Rank["allowed"] = 0 /\ Rank["warning"] = 1 /\ Rank["rewrite"] = 2 /\ Rank["deny"] = 3
    /\ \A x \in Channels : Rank[x] \in 0..3 /\ (Rank[x] = 3 => x = "deny")
BY DEF Rank, Channels

LEMMA RankOrder ==
    /\ \A x, y, z \in Channels : Rank[x] <= Rank[y] /\ Rank[y] <= Rank[z] => Rank[x] <= Rank[z]
    /\ \A x \in Channels : Rank["deny"] <= Rank[x] => x = "deny"
BY RankValues

(* Results at places of a scan: errors, and results of some channel.       *)
Places(results) ==
    /\ DOMAIN results \subseteq Nat
    /\ \A i \in DOMAIN results : results[i].channel \in Channels \/ results[i] = Error

(* Among decided results the most severe one wins, an allow if there is    *)
(* none.                                                                   *)
LEMMA MostSevereIs ==
    ASSUME NEW results, DOMAIN results \subseteq Nat,
           \A i \in DOMAIN results : results[i].channel \in Channels
    PROVE  /\ DOMAIN results = {} => MostSevere(results) = Allowed
           /\ DOMAIN results # {} => \E i \in DOMAIN results : MostSevere(results) = results[i]
           /\ \A j \in DOMAIN results : Rank[results[j].channel] <= Rank[MostSevere(results).channel]
<1> DEFINE worst == {i \in DOMAIN results :
                       \A j \in DOMAIN results : Rank[results[j].channel] <= Rank[results[i].channel]}
           at(n) == {i \in DOMAIN results : Rank[results[i].channel] = n}
<1>1. CASE DOMAIN results = {}
  BY <1>1 DEF MostSevere
<1>2. CASE DOMAIN results # {}
  <2>1. \A i \in DOMAIN results : Rank[results[i].channel] \in 0..3
    BY RankValues
  <2>2. worst # {}
    <3>1. CASE at(3) # {}
      BY <2>1, <3>1
    <3>2. CASE at(3) = {} /\ at(2) # {}
      <4>1. \A i \in DOMAIN results : Rank[results[i].channel] <= 2
        BY <2>1, <3>2
      <4> QED
        BY <3>2, <4>1
    <3>3. CASE at(3) = {} /\ at(2) = {} /\ at(1) # {}
      <4>1. \A i \in DOMAIN results : Rank[results[i].channel] <= 1
        BY <2>1, <3>3
      <4> QED
        BY <3>3, <4>1
    <3>4. CASE at(3) = {} /\ at(2) = {} /\ at(1) = {}
      <4>1. \A i \in DOMAIN results : Rank[results[i].channel] = 0
        BY <2>1, <3>4
      <4> QED
        BY <1>2, <4>1
    <3> QED
      BY <3>1, <3>2, <3>3, <3>4
  <2>3. Min(worst) \in worst
    BY <2>2, Least
  <2>4. MostSevere(results) = results[Min(worst)]
    BY <1>2 DEF MostSevere
  <2> QED
    BY <1>2, <2>3, <2>4
<1> QED
  BY <1>1, <1>2

(* A verdict is one of the results it is given, and unless there are       *)
(* errors no result is more severe.                                        *)
LEMMA VerdictIs ==
    ASSUME NEW results, Places(results)
    PROVE  /\ DOMAIN results = {} => Verdict(results) = Allowed
           /\ DOMAIN results # {} => \E i \in DOMAIN results : Verdict(results) = results[i]
           /\ (\A i \in DOMAIN results : results[i] # Error) =>
                \A j \in DOMAIN results : Rank[results[j].channel] <= Rank[Verdict(results).channel]
<1> DEFINE ends == {i \in DOMAIN results : results[i].channel \in {"deny", "error"}}
<1>1. CASE ends = {}
  <2>1. \A i \in DOMAIN results : results[i].channel \in Channels
    BY <1>1 DEF Places, Error
  <2>2. Verdict(results) = MostSevere(results)
    BY <1>1 DEF Verdict
  <2> QED
    BY <2>1, <2>2, MostSevereIs DEF Places
<1>2. CASE ends # {}
  <2>1. Min(ends) \in ends
    BY <1>2, Least DEF Places
  <2>2. Verdict(results) = results[Min(ends)]
    BY <1>2 DEF Verdict
  <2>3. ASSUME \A i \in DOMAIN results : results[i] # Error, NEW j \in DOMAIN results
        PROVE  Rank[results[j].channel] <= Rank[Verdict(results).channel]
    <3>1. \A i \in DOMAIN results : results[i].channel \in Channels
      BY <2>3 DEF Places
    <3>2. results[Min(ends)].channel = "deny"
      BY <2>1, <3>1 DEF Channels
    <3> QED
      BY <2>2, <3>1, <3>2, RankValues
  <2> QED
    BY <2>1, <2>2, <2>3
<1> QED
  BY <1>1, <1>2

LEMMA MatchesIs ==
    ASSUME NEW pattern, NEW unit, NEW store
    PROVE  Matches(pattern, unit, store) \in {"yes", "no", "err"}
BY DEF Matches, MatchesContent, MatchesCommand, YesNo

(* What a pack signals: an error only if a pattern cannot be decided, else *)
(* what it demands, and then all of it.                                    *)
LEMMA SignalsAre ==
    ASSUME NEW p \in Packs, NEW unit, NEW store
    PROVE  LET signals == Signals(p, unit, store)
           IN /\ Places(signals)
              /\ \A i \in DOMAIN signals :
                   \/ signals[i] = Error /\ UndecidedBy(p, unit, store)
                   \/ \E g \in DemandedBy(p, unit, store) :
                        signals[i] = [channel |-> g.channel, rule |-> g.id, pack |-> p]
              /\ ~UndecidedBy(p, unit, store) =>
                   \A g \in DemandedBy(p, unit, store) :
                     \E i \in DOMAIN signals : signals[i].channel = g.channel
<1> DEFINE signals == Signals(p, unit, store)
           patterns == Pack[p].safe
           rules == Pack[p].guarded
           safe == {k \in DOMAIN patterns : Matches(patterns[k], unit, store) # "no"}
           hits == {i \in DOMAIN rules : Active(rules[i]) /\ Matches(rules[i], unit, store) # "no"}
           signal(i) == IF Matches(rules[i], unit, store) = "err" THEN Error
                        ELSE [channel |-> rules[i].channel, rule |-> rules[i].id, pack |-> p]
<1>1. /\ DOMAIN patterns \subseteq Nat /\ DOMAIN rules \subseteq Nat
      /\ \A i \in DOMAIN rules : rules[i].channel \in {"warning", "rewrite", "deny"}
  <2>1. patterns \in Seq(ToSet(patterns)) /\ rules \in Seq(ToSet(rules))
    BY PacksAssumption
  <2>2. DOMAIN patterns = 1..Len(patterns) /\ DOMAIN rules = 1..Len(rules)
    BY <2>1
  <2>3. Len(patterns) \in Nat /\ Len(rules) \in Nat
    BY <2>1
  <2>4. \A i \in DOMAIN rules : rules[i] \in ToSet(rules)
    BY DEF ToSet
  <2> QED
    BY <2>2, <2>3, <2>4, PacksAssumption
<1>2. signals = IF safe = {} THEN [i \in hits |-> signal(i)]
                ELSE IF Matches(patterns[Min(safe)], unit, store) = "err" THEN <<Error>> ELSE <<>>
  BY DEF Signals
<1>3. CASE safe = {}
  <2>1. signals = [i \in hits |-> signal(i)]
    BY <1>2, <1>3
  <2>2. \A s \in ToSet(patterns) : Matches(s, unit, store) # "yes"
    BY <1>3 DEF ToSet
  <2>3. \A i \in hits : Matches(rules[i], unit, store) = "err" => UndecidedBy(p, unit, store)
    BY DEF UndecidedBy, ToSet
  <2>4. \A i \in hits : Matches(rules[i], unit, store) # "err" =>
                         rules[i] \in DemandedBy(p, unit, store)
    BY <2>2, MatchesIs DEF DemandedBy, ToSet
  <2>5. Places(signals)
    <3>1. \A i \in hits : signal(i) = Error \/ signal(i).channel \in Channels
      BY <1>1 DEF Channels
    <3> QED
      BY <1>1, <2>1, <3>1 DEF Places
  <2>6. ASSUME NEW i \in DOMAIN signals
        PROVE  \/ signals[i] = Error /\ UndecidedBy(p, unit, store)
               \/ \E g \in DemandedBy(p, unit, store) :
                    signals[i] = [channel |-> g.channel, rule |-> g.id, pack |-> p]
    BY <2>1, <2>3, <2>4
  <2>7. ASSUME ~UndecidedBy(p, unit, store), NEW g \in DemandedBy(p, unit, store)
        PROVE  \E i \in DOMAIN signals : signals[i].channel = g.channel
    <3>1. PICK i \in DOMAIN rules : rules[i] = g
      BY <2>7 DEF DemandedBy, ToSet
    <3>2. i \in hits /\ Matches(rules[i], unit, store) # "err"
      BY <2>7, <3>1 DEF DemandedBy
    <3> QED
      BY <2>1, <3>1, <3>2
  <2> QED
    BY <2>5, <2>6, <2>7
<1>4. CASE safe # {}
  <2>1. Min(safe) \in safe
    BY <1>1, <1>4, Least
  <2>2. CASE Matches(patterns[Min(safe)], unit, store) = "err"
    <3>1. UndecidedBy(p, unit, store)
      BY <2>1, <2>2 DEF UndecidedBy, ToSet
    <3>2. signals = <<Error>> /\ DOMAIN signals = {1} /\ signals[1] = Error
      BY <1>2, <1>4, <2>2
    <3> QED
      BY <3>1, <3>2 DEF Places
  <2>3. CASE Matches(patterns[Min(safe)], unit, store) # "err"
    <3>1. Matches(patterns[Min(safe)], unit, store) = "yes"
      BY <2>1, <2>3, MatchesIs
    <3>2. DemandedBy(p, unit, store) = {}
      BY <2>1, <3>1 DEF DemandedBy, ToSet
    <3>3. signals = <<>>
      BY <1>2, <1>4, <2>3
    <3> QED
      BY <3>2, <3>3 DEF Places
  <2> QED
    BY <2>2, <2>3
<1> QED
  BY <1>3, <1>4

-----------------------------------------------------------------------------
(* The packs, and the units of a call.                                     *)

(* What the engine may answer.                                             *)
PackRules == UNION {{g.id : g \in ToSet(Pack[p].guarded)} : p \in Packs}
RuleNames == PackRules \cup {"guard-crash", "write-guard"}
Results == {Allowed} \cup [channel : {"warning", "rewrite", "deny"}, rule : RuleNames,
                           pack : ResultPacks]

LEMMA ResultsAre ==
    /\ Allowed \in Results /\ GuardCrash \in Results /\ WriteGuard \in Results
    /\ \A r \in Results : r.channel \in Channels
<1>1. Allowed \in Results /\ Allowed.channel \in Channels
  BY DEF Results, Allowed, Channels
<1>2. "guard-crash" \in RuleNames /\ "write-guard" \in RuleNames
  BY DEF RuleNames
<1>3. "fail-closed" \in ResultPacks /\ "write-guard" \in ResultPacks
  BY DEF ResultPacks
<1>4. GuardCrash \in Results /\ WriteGuard \in Results
  BY <1>2, <1>3 DEF Results, GuardCrash, WriteGuard
<1>5. \A r \in Results : r = Allowed \/ r.channel \in {"warning", "rewrite", "deny"}
  BY DEF Results
<1> QED
  BY <1>1, <1>4, <1>5 DEF Channels

(* A result is nothing worse than some rule of these demands.              *)
Within(r, demanded) ==
    \/ r = Allowed
    \/ r \in Results /\ \E g \in demanded : r.channel = g.channel

(* A result is as severe as all of them.                                   *)
Covers(r, demanded) == \A g \in demanded : Rank[g.channel] <= Rank[r.channel]

LEMMA ScanIs ==
    ASSUME NEW asked \in SUBSET Packs, NEW order \in Orders, NEW unit, NEW store
    PROVE  LET r == ScanPacks(asked, order, unit, store)
               demanded == UNION {DemandedBy(p, unit, store) : p \in asked}
           IN /\ r.channel \in Channels
              /\ Within(r, demanded)
              /\ (\A p \in asked : ~UndecidedBy(p, unit, store)) => Covers(r, demanded)
<1> DEFINE places == {k \in DOMAIN order : order[k] \in asked}
           verdict(n) == Verdict(Signals(order[n], unit, store))
           verdicts == [n \in places |-> verdict(n)]
           demanded == UNION {DemandedBy(p, unit, store) : p \in asked}
           r == ScanPacks(asked, order, unit, store)
<1>1. /\ \A k \in DOMAIN order : order[k] \in Packs
      /\ \A p \in Packs : \E k \in DOMAIN order : order[k] = p
      /\ DOMAIN order \subseteq Nat
  <2>1. Cardinality(Packs) \in Nat
    BY PacksAssumption, FS_CardinalityType
  <2>2. order \in [1..Cardinality(Packs) -> Packs]
    BY DEF Orders
  <2>3. DOMAIN order = 1..Cardinality(Packs)
    BY <2>2
  <2> QED
    BY <2>1, <2>2, <2>3 DEF Orders
<1>2. r = LetThrough(Verdict(verdicts))
  BY DEF ScanPacks
<1>3. ASSUME NEW n \in places
      PROVE  /\ \/ verdict(n) = Error /\ UndecidedBy(order[n], unit, store)
                \/ verdict(n) = Allowed
                \/ /\ verdict(n) \in Results
                   /\ \E g \in demanded : verdict(n).channel = g.channel
             /\ ~UndecidedBy(order[n], unit, store) =>
                  Covers(verdict(n), DemandedBy(order[n], unit, store))
  <2> DEFINE signals == Signals(order[n], unit, store)
  <2>1. order[n] \in asked /\ order[n] \in Packs
    BY <1>1
  <2>2. /\ Places(signals)
        /\ \A i \in DOMAIN signals :
             \/ signals[i] = Error /\ UndecidedBy(order[n], unit, store)
             \/ \E g \in DemandedBy(order[n], unit, store) :
                  signals[i] = [channel |-> g.channel, rule |-> g.id, pack |-> order[n]]
        /\ ~UndecidedBy(order[n], unit, store) =>
             \A g \in DemandedBy(order[n], unit, store) :
               \E i \in DOMAIN signals : signals[i].channel = g.channel
    BY <2>1, SignalsAre
  <2>3. /\ DOMAIN signals = {} => verdict(n) = Allowed
        /\ DOMAIN signals # {} => \E i \in DOMAIN signals : verdict(n) = signals[i]
        /\ (\A i \in DOMAIN signals : signals[i] # Error) =>
             \A j \in DOMAIN signals : Rank[signals[j].channel] <= Rank[verdict(n).channel]
    BY <2>2, VerdictIs
  <2>4. \A g \in DemandedBy(order[n], unit, store) : g.channel \in Channels /\ g \in demanded
    BY <2>1, PacksAssumption DEF DemandedBy, Channels
  <2>5. CASE DOMAIN signals = {}
    BY <2>2, <2>3, <2>5 DEF Covers
  <2>6. CASE DOMAIN signals # {}
    <3>1. PICK i \in DOMAIN signals : verdict(n) = signals[i]
      BY <2>3, <2>6
    <3>2. ASSUME ~UndecidedBy(order[n], unit, store)
          PROVE  Covers(verdict(n), DemandedBy(order[n], unit, store))
      <4>1. \A k \in DOMAIN signals : signals[k] # Error
        <5>1. ASSUME NEW k \in DOMAIN signals, signals[k] = Error PROVE FALSE
          <6>1. PICK g \in DemandedBy(order[n], unit, store) :
                   signals[k] = [channel |-> g.channel, rule |-> g.id, pack |-> order[n]]
            BY <2>2, <3>2, <5>1
          <6>2. signals[k].channel = g.channel /\ signals[k].channel = "error"
            BY <5>1, <6>1 DEF Error
          <6> QED
            BY <2>4, <6>2 DEF Channels
        <5> QED
          BY <5>1
      <4> QED
        BY <2>2, <2>3, <3>2, <4>1 DEF Covers
    <3>3. CASE signals[i] = Error /\ UndecidedBy(order[n], unit, store)
      BY <3>1, <3>2, <3>3
    <3>4. CASE \E g \in DemandedBy(order[n], unit, store) :
                 signals[i] = [channel |-> g.channel, rule |-> g.id, pack |-> order[n]]
      <4>1. PICK g \in DemandedBy(order[n], unit, store) :
               verdict(n) = [channel |-> g.channel, rule |-> g.id, pack |-> order[n]]
        BY <3>1, <3>4
      <4>2. verdict(n).channel = g.channel
        BY <4>1
      <4>3. g \in ToSet(Pack[order[n]].guarded)
        BY DEF DemandedBy
      <4>4. g.id \in RuleNames /\ g.channel \in {"warning", "rewrite", "deny"}
        <5>1. g.id \in {x.id : x \in ToSet(Pack[order[n]].guarded)}
          BY <4>3
        <5> QED
          BY <2>1, <4>3, <5>1, PacksAssumption DEF RuleNames, PackRules
      <4>5. verdict(n) \in Results
        BY <2>1, <4>1, <4>4 DEF Results, ResultPacks
      <4> QED
        BY <2>4, <3>2, <4>2, <4>5
    <3> QED
      BY <2>2, <3>3, <3>4
  <2> QED
    BY <2>5, <2>6
<1>4. Places(verdicts)
  <2>1. \A n \in places : verdict(n) = Error \/ verdict(n).channel \in Channels
    BY <1>3, ResultsAre
  <2> QED
    BY <1>1, <2>1 DEF Places
<1>5. /\ DOMAIN verdicts = {} => Verdict(verdicts) = Allowed
      /\ DOMAIN verdicts # {} => \E i \in DOMAIN verdicts : Verdict(verdicts) = verdicts[i]
      /\ (\A i \in DOMAIN verdicts : verdicts[i] # Error) =>
           \A j \in DOMAIN verdicts : Rank[verdicts[j].channel] <= Rank[Verdict(verdicts).channel]
  BY <1>4, VerdictIs
<1>6. Verdict(verdicts) = Error \/ Within(Verdict(verdicts), demanded)
  BY <1>3, <1>5 DEF Within
<1>7. r.channel \in Channels /\ Within(r, demanded)
  <2>1. Error.channel = "error" /\ Within(Allowed, demanded)
    BY ResultsAre DEF Error, Within
  <2> QED
    BY <1>2, <1>6, <2>1, ResultsAre DEF Within, LetThrough
<1>8. ASSUME \A p \in asked : ~UndecidedBy(p, unit, store)
      PROVE  Covers(r, demanded)
  <2>1. \A n \in places : order[n] \in asked
    OBVIOUS
  <2>2. \A n \in places : Within(verdict(n), demanded)
    BY <1>3, <1>8, <2>1 DEF Within
  <2>3. \A n \in places : verdicts[n].channel \in Channels
    BY <2>2, ResultsAre DEF Within
  <2>4. \A n \in places : verdicts[n] # Error
    BY <2>3 DEF Error, Channels
  <2>5. \A n \in places : Rank[verdicts[n].channel] <= Rank[Verdict(verdicts).channel]
    BY <1>5, <2>4
  <2>6. r = Verdict(verdicts)
    <3>1. Verdict(verdicts).channel # "error"
      BY <1>5, <2>3 DEF Allowed, Channels
    <3> QED
      BY <1>2, <3>1 DEF LetThrough
  <2>7. ASSUME NEW g \in demanded PROVE Rank[g.channel] <= Rank[r.channel]
    <3>1. PICK p \in asked : g \in DemandedBy(p, unit, store)
      OBVIOUS
    <3>2. PICK n \in DOMAIN order : order[n] = p
      BY <1>1
    <3>3. n \in places
      BY <3>2
    <3>4. Rank[g.channel] <= Rank[verdicts[n].channel]
      BY <1>3, <1>8, <3>1, <3>2, <3>3 DEF Covers
    <3>5. g.channel \in Channels
      BY <3>1, PacksAssumption DEF DemandedBy, Channels
    <3> QED
      BY <1>7, <2>3, <2>5, <2>6, <3>3, <3>4, <3>5, RankValues
  <2> QED
    BY <2>7 DEF Covers
<1> QED
  BY <1>7, <1>8

(* Without errors a verdict is the severest of the results.                *)
LEMMA VerdictCovers ==
    ASSUME NEW results, DOMAIN results \subseteq Nat,
           \A i \in DOMAIN results : results[i].channel \in Channels
    PROVE  /\ Verdict(results) = Allowed \/ \E i \in DOMAIN results : Verdict(results) = results[i]
           /\ DOMAIN results # {} => \E i \in DOMAIN results : Verdict(results) = results[i]
           /\ Verdict(results).channel \in Channels
           /\ \A j \in DOMAIN results : Rank[results[j].channel] <= Rank[Verdict(results).channel]
<1>1. Places(results) /\ \A i \in DOMAIN results : results[i] # Error
  BY DEF Places, Error, Channels
<1> QED
  BY <1>1, VerdictIs DEF Allowed, Channels

LEMMA UnitsAre ==
    ASSUME NEW name \in Calls
    PROVE  /\ DOMAIN Call[name].units \subseteq Nat \ {0}
           /\ DOMAIN Call[name].units # {}
           /\ \A i \in DOMAIN Call[name].units : Call[name].units[i] \in ToSet(Call[name].units)
           /\ \A u \in ToSet(Call[name].units) :
                \E i \in DOMAIN Call[name].units : Call[name].units[i] = u
<1> DEFINE units == Call[name].units
<1>1. units \in Seq(ToSet(units)) /\ units # <<>>
  BY CallsAssumption
<1>2. DOMAIN units = 1..Len(units) /\ Len(units) \in Nat \ {0}
  BY <1>1
<1>3. ToSet(units) = {units[i] : i \in DOMAIN units}
  BY DEF ToSet
<1> HIDE DEF units
<1>4. DOMAIN units \subseteq Nat \ {0} /\ DOMAIN units # {}
  BY <1>2
<1>5. /\ \A i \in DOMAIN units : units[i] \in ToSet(units)
      /\ \A u \in ToSet(units) : \E i \in DOMAIN units : units[i] = u
  BY <1>3
<1> QED
  BY <1>4, <1>5 DEF units

(* What a pack that is asked about a unit counts for the call.             *)
LEMMA PairCounts ==
    ASSUME NEW c, NEW store, NEW u, NEW p, <<u, p>> \in Applications(c)
    PROVE  /\ DemandedBy(p, u, store) \subseteq Demands(c, store)
           /\ UndecidedBy(p, u, store) => Undecided(c, store)
<1> DEFINE a == <<u, p>>
<1>1. a[1] = u /\ a[2] = p /\ a \in Applications(c)
  OBVIOUS
<1>2. DemandedBy(a[2], a[1], store) \subseteq Demands(c, store)
  BY <1>1 DEF Demands
<1>3. UndecidedBy(a[2], a[1], store) => Undecided(c, store)
  BY <1>1 DEF Undecided
<1> QED
  BY <1>1, <1>2, <1>3

(* The answer to a command is demanded by its rules, and by all of them if *)
(* they can be decided.                                                    *)
LEMMA CommandIs ==
    ASSUME NEW name \in Calls, Call[name].kind = "command", NEW order \in Orders, NEW store
    PROVE  LET r == EvaluateCommand(Call[name], order, store)
           IN /\ r.channel \in Channels
              /\ Within(r, Demands(Call[name], store))
              /\ ~Undecided(Call[name], store) => Covers(r, Demands(Call[name], store))
<1> DEFINE c == Call[name]
           demands == Demands(c, store)
           raw == EvaluateUnconditional(c.raw, order, store)
           token(i) == EvaluateToken(c.units[i], order, store)
           results == [i \in {0} \cup DOMAIN c.units |->
                         IF i # 0 THEN token(i) ELSE IF c.front = "hook" THEN raw ELSE Allowed]
           r == EvaluateCommand(c, order, store)
           decided == ~Undecided(c, store)
           ofUnit(u, asked) == UNION {DemandedBy(p, u, store) : p \in asked}
<1>1. r = Verdict(results)
  BY DEF EvaluateCommand
<1>2. DOMAIN results \subseteq Nat /\ 0 \notin DOMAIN c.units
  BY UnitsAre
<1>3. Applications(c) = IF c.front = "hook"
        THEN ({c.raw} \X UnconditionalPacks)
               \cup UNION {{u} \X TokenPacks(u.exe) : u \in ToSet(c.units)}
        ELSE UNION {{u} \X TokenPacks(u.exe) : u \in ToSet(c.units)}
  BY DEF Applications
<1>4. ASSUME NEW i \in DOMAIN c.units
      PROVE  /\ token(i).channel \in Channels
             /\ Within(token(i), demands)
             /\ decided => Covers(token(i), ofUnit(c.units[i], TokenPacks(c.units[i].exe)))
  <2>1. TokenPacks(c.units[i].exe) \subseteq Packs
    BY DEF TokenPacks
  <2>2. \A p \in TokenPacks(c.units[i].exe) : <<c.units[i], p>> \in Applications(c)
    BY <1>3, UnitsAre
  <2>3. ofUnit(c.units[i], TokenPacks(c.units[i].exe)) \subseteq demands
    BY <2>2, PairCounts
  <2>4. decided => \A p \in TokenPacks(c.units[i].exe) : ~UndecidedBy(p, c.units[i], store)
    BY <2>2, PairCounts
  <2>5. LET asked == TokenPacks(c.units[i].exe)
        IN /\ token(i).channel \in Channels
           /\ Within(token(i), ofUnit(c.units[i], asked))
           /\ (\A p \in asked : ~UndecidedBy(p, c.units[i], store)) =>
                Covers(token(i), ofUnit(c.units[i], asked))
    BY <2>1, ScanIs DEF EvaluateToken
  <2> QED
    BY <2>3, <2>4, <2>5 DEF Within
<1>5. ASSUME c.front = "hook"
      PROVE  /\ raw.channel \in Channels
             /\ Within(raw, demands)
             /\ decided => Covers(raw, ofUnit(c.raw, UnconditionalPacks))
  <2>1. UnconditionalPacks \subseteq Packs
    BY DEF UnconditionalPacks
  <2>2. \A p \in UnconditionalPacks : <<c.raw, p>> \in Applications(c)
    BY <1>3, <1>5
  <2>3. ofUnit(c.raw, UnconditionalPacks) \subseteq demands
    BY <2>2, PairCounts
  <2>4. decided => \A p \in UnconditionalPacks : ~UndecidedBy(p, c.raw, store)
    BY <2>2, PairCounts
  <2>5. /\ raw.channel \in Channels
        /\ Within(raw, ofUnit(c.raw, UnconditionalPacks))
        /\ (\A p \in UnconditionalPacks : ~UndecidedBy(p, c.raw, store)) =>
             Covers(raw, ofUnit(c.raw, UnconditionalPacks))
    BY <2>1, ScanIs DEF EvaluateUnconditional
  <2> QED
    BY <2>3, <2>4, <2>5 DEF Within
<1>6. ASSUME NEW i \in DOMAIN results
      PROVE  results[i].channel \in Channels /\ Within(results[i], demands)
  BY <1>2, <1>4, <1>5, ResultsAre DEF Within
<1>7. /\ r = Allowed \/ \E i \in DOMAIN results : r = results[i]
      /\ r.channel \in Channels
      /\ \A j \in DOMAIN results : Rank[results[j].channel] <= Rank[r.channel]
  BY <1>1, <1>2, <1>6, VerdictCovers
<1>8. Within(r, demands)
  BY <1>6, <1>7 DEF Within
<1>9. ASSUME decided, NEW g \in demands PROVE Rank[g.channel] <= Rank[r.channel]
  <2>1. PICK a \in Applications(c) : g \in DemandedBy(a[2], a[1], store)
    BY <1>9 DEF Demands
  <2>2. \E i \in DOMAIN results : Rank[g.channel] <= Rank[results[i].channel]
    <3>1. CASE c.front = "hook" /\ a \in {c.raw} \X UnconditionalPacks
      <4>1. Covers(raw, ofUnit(c.raw, UnconditionalPacks)) /\ a[1] = c.raw
        BY <1>5, <1>9, <3>1
      <4>2. g \in ofUnit(c.raw, UnconditionalPacks)
        BY <2>1, <3>1
      <4>3. results[0] = raw /\ 0 \in DOMAIN results
        BY <3>1
      <4> QED
        BY <4>1, <4>2, <4>3 DEF Covers
    <3>2. CASE \E u \in ToSet(c.units) : a \in {u} \X TokenPacks(u.exe)
      <4>1. PICK i \in DOMAIN c.units : a \in {c.units[i]} \X TokenPacks(c.units[i].exe)
        BY <3>2, UnitsAre
      <4>2. g \in ofUnit(c.units[i], TokenPacks(c.units[i].exe))
        BY <2>1, <4>1
      <4>3. results[i] = token(i) /\ i \in DOMAIN results
        BY <1>2
      <4>4. Covers(token(i), ofUnit(c.units[i], TokenPacks(c.units[i].exe)))
        BY <1>4, <1>9
      <4> QED
        BY <4>2, <4>3, <4>4 DEF Covers
    <3>3. \/ c.front = "hook" /\ a \in {c.raw} \X UnconditionalPacks
          \/ a \in UNION {{u} \X TokenPacks(u.exe) : u \in ToSet(c.units)}
      BY <1>3
    <3> QED
      BY <2>1, <3>1, <3>2, <3>3
  <2>3. g.channel \in Channels
    <3>1. a[2] \in Packs
      BY <1>3, <2>1 DEF TokenPacks, UnconditionalPacks
    <3> QED
      BY <2>1, <3>1, PacksAssumption DEF DemandedBy, Channels
  <2> QED
    BY <1>6, <1>7, <2>2, <2>3, RankValues
<1> QED
  BY <1>7, <1>8, <1>9 DEF Covers

(* So is the answer to a write, unless a built-in guard denies it.         *)
LEMMA ContentIs ==
    ASSUME NEW name \in Calls, Call[name].kind \in {"content", "batch"},
           NEW order \in Orders, NEW store, NEW closed \in BOOLEAN
    PROVE  LET c == Call[name]
               r == Evaluate(c, order, store, FALSE, closed)
           IN /\ r \in Results
              /\ Within(r, Demands(c, store)) \/ BuiltinGuarded(c)
              /\ BuiltinGuarded(c) => r.channel = "deny"
              /\ ~Undecided(c, store) => Covers(r, Demands(c, store))
<1> DEFINE c == Call[name]
           demands == Demands(c, store)
           reply(i) == EvaluateContent(c.units[i], order, store, FALSE, closed)
           results == [i \in DOMAIN c.units |-> reply(i)]
           r == Evaluate(c, order, store, FALSE, closed)
           ofUnit(u, asked) == UNION {DemandedBy(p, u, store) : p \in asked}
<1>1. r = Verdict(results)
  BY DEF Evaluate
<1>2. Applications(c) = UNION {{u} \X ContentPacks(u.file) : u \in ToSet(c.units)}
  BY DEF Applications
<1>3. ASSUME NEW i \in DOMAIN c.units
      PROVE  /\ reply(i) \in Results
             /\ IF c.units[i].builtin THEN reply(i).channel = "deny" ELSE Within(reply(i), demands)
             /\ ~Undecided(c, store) => Covers(reply(i), ofUnit(c.units[i], ContentPacks(c.units[i].file)))
  <2> DEFINE asked == ContentPacks(c.units[i].file)
  <2>1. asked \subseteq Packs
    BY DEF ContentPacks
  <2>2. CASE c.units[i].builtin
    <3>1. reply(i) = WriteGuard /\ WriteGuard.channel = "deny"
      BY <2>2 DEF EvaluateContent, WriteGuard
    <3>2. \A g \in ofUnit(c.units[i], asked) : g.channel \in Channels
      BY <2>1, PacksAssumption DEF DemandedBy, Channels
    <3>3. Rank[WriteGuard.channel] = 3
      BY <3>1, RankValues
    <3>4. \A g \in ofUnit(c.units[i], asked) : Rank[g.channel] <= Rank[WriteGuard.channel]
      BY <3>2, <3>3, RankValues
    <3>5. reply(i) \in Results
      BY <3>1, ResultsAre
    <3>6. Covers(reply(i), ofUnit(c.units[i], asked))
      BY <3>1, <3>4 DEF Covers
    <3> HIDE DEF reply, ofUnit, demands, asked
    <3>7. IF c.units[i].builtin THEN reply(i).channel = "deny" ELSE Within(reply(i), demands)
      BY <2>2, <3>1
    <3>8. Covers(reply(i), ofUnit(c.units[i], ContentPacks(c.units[i].file)))
      BY <3>6 DEF asked
    <3> QED
      BY <3>5, <3>7, <3>8
  <2>3. CASE ~c.units[i].builtin
    <3>1. reply(i) = ScanPacks(asked, order, c.units[i], store)
      BY <2>3 DEF EvaluateContent
    <3>2. \A p \in asked : <<c.units[i], p>> \in Applications(c)
      BY <1>2, UnitsAre
    <3>3. ofUnit(c.units[i], asked) \subseteq demands
      BY <3>2, PairCounts
    <3>4. ~Undecided(c, store) => \A p \in asked : ~UndecidedBy(p, c.units[i], store)
      BY <3>2, PairCounts
    <3>5. /\ ScanPacks(asked, order, c.units[i], store).channel \in Channels
          /\ Within(ScanPacks(asked, order, c.units[i], store), ofUnit(c.units[i], asked))
          /\ (\A p \in asked : ~UndecidedBy(p, c.units[i], store)) =>
               Covers(ScanPacks(asked, order, c.units[i], store), ofUnit(c.units[i], asked))
      <4> HIDE DEF asked
      <4> QED
        BY <2>1, ScanIs
    <3> HIDE DEF reply
    <3> QED
      BY <2>3, <3>1, <3>3, <3>4, <3>5, ResultsAre DEF Within
  <2> QED
    BY <2>2, <2>3
<1> HIDE DEF reply, r
<1>4. /\ r = Allowed \/ \E i \in DOMAIN results : r = results[i]
      /\ r.channel \in Channels /\ r \in Results
      /\ \A j \in DOMAIN results : Rank[results[j].channel] <= Rank[r.channel]
  <2>1. DOMAIN results \subseteq Nat
    BY UnitsAre
  <2>2. \A i \in DOMAIN results : results[i] \in Results /\ results[i].channel \in Channels
    BY <1>3, ResultsAre
  <2>3. /\ r = Allowed \/ \E i \in DOMAIN results : r = results[i]
        /\ r.channel \in Channels
        /\ \A j \in DOMAIN results : Rank[results[j].channel] <= Rank[r.channel]
    BY <1>1, <2>1, <2>2, VerdictCovers
  <2> QED
    BY <2>2, <2>3, ResultsAre
<1>5. ASSUME ~BuiltinGuarded(c) PROVE Within(r, demands)
  <2>1. \A i \in DOMAIN c.units : ~c.units[i].builtin
    BY <1>5, UnitsAre DEF BuiltinGuarded
  <2> QED
    BY <1>3, <1>4, <2>1 DEF Within
<1>6. ASSUME BuiltinGuarded(c) PROVE r.channel = "deny"
  <2>1. PICK i \in DOMAIN c.units : c.units[i].builtin
    BY <1>6, UnitsAre DEF BuiltinGuarded
  <2>2. Rank["deny"] <= Rank[r.channel]
    BY <1>3, <1>4, <2>1
  <2> QED
    BY <1>4, <2>2, RankValues
<1>7. ASSUME ~Undecided(c, store), NEW g \in demands PROVE Rank[g.channel] <= Rank[r.channel]
  <2>1. PICK a \in Applications(c) : g \in DemandedBy(a[2], a[1], store)
    BY <1>7 DEF Demands
  <2>2. PICK u \in ToSet(c.units) : a \in {u} \X ContentPacks(u.file)
    BY <1>2
  <2>3. PICK i \in DOMAIN c.units : c.units[i] = u
    BY UnitsAre
  <2>4. g \in ofUnit(c.units[i], ContentPacks(c.units[i].file))
    BY <2>1, <2>2, <2>3
  <2>5. Rank[g.channel] <= Rank[reply(i).channel]
    BY <1>3, <1>7, <2>4 DEF Covers
  <2>6. g.channel \in Channels
    <3>1. a[2] \in Packs
      BY <2>2 DEF ContentPacks
    <3> QED
      BY <2>1, <3>1, PacksAssumption DEF DemandedBy, Channels
  <2>7. Rank[reply(i).channel] <= Rank[r.channel]
    BY <1>4
  <2> QED
    BY <1>3, <1>4, <2>5, <2>6, <2>7, RankOrder, ResultsAre
<1> QED
  BY <1>4, <1>5, <1>6, <1>7 DEF Covers, r

(* After a failed load the posture decides, built-in guards aside.         *)
LEMMA FaultyIs ==
    ASSUME NEW name \in Calls, Call[name].kind # "unsupported",
           NEW order \in Orders, NEW store, NEW closed \in BOOLEAN
    PROVE  Evaluate(Call[name], order, store, TRUE, closed).channel =
             IF closed \/ BuiltinGuarded(Call[name]) THEN "deny" ELSE "allowed"
<1> DEFINE c == Call[name]
           reply(i) == EvaluateContent(c.units[i], order, store, TRUE, closed)
           results == [i \in DOMAIN c.units |-> reply(i)]
           r == Evaluate(c, order, store, TRUE, closed)
<1>1. CASE c.kind = "command"
  BY <1>1 DEF Evaluate, Unavailable, BuiltinGuarded, GuardCrash, Allowed
<1>2. CASE c.kind \in {"content", "batch"}
  <2>1. r = Verdict(results)
    BY <1>2 DEF Evaluate
  <2>2. \A i \in DOMAIN c.units :
          reply(i).channel = IF closed \/ c.units[i].builtin THEN "deny" ELSE "allowed"
    BY DEF EvaluateContent, WriteGuard, Unavailable, GuardCrash, Allowed
  <2> SUFFICES r.channel = IF closed \/ BuiltinGuarded(c) THEN "deny" ELSE "allowed"
    OBVIOUS
  <2> HIDE DEF reply, r
  <2>3. /\ DOMAIN results \subseteq Nat /\ DOMAIN results # {}
        /\ \A i \in DOMAIN results : results[i].channel \in Channels
    BY <2>2, UnitsAre DEF Channels
  <2>4. /\ \E i \in DOMAIN results : r = results[i]
        /\ r.channel \in Channels
        /\ \A j \in DOMAIN results : Rank[results[j].channel] <= Rank[r.channel]
    BY <2>1, <2>3, VerdictCovers
  <2>8. PICK k \in DOMAIN c.units : r = reply(k)
    BY <2>4
  <2>5. CASE closed
    BY <2>2, <2>5, <2>8
  <2>6. CASE ~closed /\ BuiltinGuarded(c)
    <3>1. PICK i \in DOMAIN c.units : c.units[i].builtin
      BY <2>6, UnitsAre DEF BuiltinGuarded
    <3>2. reply(i).channel = "deny" /\ Rank[reply(i).channel] <= Rank[r.channel]
      BY <2>2, <2>4, <3>1
    <3> QED
      BY <2>4, <2>6, <3>2, RankOrder
  <2>7. CASE ~closed /\ ~BuiltinGuarded(c)
    <3>1. \A i \in DOMAIN c.units : ~c.units[i].builtin
      BY <1>2, <2>7, UnitsAre DEF BuiltinGuarded
    <3> QED
      BY <2>2, <2>7, <2>8, <3>1
  <2> QED
    BY <2>5, <2>6, <2>7
<1> QED
  BY <1>1, <1>2, CallsAssumption

LEMMA FaultyIsAResult ==
    ASSUME NEW name \in Calls, NEW order \in Orders, NEW store, NEW closed \in BOOLEAN
    PROVE  Evaluate(Call[name], order, store, TRUE, closed) \in Results
<1> DEFINE c == Call[name]
           reply(i) == EvaluateContent(c.units[i], order, store, TRUE, closed)
           results == [i \in DOMAIN c.units |-> reply(i)]
           r == Evaluate(c, order, store, TRUE, closed)
<1>1. Unavailable(closed) \in Results
  BY ResultsAre DEF Unavailable
<1>2. c.kind = "command" \/ c.kind = "unsupported" => r \in Results
  BY <1>1, ResultsAre DEF Evaluate
<1>3. ASSUME c.kind \in {"content", "batch"} PROVE r \in Results
  <2>1. r = Verdict(results)
    BY <1>3 DEF Evaluate
  <2>2. \A i \in DOMAIN results : results[i] \in Results
    BY <1>1, ResultsAre DEF EvaluateContent
  <2> HIDE DEF reply, r
  <2>3. DOMAIN results \subseteq Nat /\ \A i \in DOMAIN results : results[i].channel \in Channels
    BY <2>2, UnitsAre, ResultsAre
  <2>4. r = Allowed \/ \E i \in DOMAIN results : r = results[i]
    BY <2>1, <2>3, VerdictCovers
  <2> QED
    BY <2>2, <2>4, ResultsAre
<1> QED
  BY <1>2, <1>3, CallsAssumption

(* Whatever the order of its packs, what the engine answers is something   *)
(* the rules demand, and if every pattern can be decided it is the         *)
(* severest of that (engine.rs, evaluate_command and evaluate_content).    *)
THEOREM EngineIsSeverest ==
    ASSUME NEW name \in Calls, NEW order \in Orders, NEW store, NEW closed \in BOOLEAN
    PROVE  LET c == Call[name]
               reply == Evaluate(c, order, store, FALSE, closed)
           IN /\ reply \in Results
              /\ reply.channel = "deny" => Severest(c, store) = "deny"
              /\ reply.channel = "rewrite" => Severest(c, store) \in {"deny", "rewrite"}
              /\ ~Undecided(c, store) => reply.channel = Severest(c, store)
<1> DEFINE c == Call[name]
           demanded == {g.channel : g \in Demands(c, store)}
           r == Evaluate(c, order, store, FALSE, closed)
<1>1. demanded \subseteq {"warning", "rewrite", "deny"}
  <2>1. ASSUME NEW a \in Applications(c), NEW g \in DemandedBy(a[2], a[1], store)
        PROVE  g.channel \in {"warning", "rewrite", "deny"}
    <3>1. a[2] \in Packs
      BY DEF Applications, TokenPacks, ContentPacks, UnconditionalPacks
    <3> QED
      BY <3>1, PacksAssumption DEF DemandedBy
  <2> QED
    BY <2>1 DEF Demands
<1>2. /\ r.channel \in Channels /\ r \in Results
      /\ Within(r, Demands(c, store)) \/ BuiltinGuarded(c)
      /\ BuiltinGuarded(c) => r.channel = "deny"
      /\ ~Undecided(c, store) => Covers(r, Demands(c, store))
  <2>1. CASE c.kind = "command"
    <3>1. r = EvaluateCommand(c, order, store) /\ ~BuiltinGuarded(c)
      BY <2>1 DEF Evaluate, BuiltinGuarded
    <3>2. Within(r, Demands(c, store)) => r \in Results
      BY ResultsAre DEF Within
    <3> QED
      BY <2>1, <3>1, <3>2, CommandIs
  <2>2. CASE c.kind \in {"content", "batch"}
    BY <2>2, ContentIs, ResultsAre
  <2>3. CASE c.kind = "unsupported"
    <3>1. Applications(c) = {}
      BY <2>3 DEF Applications
    <3>2. Demands(c, store) = {} /\ r = Allowed /\ ~BuiltinGuarded(c)
      BY <2>3, <3>1 DEF Demands, Evaluate, BuiltinGuarded
    <3> HIDE DEF r
    <3> QED
      BY <3>2, ResultsAre DEF Within, Covers
  <2> QED
    BY <2>1, <2>2, <2>3, CallsAssumption
<1> HIDE DEF r
<1>3. Severest(c, store) = IF "deny" \in demanded \/ BuiltinGuarded(c) THEN "deny"
                           ELSE IF "rewrite" \in demanded THEN "rewrite"
                           ELSE IF "warning" \in demanded THEN "warning"
                           ELSE "allowed"
  BY DEF Severest
<1>4. r.channel = "allowed" \/ r.channel \in demanded \/ BuiltinGuarded(c)
  BY <1>2 DEF Within, Allowed
<1>5. r.channel = "deny" => Severest(c, store) = "deny"
  BY <1>3, <1>4
<1>6. r.channel = "rewrite" => Severest(c, store) \in {"deny", "rewrite"}
  BY <1>3, <1>4
<1>7. ASSUME ~Undecided(c, store) PROVE r.channel = Severest(c, store)
  <2>1. \A x \in demanded : Rank[x] <= Rank[r.channel]
    BY <1>2, <1>7 DEF Covers
  <2>2. CASE BuiltinGuarded(c)
    BY <1>2, <1>3, <2>2
  <2>3. CASE ~BuiltinGuarded(c) /\ "deny" \in demanded
    BY <1>2, <1>3, <2>1, <2>3, RankValues
  <2>4. CASE ~BuiltinGuarded(c) /\ "deny" \notin demanded /\ "rewrite" \in demanded
    <3>1. r.channel # "deny"
      BY <1>4, <2>4
    <3>2. r.channel = "rewrite"
      BY <1>2, <2>1, <2>4, <3>1, RankValues DEF Channels
    <3> QED
      BY <1>3, <2>4, <3>2
  <2>5. CASE ~BuiltinGuarded(c) /\ "deny" \notin demanded /\ "rewrite" \notin demanded
    <3>1. r.channel \in {"allowed", "warning"}
      BY <1>1, <1>4, <2>5
    <3>2. "warning" \in demanded => r.channel = "warning"
      BY <2>1, <3>1, RankValues
    <3>3. "warning" \notin demanded => r.channel = "allowed"
      BY <1>4, <2>5, <3>1
    <3> QED
      BY <1>3, <2>5, <3>2, <3>3
  <2> QED
    BY <2>2, <2>3, <2>4, <2>5
<1> QED
  BY <1>2, <1>5, <1>6, <1>7 DEF r
-----------------------------------------------------------------------------
(* The inductive invariant.                                                *)

Denials == Invocations \cup {<<"older", k>> : k \in 0..MaxRotated}
Cases == {NoCase} \cup (RuleNames \X Calls \X Nat)

TypeOK ==
    /\ posture \in {"open", "closed", "practice", "bypass"}
    /\ marks \subseteq MarkNames
    /\ corpus \in [ResultPacks -> Seq(Cases)]
    /\ log \subseteq Denials /\ recorded \subseteq Denials /\ expired \subseteq Denials
    /\ rotated \in [1..MaxRotated -> SUBSET Denials]
    /\ pc \in [Invocations -> Steps]
    /\ call \in [Invocations -> Calls \cup {"none"}]
    /\ health \in [Invocations -> Healths]
    /\ saw \in [Invocations -> SUBSET MarkNames]
    /\ result \in [Invocations -> Results]
    /\ case \in [Invocations -> Cases]
    /\ counted \in [Invocations -> Nat]
    /\ seen \in [Invocations -> Seq(Cases)]
    /\ slot \in [Invocations -> 0..MaxRotated]
    /\ pruning = NoPrune \/ pruning \in [pack : ResultPacks, read : Seq(Cases)]
    /\ troubles \in Nat
    /\ granted \subseteq MarkNames /\ vanished \subseteq MarkNames

(* Whether a result is one that the rules, the posture and the state of    *)
(* the packs and the store leave open.                                     *)
SoundResult(s, r) ==
    LET c == Call[s.call]
    IN /\ s.health = "halted" => r.channel = "deny"
       /\ s.health = "faulty" /\ c.kind # "unsupported" =>
            r.channel = IF s.closed \/ BuiltinGuarded(c) THEN "deny" ELSE "allowed"
       /\ s.health \in {"healthy", "blind"} =>
            /\ r.channel = "deny" => Severest(c, StoreIn(s)) = "deny"
            /\ r.channel = "rewrite" => Severest(c, StoreIn(s)) \in {"deny", "rewrite"}
            /\ ~Undecided(c, StoreIn(s)) => r.channel = Severest(c, StoreIn(s))
            /\ c.kind = "unsupported" => r = Allowed

SoundCount(name, h, r, n) ==
    /\ n <= 1 + Len(Call[name].units)
    /\ n # 1 => \/ h = "halted" \/ Call[name].kind = "unsupported"
                \/ Call[name].kind = "batch" /\ r.channel = "deny"

(* From its judgement on, an invocation holds a sound result for the call  *)
(* it has read and the marks it saw; it halts only under Fail-Closed; and  *)
(* it answers as its result says.                                          *)
Deciding == Steps \ (Answered \cup {"idle", "judge", "done"})
WellJudged(i) ==
    /\ pc[i] \notin {"idle", "done"} => call[i] \in Calls
    /\ health[i] = "halted" => posture = "closed"
    /\ posture = "bypass" => pc[i] \in Answered \cup {"idle", "answer", "done"} /\ result[i] = Allowed
    /\ pc[i] \in Deciding \cup Answered /\ posture # "bypass" =>
         /\ SoundResult(Situation(i, saw[i]), result[i])
         /\ SoundCount(call[i], health[i], result[i], counted[i])
    /\ pc[i] \in Answered /\ posture \in {"open", "closed"} =>
         pc[i] \in CASE result[i].channel = "deny" -> {"blocked"}
                     [] result[i].channel = "rewrite" -> {"rewrote", "blocked"}
                     [] OTHER -> {"ran"}
JudgedWell == \A i \in Invocations : WellJudged(i)

(* A mark is one whose call was let through, was killed, or is about to be *)
(* let through; and what an invocation has seen is still set.              *)
MarksHaveCauses ==
    /\ \A m \in marks \ (granted \cup vanished) :
         \E j \in Invocations : /\ pc[j] = "answer" /\ result[j] = Allowed
                                /\ m \in MarksOf(Call[call[j]])
    /\ \A i \in Invocations : saw[i] \subseteq marks
    /\ \A i \in Invocations : pc[i] = "mark" => result[i] = Allowed

(* Unless rotations have overlapped: one invocation rotates at a time, the *)
(* slot it will fill is free, the log it will move is there; so that what  *)
(* was recorded is kept, and every denial recorded.                        *)
HealthyAtFirst == troubles = 0 => \A i \in Invocations : health[i] = "healthy"
OneRotates == \A i, j \in Invocations : pc[i] \in Rotating /\ pc[j] \in Rotating => i = j
SlotIsRight ==
    \A i \in Invocations :
        /\ pc[i] \in {"remove", "rename"} => log # {}
        /\ pc[i] = "remove" => slot[i] = MaxRotated
        /\ pc[i] = "rename" => slot[i] # 0 /\ rotated[slot[i]] = {}
StaysRecorded == recorded \subseteq log \cup expired \cup UNION {rotated[k] : k \in 1..MaxRotated}
Owed(i) == pc[i] \in Answered \cup {"answer"} /\ result[i].channel = "deny"
DenialsAreRecorded ==
    troubles = 0 /\ posture # "bypass" => \A i \in Invocations : Owed(i) => i \in recorded
LogIsKept ==
    /\ HealthyAtFirst
    /\ "log" \notin raced => OneRotates /\ SlotIsRight /\ StaysRecorded /\ DenialsAreRecorded

(* Unless writers of a corpus have met: it holds each case once and is     *)
(* within its limit, and who is about to append has seen room for a new    *)
(* case.                                                                   *)
Distinct(cases) == \A j, k \in DOMAIN cases : cases[j] = cases[k] => j = k
SawRoom ==
    \A i \in Invocations :
        /\ pc[i] \in {"corpus", "append"} => result[i].pack \in ResultPacks
        /\ pc[i] = "append" => case[i] \notin ToSet(seen[i]) /\ Len(seen[i]) < CorpusLimit
CorpusIsRight == \A p \in ResultPacks : Len(corpus[p]) <= CorpusLimit /\ Distinct(corpus[p])
CorpusIsKept == SawRoom /\ ("corpus" \notin raced => CorpusIsRight)

IInv == TypeOK /\ JudgedWell /\ MarksHaveCauses /\ LogIsKept /\ CorpusIsKept

-----------------------------------------------------------------------------
(* Decisions.                                                              *)

LEMMA DecisionsAre ==
    ASSUME NEW s \in Situations, NEW d \in Decisions[s]
    PROVE  \E order \in Orders : d.result = Decision(s, order) /\ d.file = DeniedFile(s, order)
<1>1. Decisions[s] = {[result |-> Decision(s, order), file |-> DeniedFile(s, order)] : order \in Orders}
  BY DEF Decisions
<1> QED
  BY <1>1

LEMMA DeniedFileIs ==
    ASSUME NEW s \in Situations, NEW order
    PROVE  DeniedFile(s, order) \in {0} \cup DOMAIN Call[s.call].units
<1> DEFINE units == Call[s.call].units
           same == {k \in DOMAIN units :
                      EvaluateContent(units[k], order, StoreIn(s), s.health = "faulty", s.closed)
                        = Decision(s, order)}
<1>1. DeniedFile(s, order) = IF Call[s.call].kind # "batch" \/ same = {} THEN 0 ELSE Min(same)
  BY DEF DeniedFile
<1>2. same \in SUBSET DOMAIN units /\ DOMAIN units \in SUBSET Nat
  BY UnitsAre DEF Situations
<1> HIDE DEF same
<1> QED
  BY <1>1, <1>2, Least

LEMMA DecisionsAreSound ==
    ASSUME NEW s \in Situations, NEW d \in Decisions[s]
    PROVE  /\ d.result \in Results /\ SoundResult(s, d.result)
           /\ d.file \in Nat
           /\ Count(s.call, s.health, d) \in Nat
           /\ SoundCount(s.call, s.health, d.result, Count(s.call, s.health, d))
<1> DEFINE c == Call[s.call]
<1>1. PICK order \in Orders : d.result = Decision(s, order) /\ d.file = DeniedFile(s, order)
  BY DecisionsAre
<1> HIDE DEF c
<1>2. s.call \in Calls /\ s.health \in Healths /\ s.closed \in BOOLEAN
  BY DEF Situations
<1>3. Len(c.units) \in Nat \ {0} /\ (d.file = 0 \/ d.file \in 1..Len(c.units))
  <2>1. c.units \in Seq(ToSet(c.units)) /\ c.units # <<>>
    BY <1>2, CallsAssumption DEF c
  <2>2. DOMAIN c.units = 1..Len(c.units) /\ Len(c.units) \in Nat
    BY <2>1
  <2>3. Len(c.units) # 0
    BY <2>1
  <2> QED
    BY <1>1, <2>2, <2>3, DeniedFileIs DEF c
<1>4. d.file \in Nat
  BY <1>3
<1>5. /\ Count(s.call, s.health, d) \in Nat
      /\ SoundCount(s.call, s.health, d.result, Count(s.call, s.health, d))
  <2> DEFINE first == IF s.health = "halted" \/ c.kind = "unsupported" THEN 0 ELSE 1
             again == IF c.kind # "batch" \/ d.result.channel # "deny" THEN 0
                      ELSE IF d.file = 0 THEN Len(c.units) ELSE d.file
  <2>1. Count(s.call, s.health, d) = first + again
    BY DEF Count, c
  <2>2. again \in Nat /\ again <= Len(c.units)
    BY <1>3
  <2>3. first + again <= 1 + Len(c.units)
    BY <1>3, <2>2
  <2>4. first + again # 1 => \/ s.health = "halted" \/ c.kind = "unsupported"
                             \/ c.kind = "batch" /\ d.result.channel = "deny"
    OBVIOUS
  <2>5. first + again \in Nat
    BY <2>2
  <2> QED
    BY <2>1, <2>3, <2>4, <2>5 DEF SoundCount, c
<1>6. d.result \in Results /\ SoundResult(s, d.result)
  <2>1. CASE s.health = "halted"
    <3>1. d.result = GuardCrash /\ GuardCrash.channel = "deny"
      BY <1>1, <2>1 DEF Decision, GuardCrash
    <3> QED
      BY <2>1, <3>1, ResultsAre DEF SoundResult
  <2>2. CASE s.health = "faulty"
    <3>1. d.result = Evaluate(c, order, StoreIn(s), TRUE, s.closed)
      BY <1>1, <2>2 DEF Decision, c
    <3>2. d.result \in Results
      BY <1>2, <3>1, FaultyIsAResult DEF c
    <3>3. c.kind # "unsupported" =>
            d.result.channel = IF s.closed \/ BuiltinGuarded(c) THEN "deny" ELSE "allowed"
      <4> DEFINE load == s.closed
      <4>1. load \in BOOLEAN
        BY <1>2
      <4>2. d.result = Evaluate(Call[s.call], order, StoreIn(s), TRUE, load)
        BY <3>1 DEF c
      <4> HIDE DEF load
      <4>3. Call[s.call].kind # "unsupported" =>
              Evaluate(Call[s.call], order, StoreIn(s), TRUE, load).channel =
                IF load \/ BuiltinGuarded(Call[s.call]) THEN "deny" ELSE "allowed"
        BY <1>2, <4>1, FaultyIs
      <4> QED
        BY <4>2, <4>3 DEF load, c
    <3> QED
      BY <2>2, <3>2, <3>3 DEF SoundResult, c
  <2>3. CASE s.health \in {"healthy", "blind"}
    <3>1. d.result = Evaluate(c, order, StoreIn(s), FALSE, s.closed)
      BY <1>1, <2>3 DEF Decision, c
    <3>2. c.kind = "unsupported" => d.result = Allowed
      BY <3>1 DEF Evaluate
    <3>3. /\ d.result \in Results
          /\ d.result.channel = "deny" => Severest(c, StoreIn(s)) = "deny"
          /\ d.result.channel = "rewrite" => Severest(c, StoreIn(s)) \in {"deny", "rewrite"}
          /\ ~Undecided(c, StoreIn(s)) => d.result.channel = Severest(c, StoreIn(s))
      <4> DEFINE load == s.closed
      <4>1. load \in BOOLEAN
        BY <1>2
      <4>2. d.result = Evaluate(Call[s.call], order, StoreIn(s), FALSE, load)
        BY <3>1 DEF c
      <4> HIDE DEF load
      <4>3. LET r == Evaluate(Call[s.call], order, StoreIn(s), FALSE, load)
            IN /\ r \in Results
               /\ r.channel = "deny" => Severest(Call[s.call], StoreIn(s)) = "deny"
               /\ r.channel = "rewrite" => Severest(Call[s.call], StoreIn(s)) \in {"deny", "rewrite"}
               /\ ~Undecided(Call[s.call], StoreIn(s)) => r.channel = Severest(Call[s.call], StoreIn(s))
        BY <1>2, <4>1, EngineIsSeverest
      <4> QED
        BY <4>2, <4>3 DEF c
    <3> QED
      BY <2>3, <3>2, <3>3 DEF SoundResult, c
  <2> QED
    BY <1>2, <2>1, <2>2, <2>3 DEF Healths
<1> QED
  BY <1>4, <1>5, <1>6

-----------------------------------------------------------------------------
(* The invariant is inductive.                                             *)

LEMMA Limits == CorpusLimit \in Nat \ {0} /\ LogLimit \in Nat \ {0} /\ MaxRotated \in Nat \ {0}
  BY LimitsAssumption

(* What a call sets are marks.                                             *)
LEMMA MarksAre == \A c \in Calls : MarksOf(Call[c]) \subseteq MarkNames
  BY DEF MarksOf, MarkNames

LEMMA SlotIs ==
    ASSUME NEW free \in SUBSET (1..MaxRotated), free # {}
    PROVE  (CHOOSE k \in free : \A j \in free : k <= j) \in free
<1>1. free \in SUBSET Nat
  BY Limits
<1>2. Min(free) \in free /\ \A m \in free : Min(free) <= m
  BY <1>1, Least
<1> QED
  BY <1>2

LEMMA SituationIs ==
    ASSUME TypeOK, NEW i \in Invocations, call[i] \in Calls, NEW m \in SUBSET MarkNames
    PROVE  Situation(i, m) \in Situations
  BY DEF TypeOK, Situation, Situations

(* What Judge decides.                                                     *)
LEMMA JudgeIs ==
    ASSUME TypeOK, JudgedWell, NEW i \in Invocations, Judge(i)
    PROVE  /\ call[i] \in Calls
           /\ \E d \in Decisions[Situation(i, marks)] :
                /\ d.result \in Results /\ SoundResult(Situation(i, marks), d.result)
                /\ d.file \in Nat
                /\ Count(call[i], health[i], d) \in Nat
                /\ SoundCount(call[i], health[i], d.result, Count(call[i], health[i], d))
                /\ Goto(i, "judge", AfterJudging(call[i], d.result))
                /\ result' = [result EXCEPT ![i] = d.result]
                /\ case' = [case EXCEPT ![i] =
                              IF d.result.channel # "deny" THEN NoCase
                              ELSE <<d.result.rule, call[i], IF d.file = 0 THEN 1 ELSE d.file>>]
                /\ counted' = [counted EXCEPT ![i] = Count(call[i], health[i], d)]
<1>1. call[i] \in Calls
  BY DEF Judge, JudgedWell, WellJudged
<1>2. PICK d \in Decisions[Situation(i, marks)] :
         /\ Goto(i, "judge", AfterJudging(call[i], d.result))
         /\ result' = [result EXCEPT ![i] = d.result]
         /\ case' = [case EXCEPT ![i] =
                       IF d.result.channel # "deny" THEN NoCase
                       ELSE <<d.result.rule, call[i], IF d.file = 0 THEN 1 ELSE d.file>>]
         /\ counted' = [counted EXCEPT ![i] = Count(call[i], health[i], d)]
  BY DEF Judge
<1> DEFINE s == Situation(i, marks)
<1>3. s \in Situations
  BY <1>1, SituationIs DEF TypeOK
<1>4. s.call = call[i] /\ s.health = health[i]
  BY DEF Situation
<1> HIDE DEF s
<1>5. d \in Decisions[s]
  BY DEF s
<1>6. /\ d.result \in Results /\ SoundResult(s, d.result)
      /\ d.file \in Nat
      /\ Count(s.call, s.health, d) \in Nat
      /\ SoundCount(s.call, s.health, d.result, Count(s.call, s.health, d))
  BY <1>3, <1>5, DecisionsAreSound
<1> QED
  BY <1>1, <1>2, <1>4, <1>6 DEF s

(* The members of a set of places are numbered in their order.             *)
LEMMA Numbered ==
    ASSUME NEW N \in Nat, NEW P \in SUBSET (1..N)
    PROVE  /\ Cardinality(P) \in Nat
           /\ \A n \in 1..Cardinality(P) : \E k \in P : Cardinality(P \cap (1..k)) = n
<1>1. \A k \in Nat : IsFiniteSet(1..k)
  BY FS_Interval
<1>2. IsFiniteSet(P) /\ Cardinality(P) \in Nat
  BY <1>1, FS_Subset, FS_CardinalityType
<1>3. \A k \in Nat : IsFiniteSet(P \cap (1..k)) /\ Cardinality(P \cap (1..k)) \in Nat
  <2> TAKE k \in Nat
  <2>1. P \cap (1..k) \in SUBSET (1..k)
    OBVIOUS
  <2> QED
    BY <1>1, <2>1, FS_Subset, FS_CardinalityType
<1>4. ASSUME NEW n \in 1..Cardinality(P) PROVE \E k \in P : Cardinality(P \cap (1..k)) = n
  <2> DEFINE count(k) == Cardinality(P \cap (1..k))
             enough == {k \in 0..N : count(k) >= n}
  <2>1. count(N) = Cardinality(P)
    <3>1. P \cap (1..N) = P
      OBVIOUS
    <3> QED
      BY <3>1
  <2>2. count(0) = 0
    <3>1. P \cap (1..0) = {}
      OBVIOUS
    <3> QED
      BY <3>1, FS_EmptySet
  <2>3. \A k \in Nat : count(k) \in Nat
    BY <1>3
  <2>4. \A k \in Nat \ {0} : IF k \in P THEN count(k) = count(k - 1) + 1 ELSE count(k) = count(k - 1)
    <3> TAKE k \in Nat \ {0}
    <3>1. CASE k \in P
      <4>1. P \cap (1..k) = (P \cap (1..(k - 1))) \cup {k} /\ k \notin P \cap (1..(k - 1))
        BY <3>1
      <4>2. IsFiniteSet(P \cap (1..(k - 1)))
        BY <1>3
      <4> QED
        BY <3>1, <4>1, <4>2, FS_AddElement
    <3>2. CASE k \notin P
      <4>1. P \cap (1..k) = P \cap (1..(k - 1))
        BY <3>2
      <4> QED
        BY <3>2, <4>1
    <3> QED
      BY <3>1, <3>2
  <2> HIDE DEF count
  <2>5. N \in enough /\ enough \in SUBSET Nat
    BY <1>2, <2>1
  <2>6. Min(enough) \in enough /\ \A m \in enough : Min(enough) <= m
    BY <2>5, Least
  <2> DEFINE k == Min(enough)
  <2>7. k \in 0..N /\ count(k) >= n /\ \A m \in enough : k <= m
    BY <2>6
  <2> HIDE DEF k
  <2>8. k # 0
    BY <2>2, <2>7
  <2>9. k - 1 \in 0..N /\ k - 1 \notin enough
    BY <2>7, <2>8
  <2>10. count(k - 1) < n /\ count(k - 1) \in Nat
    BY <2>3, <2>9
  <2>11. k \in P /\ count(k) = n
    BY <2>3, <2>4, <2>7, <2>8, <2>10
  <2> QED
    BY <2>11 DEF count
<1> QED
  BY <1>2, <1>4

(* What a prune keeps of a corpus: each of its cases once, within the      *)
(* limit.                                                                  *)
LEMMA KeptIs ==
    ASSUME NEW S, NEW cases \in Seq(S)
    PROVE  /\ Kept(cases) \in Seq(S)
           /\ Len(Kept(cases)) <= CorpusLimit
           /\ Distinct(Kept(cases))
<1> DEFINE places == {k \in DOMAIN cases : \A j \in 1..(k - 1) : cases[j] # cases[k]}
           place(n) == CHOOSE k \in places : Cardinality(places \cap (1..k)) = n
           all == Cardinality(places)
           first == Firsts(cases)
<1>1. Len(cases) \in Nat /\ places \in SUBSET (1..Len(cases)) /\ \A k \in 1..Len(cases) : cases[k] \in S
  OBVIOUS
<1>2. first = [n \in 1..all |-> cases[place(n)]]
  BY DEF Firsts
<1>3. /\ all \in Nat
      /\ \A n \in 1..all : place(n) \in places /\ Cardinality(places \cap (1..place(n))) = n
  <2> HIDE DEF places
  <2> QED
    BY <1>1, Numbered
<1>4. \A j, k \in places : cases[j] = cases[k] => j = k
  <2>1. \A j, k \in places : j < k => cases[j] # cases[k]
    OBVIOUS
  <2> QED
    BY <1>1, <2>1
<1> HIDE DEF places, place, all
<1>5. first \in Seq(S) /\ Len(first) = all
  <2>1. \A n \in 1..all : cases[place(n)] \in S
    BY <1>1, <1>3
  <2> QED
    BY <1>2, <1>3, <2>1
<1>6. \A m, n \in 1..all : first[m] = first[n] => m = n
  BY <1>2, <1>3, <1>4
<1> HIDE DEF first
<1> DEFINE most == IF Len(first) > CorpusLimit THEN CorpusLimit ELSE Len(first)
<1>7. most \in 0..Len(first) /\ most <= CorpusLimit
  BY <1>3, <1>5, Limits
<1>8. Kept(cases) = SubSeq(first, 1, most)
  BY DEF Kept, first
<1> HIDE DEF most
<1>9. /\ SubSeq(first, 1, most) \in Seq(S) /\ Len(SubSeq(first, 1, most)) = most
      /\ \A n \in 1..most : SubSeq(first, 1, most)[n] = first[n]
  BY <1>5, <1>7, SubSeqProperties
<1>10. Distinct(SubSeq(first, 1, most))
  <2>1. DOMAIN SubSeq(first, 1, most) = 1..most /\ 1..most \subseteq 1..all
    BY <1>3, <1>5, <1>7, <1>9
  <2> QED
    BY <1>6, <1>9, <2>1 DEF Distinct
<1> QED
  BY <1>7, <1>8, <1>9, <1>10

-----------------------------------------------------------------------------
(* Types.                                                                  *)

LEMMA TypeInit == Init => TypeOK
<1> SUFFICES ASSUME Init PROVE TypeOK
  OBVIOUS
<1>1. log \subseteq Denials /\ rotated \in [1..MaxRotated -> SUBSET Denials]
  <2>1. PICK full \in 0..MaxRotated :
           rotated = [k \in 1..MaxRotated |-> IF k <= full THEN {<<"older", k>>} ELSE {}]
    BY DEF Init
  <2>2. \A k \in 0..MaxRotated : <<"older", k>> \in Denials
    BY DEF Denials
  <2> QED
    BY <2>1, <2>2, Limits DEF Init
<1>2. recorded \subseteq Denials
  BY <1>1 DEF Init
<1>3. corpus \in [ResultPacks -> Seq(Cases)] /\ seen \in [Invocations -> Seq(Cases)]
  BY DEF Init
<1>4. case \in [Invocations -> Cases] /\ result \in [Invocations -> Results]
  BY ResultsAre DEF Init, Cases
<1>5. pc \in [Invocations -> Steps] /\ health \in [Invocations -> Healths]
  BY DEF Init, Steps, Healths
<1>6. /\ posture \in {"open", "closed", "practice", "bypass"}
      /\ marks \subseteq MarkNames /\ granted \subseteq MarkNames /\ vanished \subseteq MarkNames
      /\ expired \subseteq Denials /\ troubles \in Nat /\ pruning = NoPrune
  BY DEF Init
<1>7. /\ call \in [Invocations -> Calls \cup {"none"}] /\ saw \in [Invocations -> SUBSET MarkNames]
      /\ counted \in [Invocations -> Nat] /\ slot \in [Invocations -> 0..MaxRotated]
  BY Limits DEF Init
<1> QED
  BY <1>1, <1>2, <1>3, <1>4, <1>5, <1>6, <1>7 DEF TypeOK

LEMMA CasesAre ==
    /\ NoCase \in Cases
    /\ \A r \in Results, c \in Calls, n \in Nat : r.channel = "deny" => <<r.rule, c, n>> \in Cases
<1>1. \A r \in Results : r.channel = "deny" => r.rule \in RuleNames
  BY DEF Results, Allowed
<1> QED
  BY <1>1 DEF Cases

LEMMA TypeNext ==
    ASSUME TypeOK, JudgedWell, CorpusIsKept, [Next]_vars
    PROVE  TypeOK'
<1> USE Limits
<1>1. ASSUME NEW i \in Invocations, NEW c \in Calls, Start(i, c) PROVE TypeOK'
  <2>1. pc' \in [Invocations -> Steps] /\ call' \in [Invocations -> Calls \cup {"none"}]
    BY <1>1 DEF TypeOK, Start, Goto, Steps
  <2>2. CASE UNCHANGED <<health, troubles>>
    BY <1>1, <2>1, <2>2 DEF TypeOK, Start, shared, history
  <2>3. CASE posture # "bypass" /\ Trouble
             /\ \E h \in {"faulty", "blind", "halted"} : health' = [health EXCEPT ![i] = h]
    <3>1. health' \in [Invocations -> Healths] /\ troubles' \in Nat
      BY <2>3 DEF TypeOK, Healths, Trouble
    <3> QED
      BY <1>1, <2>1, <3>1 DEF TypeOK, Start, shared, history
  <2> QED
    BY <1>1, <2>2, <2>3 DEF Start
<1>2. ASSUME NEW i \in Invocations, Judge(i) PROVE TypeOK'
  <2>1. PICK d \in Decisions[Situation(i, marks)] :
           /\ d.result \in Results /\ d.file \in Nat
           /\ Count(call[i], health[i], d) \in Nat
           /\ Goto(i, "judge", AfterJudging(call[i], d.result))
           /\ result' = [result EXCEPT ![i] = d.result]
           /\ case' = [case EXCEPT ![i] =
                         IF d.result.channel # "deny" THEN NoCase
                         ELSE <<d.result.rule, call[i], IF d.file = 0 THEN 1 ELSE d.file>>]
           /\ counted' = [counted EXCEPT ![i] = Count(call[i], health[i], d)]
    BY <1>2, JudgeIs
  <2>2. AfterJudging(call[i], d.result) \in Steps
    BY DEF AfterJudging, Steps
  <2>3. call[i] \in Calls
    BY <1>2, JudgeIs
  <2>4. case' \in [Invocations -> Cases]
    <3>1. (IF d.file = 0 THEN 1 ELSE d.file) \in Nat
      BY <2>1
    <3>2. (IF d.result.channel # "deny" THEN NoCase
           ELSE <<d.result.rule, call[i], IF d.file = 0 THEN 1 ELSE d.file>>) \in Cases
      BY <2>1, <2>3, <3>1, CasesAre
    <3> QED
      BY <2>1, <3>2 DEF TypeOK
  <2>5. counted' \in [Invocations -> Nat] /\ result' \in [Invocations -> Results]
        /\ pc' \in [Invocations -> Steps] /\ saw' \in [Invocations -> SUBSET MarkNames]
    BY <1>2, <2>1, <2>2 DEF TypeOK, Goto, Judge
  <2>6. UNCHANGED <<shared, call, health, seen, slot, pruning, troubles, history>>
    BY <1>2 DEF Judge
  <2> QED
    BY <2>4, <2>5, <2>6 DEF TypeOK, shared, history
<1>3. ASSUME NEW i \in Invocations, Mark(i) PROVE TypeOK'
  <2>1. call[i] \in Calls
    BY <1>3 DEF Mark, Goto, JudgedWell, WellJudged
  <2> QED
    BY <1>3, <2>1, MarksAre DEF TypeOK, Mark, Goto, Steps, Trouble, locals, history
<1>4. ASSUME NEW i \in Invocations, ReadCorpus(i) PROVE TypeOK'
  <2>1. result[i].pack \in ResultPacks
    BY <1>4 DEF ReadCorpus, Goto, CorpusIsKept, SawRoom
  <2>2. corpus[result[i].pack] \in Seq(Cases)
    BY <2>1 DEF TypeOK
  <2> QED
    BY <1>4, <2>2 DEF TypeOK, ReadCorpus, Goto, Steps, shared, history
<1>5. ASSUME NEW i \in Invocations, AppendCase(i) PROVE TypeOK'
  <2>1. result[i].pack \in ResultPacks
    BY <1>5 DEF AppendCase, Goto, CorpusIsKept, SawRoom
  <2>2. Append(corpus[result[i].pack], case[i]) \in Seq(Cases)
    BY <2>1 DEF TypeOK
  <2>3. corpus' \in [ResultPacks -> Seq(Cases)]
    BY <1>5, <2>1, <2>2 DEF TypeOK, AppendCase
  <2>4. pc' \in [Invocations -> Steps]
    BY <1>5 DEF TypeOK, AppendCase, Goto, Steps
  <2> QED
    BY <1>5, <2>3, <2>4 DEF TypeOK, AppendCase, locals
<1>6. ASSUME NEW i \in Invocations, CheckLog(i) PROVE TypeOK'
  BY <1>6 DEF TypeOK, CheckLog, Goto, Steps, recordingVars
<1>7. ASSUME NEW i \in Invocations, FindSlot(i) PROVE TypeOK'
  <2> DEFINE free == {k \in 1..MaxRotated : rotated[k] = {}}
  <2>1. free # {} => (CHOOSE k \in free : \A j \in free : k <= j) \in 1..MaxRotated
    <3>1. free \in SUBSET (1..MaxRotated)
      OBVIOUS
    <3> HIDE DEF free
    <3> QED
      BY <3>1, SlotIs
  <2>2. slot' \in [Invocations -> 0..MaxRotated]
    BY <1>7, <2>1 DEF TypeOK, FindSlot
  <2>3. pc' \in [Invocations -> Steps]
    BY <1>7 DEF TypeOK, FindSlot, Goto, Steps
  <2> QED
    BY <1>7, <2>2, <2>3 DEF TypeOK, FindSlot, recordingVars, history
<1>8. ASSUME NEW i \in Invocations, RemoveLast(i) PROVE TypeOK'
  BY <1>8 DEF TypeOK, RemoveLast, Goto, Steps, recordingVars
<1>9. ASSUME NEW i \in Invocations, Rename(i) PROVE TypeOK'
  <2>1. pc' \in [Invocations -> Steps]
    BY <1>9 DEF TypeOK, Rename, Goto, Steps
  <2>2. log' \subseteq Denials /\ slot' \in [Invocations -> 0..MaxRotated]
    BY <1>9 DEF TypeOK, Rename
  <2>3. rotated' \in [1..MaxRotated -> SUBSET Denials]
    <3>1. \A k : [rotated EXCEPT ![k] = log] \in [1..MaxRotated -> SUBSET Denials]
      BY DEF TypeOK
    <3> QED
      BY <1>9, <3>1 DEF TypeOK, Rename
  <2> QED
    BY <1>9, <2>1, <2>2, <2>3 DEF TypeOK, Rename, recordingVars, history
<1>10. ASSUME NEW i \in Invocations, WriteDenial(i) PROVE TypeOK'
  BY <1>10 DEF TypeOK, WriteDenial, Goto, Steps, recordingVars, Denials
<1>11. ASSUME NEW i \in Invocations, RecordingFails(i) PROVE TypeOK'
  <2>1. pc' \in [Invocations -> Steps]
    BY <1>11 DEF TypeOK, RecordingFails, Goto, Steps, Rotating
  <2>2. slot' \in [Invocations -> 0..MaxRotated] /\ troubles' \in Nat
    BY <1>11 DEF TypeOK, RecordingFails, Trouble
  <2> QED
    BY <1>11, <2>1, <2>2 DEF TypeOK, RecordingFails, recordingVars, history
<1>12. ASSUME NEW i \in Invocations, Answer(i) PROVE TypeOK'
  <2>1. call[i] \in Calls
    BY <1>12 DEF Answer, JudgedWell, WellJudged
  <2>2. pc' \in [Invocations -> Steps]
    BY <1>12 DEF TypeOK, Answer, Goto, Effect, Steps
  <2>3. granted' \subseteq MarkNames /\ seen' \in [Invocations -> Seq(Cases)]
    BY <1>12 DEF TypeOK, Answer
  <2> QED
    BY <1>12, <2>2, <2>3 DEF TypeOK, Answer, shared
<1>13. ASSUME NEW i \in Invocations, Gone(i)
       PROVE  /\ pc' \in [Invocations -> Steps] /\ call' \in [Invocations -> Calls \cup {"none"}]
              /\ health' \in [Invocations -> Healths] /\ saw' \in [Invocations -> SUBSET MarkNames]
              /\ result' \in [Invocations -> Results] /\ case' \in [Invocations -> Cases]
              /\ counted' \in [Invocations -> Nat] /\ seen' \in [Invocations -> Seq(Cases)]
              /\ slot' \in [Invocations -> 0..MaxRotated]
  <2>1. pc' \in [Invocations -> Steps] /\ call' \in [Invocations -> Calls \cup {"none"}]
        /\ health' \in [Invocations -> Healths] /\ saw' \in [Invocations -> SUBSET MarkNames]
    BY <1>13 DEF TypeOK, Gone, Steps, Healths
  <2>2. result' \in [Invocations -> Results] /\ case' \in [Invocations -> Cases]
    BY <1>13, ResultsAre, CasesAre DEF TypeOK, Gone
  <2>3. counted' \in [Invocations -> Nat] /\ seen' \in [Invocations -> Seq(Cases)]
        /\ slot' \in [Invocations -> 0..MaxRotated]
    BY <1>13 DEF TypeOK, Gone
  <2> QED
    BY <2>1, <2>2, <2>3
<1>14. ASSUME NEW i \in Invocations, Exit(i) PROVE TypeOK'
  <2>1. Gone(i) /\ UNCHANGED <<shared, pruning, troubles, history>>
    BY <1>14 DEF Exit
  <2> QED
    BY <1>13, <2>1 DEF TypeOK, shared, history
<1>15. ASSUME NEW i \in Invocations, Kill(i) PROVE TypeOK'
  <2>1. Gone(i) /\ UNCHANGED <<shared, pruning, granted, recorded, expired>>
    BY <1>15 DEF Kill
  <2>2. troubles' \in Nat /\ vanished' \subseteq MarkNames
    BY <1>15 DEF Kill, Trouble, TypeOK
  <2> QED
    BY <1>13, <2>1, <2>2 DEF TypeOK, shared
<1>16. ASSUME NEW p \in ResultPacks, PruneRead(p) PROVE TypeOK'
  BY <1>16 DEF TypeOK, PruneRead, shared, locals, history
<1>17. ASSUME PruneWrite PROVE TypeOK'
  <2>1. pruning.pack \in ResultPacks /\ Kept(pruning.read) \in Seq(Cases)
    BY <1>17, KeptIs DEF PruneWrite, TypeOK
  <2>2. corpus' \in [ResultPacks -> Seq(Cases)]
    BY <1>17, <2>1 DEF PruneWrite, TypeOK
  <2> QED
    BY <1>17, <2>2 DEF TypeOK, PruneWrite, locals
<1>18. ASSUME UNCHANGED vars PROVE TypeOK'
  BY <1>18 DEF TypeOK, vars, shared, locals, history
<1> QED
  BY <1>1, <1>2, <1>3, <1>4, <1>5, <1>6, <1>7, <1>8, <1>9, <1>10, <1>11, <1>12, <1>14, <1>15,
     <1>16, <1>17, <1>18 DEF Next

-----------------------------------------------------------------------------
(* Judgements.                                                             *)

(* What an invocation has decided stays right while it records and until   *)
(* it answers.                                                             *)
LEMMA Carried ==
    ASSUME NEW i \in Invocations, WellJudged(i),
           posture' = posture, call'[i] = call[i], health'[i] = health[i], saw'[i] = saw[i],
           result'[i] = result[i], counted'[i] = counted[i],
           pc'[i] = pc[i] \/ (pc[i] \in Deciding \ {"answer"} /\ pc'[i] \in Deciding)
    PROVE  WellJudged(i)'
<1>1. Situation(i, saw[i])' = Situation(i, saw[i])
  BY DEF Situation
<1>2. CASE pc'[i] = pc[i]
  <2>1. pc[i] \in Deciding \cup Answered /\ posture # "bypass" =>
          /\ SoundResult(Situation(i, saw[i])', result'[i])
          /\ SoundCount(call'[i], health'[i], result'[i], counted'[i])
    BY <1>1 DEF WellJudged
  <2> QED
    BY <1>2, <2>1 DEF WellJudged
<1>3. CASE pc[i] \in Deciding \ {"answer"} /\ pc'[i] \in Deciding
  <2>1. posture # "bypass" => /\ SoundResult(Situation(i, saw[i])', result'[i])
                              /\ SoundCount(call'[i], health'[i], result'[i], counted'[i])
    BY <1>1, <1>3 DEF WellJudged
  <2>2. call[i] \in Calls /\ posture # "bypass"
    BY <1>3 DEF WellJudged, Deciding
  <2>3. pc'[i] \notin Answered
    BY <1>3 DEF Deciding
  <2> QED
    BY <2>1, <2>2, <2>3 DEF WellJudged
<1> QED
  BY <1>2, <1>3

LEMMA JudgedInit == Init => JudgedWell
BY DEF Init, JudgedWell, WellJudged, Deciding, Answered

LEMMA JudgedNext ==
    ASSUME TypeOK, JudgedWell, MarksHaveCauses, [Next]_vars
    PROVE  JudgedWell'
<1> DEFINE At(i) == <<call[i], health[i], saw[i], result[i], counted[i]>>
           Moved(i) == pc'[i] = pc[i] \/ (pc[i] \in Deciding \ {"answer"} /\ pc'[i] \in Deciding)
<1>1. ASSUME posture' = posture, \A j \in Invocations : At(j)' = At(j) /\ Moved(j)
      PROVE  JudgedWell'
  <2> SUFFICES ASSUME NEW j \in Invocations PROVE WellJudged(j)'
    BY DEF JudgedWell
  <2> QED
    BY <1>1, Carried DEF JudgedWell
<1>2. ASSUME posture' = posture, NEW i \in Invocations, WellJudged(i)',
             \A j \in Invocations \ {i} : At(j)' = At(j) /\ pc'[j] = pc[j]
      PROVE  JudgedWell'
  <2> SUFFICES ASSUME NEW j \in Invocations \ {i} PROVE WellJudged(j)'
    BY <1>2 DEF JudgedWell
  <2> QED
    BY <1>2, Carried DEF JudgedWell
<1>3. ASSUME NEW i \in Invocations, NEW c \in Calls, Start(i, c) PROVE JudgedWell'
  <2>1. posture' = posture /\ \A j \in Invocations \ {i} : At(j)' = At(j) /\ pc'[j] = pc[j]
    BY <1>3 DEF TypeOK, Start, Goto, shared
  <2>2. call'[i] \in Calls /\ pc'[i] = IF posture = "bypass" THEN "answer" ELSE "judge"
    BY <1>3 DEF TypeOK, Start, Goto
  <2>3. (health'[i] = "halted" => posture = "closed") /\ (posture = "bypass" => result'[i] = Allowed)
    <3>1. (health[i] = "halted" => posture = "closed") /\ (posture = "bypass" => result[i] = Allowed)
      BY DEF JudgedWell, WellJudged
    <3> QED
      BY <1>3, <3>1 DEF TypeOK, Start
  <2>4. WellJudged(i)'
    BY <2>1, <2>2, <2>3 DEF WellJudged, Deciding, Answered
  <2> QED
    BY <1>2, <2>1, <2>4
<1>4. ASSUME NEW i \in Invocations, Judge(i) PROVE JudgedWell'
  <2>1. posture' = posture /\ \A j \in Invocations \ {i} : At(j)' = At(j) /\ pc'[j] = pc[j]
    BY <1>4, JudgeIs DEF TypeOK, Judge, Goto, shared
  <2>2. PICK d \in Decisions[Situation(i, marks)] :
           /\ SoundResult(Situation(i, marks), d.result)
           /\ SoundCount(call[i], health[i], d.result, Count(call[i], health[i], d))
           /\ Goto(i, "judge", AfterJudging(call[i], d.result))
           /\ result' = [result EXCEPT ![i] = d.result]
           /\ counted' = [counted EXCEPT ![i] = Count(call[i], health[i], d)]
    BY <1>4, JudgeIs
  <2>3. pc'[i] \in {"answer", "corpus", "check", "mark"}
    BY <2>2 DEF TypeOK, Goto, AfterJudging
  <2>4. /\ call'[i] = call[i] /\ health'[i] = health[i] /\ saw'[i] = marks
        /\ result'[i] = d.result /\ counted'[i] = Count(call[i], health[i], d)
    BY <1>4, <2>2 DEF TypeOK, Judge
  <2>5. Situation(i, saw[i])' = Situation(i, marks)
    BY <2>1, <2>4 DEF Situation
  <2>6. /\ SoundResult(Situation(i, saw[i])', result'[i])
        /\ SoundCount(call'[i], health'[i], result'[i], counted'[i])
    BY <2>2, <2>4, <2>5
  <2>7. call[i] \in Calls /\ (health[i] = "halted" => posture = "closed") /\ posture # "bypass"
    <3>1. pc[i] = "judge" /\ WellJudged(i)
      BY <1>4 DEF Judge, JudgedWell
    <3> QED
      BY <1>4, <3>1, JudgeIs DEF WellJudged, Answered
  <2>8. WellJudged(i)'
    BY <2>1, <2>3, <2>4, <2>6, <2>7 DEF WellJudged, Answered
  <2> QED
    BY <1>2, <2>1, <2>8
<1>5. ASSUME NEW i \in Invocations, Mark(i) PROVE JudgedWell'
  BY <1>1, <1>5 DEF TypeOK, Mark, Goto, Deciding, Steps, Answered, locals
<1>6. ASSUME NEW i \in Invocations, ReadCorpus(i) PROVE JudgedWell'
  BY <1>1, <1>6 DEF TypeOK, ReadCorpus, Goto, Deciding, Steps, Answered, shared
<1>7. ASSUME NEW i \in Invocations, AppendCase(i) PROVE JudgedWell'
  BY <1>1, <1>7 DEF TypeOK, AppendCase, Goto, Deciding, Steps, Answered, locals
<1>8. ASSUME NEW i \in Invocations, CheckLog(i) PROVE JudgedWell'
  BY <1>1, <1>8 DEF TypeOK, CheckLog, Goto, Deciding, Steps, Answered, recordingVars
<1>9. ASSUME NEW i \in Invocations, FindSlot(i) PROVE JudgedWell'
  BY <1>1, <1>9 DEF TypeOK, FindSlot, Goto, Deciding, Steps, Answered, recordingVars
<1>10. ASSUME NEW i \in Invocations, RemoveLast(i) PROVE JudgedWell'
  BY <1>1, <1>10 DEF TypeOK, RemoveLast, Goto, Deciding, Steps, Answered, recordingVars
<1>11. ASSUME NEW i \in Invocations, Rename(i) PROVE JudgedWell'
  BY <1>1, <1>11 DEF TypeOK, Rename, Goto, Deciding, Steps, Answered, recordingVars
<1>12. ASSUME NEW i \in Invocations, WriteDenial(i) PROVE JudgedWell'
  BY <1>1, <1>12 DEF TypeOK, WriteDenial, Goto, Deciding, Steps, Answered, recordingVars
<1>13. ASSUME NEW i \in Invocations, RecordingFails(i) PROVE JudgedWell'
  <2>1. \A j \in Invocations : Moved(j)
    BY <1>13 DEF TypeOK, RecordingFails, Goto, Deciding, Steps, Answered, Rotating
  <2>2. posture' = posture /\ \A j \in Invocations : At(j)' = At(j)
    BY <1>13 DEF TypeOK, RecordingFails, recordingVars
  <2> QED
    BY <1>1, <2>1, <2>2
<1>14. ASSUME NEW i \in Invocations, Answer(i) PROVE JudgedWell'
  <2>1. posture' = posture /\ \A j \in Invocations : At(j)' = At(j)
    BY <1>14 DEF TypeOK, Answer, shared
  <2>2. \A j \in Invocations \ {i} : pc'[j] = pc[j]
    BY <1>14 DEF TypeOK, Answer, Goto
  <2>3. PICK harness : pc'[i] = Effect(Enforced(result[i]), harness)
    BY <1>14 DEF TypeOK, Answer, Goto
  <2>4. pc'[i] \in Answered
    BY <2>3 DEF Effect, Answered
  <2>5. posture \in {"open", "closed"} =>
          pc'[i] \in CASE result[i].channel = "deny" -> {"blocked"}
                       [] result[i].channel = "rewrite" -> {"rewrote", "blocked"}
                       [] OTHER -> {"ran"}
    BY <2>3 DEF Effect, Enforced
  <2>6. WellJudged(i) /\ pc[i] = "answer" /\ "answer" \in Deciding
    BY <1>14 DEF JudgedWell, Answer, Deciding, Steps, Answered
  <2>7. Situation(i, saw[i])' = Situation(i, saw[i])
    BY <2>1 DEF Situation
  <2>8. posture # "bypass" => /\ SoundResult(Situation(i, saw[i])', result'[i])
                              /\ SoundCount(call'[i], health'[i], result'[i], counted'[i])
    BY <2>1, <2>6, <2>7 DEF WellJudged
  <2>9. call[i] \in Calls /\ (posture = "bypass" => result[i] = Allowed)
    BY <2>6 DEF WellJudged
  <2>10. WellJudged(i)'
    BY <2>1, <2>4, <2>5, <2>6, <2>8, <2>9 DEF WellJudged
  <2> QED
    BY <1>2, <2>1, <2>2, <2>10
<1>15. ASSUME NEW i \in Invocations, Gone(i), posture' = posture PROVE JudgedWell'
  <2>1. \A j \in Invocations \ {i} : At(j)' = At(j) /\ pc'[j] = pc[j]
    BY <1>15 DEF TypeOK, Gone
  <2>2. pc'[i] = "done" /\ health'[i] = "healthy" /\ result'[i] = Allowed
    BY <1>15 DEF TypeOK, Gone
  <2>3. WellJudged(i)'
    BY <2>2 DEF WellJudged, Deciding, Answered
  <2> QED
    BY <1>2, <1>15, <2>1, <2>3
<1>16. ASSUME NEW i \in Invocations, Exit(i) \/ Kill(i) PROVE JudgedWell'
  BY <1>15, <1>16 DEF Exit, Kill, shared
<1>17. ASSUME UNCHANGED <<posture, pc, locals>> PROVE JudgedWell'
  BY <1>1, <1>17 DEF locals
<1>18. ASSUME NEW p \in ResultPacks, PruneRead(p) PROVE JudgedWell'
  BY <1>17, <1>18 DEF PruneRead, shared
<1>19. ASSUME PruneWrite PROVE JudgedWell'
  BY <1>17, <1>19 DEF PruneWrite
<1>20. ASSUME UNCHANGED vars PROVE JudgedWell'
  BY <1>17, <1>20 DEF vars, shared
<1> QED
  BY <1>3, <1>4, <1>5, <1>6, <1>7, <1>8, <1>9, <1>10, <1>11, <1>12, <1>13, <1>14, <1>16,
     <1>18, <1>19, <1>20 DEF Next

-----------------------------------------------------------------------------
(* Marks.                                                                  *)

LEMMA MarksInit == Init => MarksHaveCauses
BY DEF Init, MarksHaveCauses

LEMMA MarksNext ==
    ASSUME TypeOK, JudgedWell, MarksHaveCauses, [Next]_vars
    PROVE  MarksHaveCauses'
<1> DEFINE Stays(j) == pc[j] = "answer" =>
                          pc'[j] = "answer" /\ result'[j] = result[j] /\ call'[j] = call[j]
           Still(j) == saw'[j] \subseteq saw[j] /\ (pc'[j] = "mark" => pc[j] = "mark" /\ result'[j] = result[j])
<1>1. ASSUME UNCHANGED <<marks, granted, vanished>>,
             \A j \in Invocations : Stays(j) /\ Still(j)
      PROVE  MarksHaveCauses'
  BY <1>1 DEF MarksHaveCauses
<1>2. ASSUME NEW i \in Invocations, NEW c \in Calls, Start(i, c) PROVE MarksHaveCauses'
  <2>1. UNCHANGED <<marks, granted, vanished, saw, result>>
    BY <1>2 DEF Start, shared, history
  <2>2. \A j \in Invocations : Stays(j) /\ Still(j)
    BY <1>2, <2>1 DEF TypeOK, Start, Goto
  <2> QED
    BY <1>1, <2>1, <2>2
<1>3. ASSUME NEW i \in Invocations, Judge(i) PROVE MarksHaveCauses'
  <2>1. UNCHANGED <<marks, granted, vanished, call>>
    BY <1>3 DEF Judge, shared, history
  <2>2. PICK d \in Decisions[Situation(i, marks)] :
           /\ Goto(i, "judge", AfterJudging(call[i], d.result))
           /\ result' = [result EXCEPT ![i] = d.result]
    BY <1>3, JudgeIs
  <2>3. \A j \in Invocations \ {i} : Stays(j) /\ pc'[j] = pc[j] /\ result'[j] = result[j] /\ saw'[j] = saw[j]
    BY <1>3, <2>1, <2>2 DEF TypeOK, Goto, Judge
  <2>4. pc[i] # "answer" /\ saw'[i] = marks /\ (pc'[i] = "mark" => result'[i] = Allowed)
    BY <1>3, <2>2 DEF TypeOK, Goto, Judge, AfterJudging
  <2> QED
    BY <2>1, <2>3, <2>4 DEF MarksHaveCauses
<1>4. ASSUME NEW i \in Invocations, Mark(i) PROVE MarksHaveCauses'
  <2>1. UNCHANGED <<granted, vanished, result, call, saw>>
    BY <1>4 DEF Mark, locals, history
  <2>2. pc[i] = "mark" /\ pc'[i] = "answer" /\ \A j \in Invocations \ {i} : pc'[j] = pc[j]
    BY <1>4 DEF TypeOK, Mark, Goto
  <2>3. marks' = marks \/ marks' = marks \cup MarksOf(Call[call[i]])
    BY <1>4 DEF Mark
  <2>4. result[i] = Allowed
    BY <2>2 DEF MarksHaveCauses
  <2> QED
    BY <2>1, <2>2, <2>3, <2>4 DEF MarksHaveCauses
<1>5. ASSUME NEW i \in Invocations, ReadCorpus(i) PROVE MarksHaveCauses'
  BY <1>1, <1>5 DEF TypeOK, ReadCorpus, Goto, shared, history
<1>6. ASSUME NEW i \in Invocations, AppendCase(i) PROVE MarksHaveCauses'
  BY <1>1, <1>6 DEF TypeOK, AppendCase, Goto, locals
<1>7. ASSUME NEW i \in Invocations, CheckLog(i) PROVE MarksHaveCauses'
  BY <1>1, <1>7 DEF TypeOK, CheckLog, Goto, recordingVars
<1>8. ASSUME NEW i \in Invocations, FindSlot(i) PROVE MarksHaveCauses'
  BY <1>1, <1>8 DEF TypeOK, FindSlot, Goto, recordingVars, history
<1>9. ASSUME NEW i \in Invocations, RemoveLast(i) PROVE MarksHaveCauses'
  BY <1>1, <1>9 DEF TypeOK, RemoveLast, Goto, recordingVars
<1>10. ASSUME NEW i \in Invocations, Rename(i) PROVE MarksHaveCauses'
  BY <1>1, <1>10 DEF TypeOK, Rename, Goto, recordingVars, history
<1>11. ASSUME NEW i \in Invocations, WriteDenial(i) PROVE MarksHaveCauses'
  BY <1>1, <1>11 DEF TypeOK, WriteDenial, Goto, recordingVars
<1>12. ASSUME NEW i \in Invocations, RecordingFails(i) PROVE MarksHaveCauses'
  <2>1. UNCHANGED <<marks, granted, vanished, saw, result, call>>
    BY <1>12 DEF RecordingFails, recordingVars, history
  <2>2. \A j \in Invocations : Stays(j) /\ Still(j)
    BY <1>12, <2>1 DEF TypeOK, RecordingFails, Goto, Rotating
  <2> QED
    BY <1>1, <2>1, <2>2
<1>13. ASSUME NEW i \in Invocations, Answer(i) PROVE MarksHaveCauses'
  <2>1. UNCHANGED <<marks, vanished, saw, result, call>>
    BY <1>13 DEF Answer, shared
  <2>2. /\ pc[i] = "answer" /\ pc'[i] \in Answered
        /\ \A j \in Invocations \ {i} : pc'[j] = pc[j]
    BY <1>13 DEF TypeOK, Answer, Goto, Effect, Answered
  <2>3. granted' = IF result[i] = Allowed THEN granted \cup (MarksOf(Call[call[i]]) \cap marks) ELSE granted
    BY <1>13 DEF Answer
  <2>4. \A j \in Invocations : pc'[j] = "mark" => pc[j] = "mark"
    BY <2>2 DEF Answered
  <2>5. ASSUME NEW m \in marks \ (granted' \cup vanished)
        PROVE  \E j \in Invocations : /\ pc'[j] = "answer" /\ result[j] = Allowed
                                      /\ m \in MarksOf(Call[call[j]])
    <3>1. PICK j \in Invocations : /\ pc[j] = "answer" /\ result[j] = Allowed
                                   /\ m \in MarksOf(Call[call[j]])
      BY <2>3, <2>5 DEF MarksHaveCauses
    <3>2. j # i
      BY <2>3, <2>5, <3>1
    <3> QED
      BY <2>2, <3>1, <3>2
  <2> QED
    BY <2>1, <2>4, <2>5 DEF MarksHaveCauses
<1>14. ASSUME NEW i \in Invocations, Gone(i)
       PROVE  /\ pc'[i] = "done" /\ saw'[i] = {}
              /\ \A j \in Invocations \ {i} : /\ pc'[j] = pc[j] /\ result'[j] = result[j]
                                              /\ call'[j] = call[j] /\ saw'[j] = saw[j]
  BY <1>14 DEF TypeOK, Gone
<1>15. ASSUME NEW i \in Invocations, Exit(i) PROVE MarksHaveCauses'
  <2>1. pc[i] # "answer" /\ UNCHANGED <<marks, granted, vanished>>
    BY <1>15 DEF Exit, Answered, shared, history
  <2>2. \A j \in Invocations : Stays(j) /\ Still(j)
    BY <1>14, <1>15, <2>1 DEF Exit
  <2> QED
    BY <1>1, <2>1, <2>2
<1>16. ASSUME NEW i \in Invocations, Kill(i) PROVE MarksHaveCauses'
  <2>1. UNCHANGED <<marks, granted>> /\ Gone(i)
    BY <1>16 DEF Kill, shared
  <2>2. vanished' = IF pc[i] = "answer" /\ result[i] = Allowed
                    THEN vanished \cup (MarksOf(Call[call[i]]) \cap marks) ELSE vanished
    BY <1>16 DEF Kill
  <2>3. ASSUME NEW m \in marks \ (granted \cup vanished')
        PROVE  \E j \in Invocations : /\ pc'[j] = "answer" /\ result'[j] = Allowed
                                      /\ m \in MarksOf(Call[call'[j]])
    <3>1. PICK j \in Invocations : /\ pc[j] = "answer" /\ result[j] = Allowed
                                   /\ m \in MarksOf(Call[call[j]])
      BY <2>2, <2>3 DEF MarksHaveCauses
    <3>2. j # i
      BY <2>2, <2>3, <3>1
    <3> QED
      BY <1>14, <2>1, <3>1, <3>2
  <2>4. \A j \in Invocations : saw'[j] \subseteq marks /\ (pc'[j] = "mark" => result'[j] = Allowed)
    BY <1>14, <2>1 DEF MarksHaveCauses
  <2> QED
    BY <2>1, <2>3, <2>4 DEF MarksHaveCauses
<1>17. ASSUME UNCHANGED <<marks, granted, vanished, pc, locals>> PROVE MarksHaveCauses'
  BY <1>1, <1>17 DEF locals
<1>18. ASSUME NEW p \in ResultPacks, PruneRead(p) PROVE MarksHaveCauses'
  BY <1>17, <1>18 DEF PruneRead, shared, history
<1>19. ASSUME PruneWrite PROVE MarksHaveCauses'
  BY <1>17, <1>19 DEF PruneWrite
<1>20. ASSUME UNCHANGED vars PROVE MarksHaveCauses'
  BY <1>17, <1>20 DEF vars, shared, history
<1> QED
  BY <1>2, <1>3, <1>4, <1>5, <1>6, <1>7, <1>8, <1>9, <1>10, <1>11, <1>12, <1>13, <1>15, <1>16,
     <1>18, <1>19, <1>20 DEF Next

-----------------------------------------------------------------------------
(* The denial log.                                                         *)

LEMMA LogInit == Init => LogIsKept
BY DEF Init, LogIsKept, HealthyAtFirst, OneRotates, SlotIsRight, StaysRecorded, DenialsAreRecorded,
       Owed, Rotating, Answered

LEMMA HealthNext ==
    ASSUME TypeOK, HealthyAtFirst, [Next]_vars
    PROVE  HealthyAtFirst'
<1>1. ASSUME UNCHANGED troubles \/ Trouble,
             \A j \in Invocations : health'[j] \in {health[j], "healthy"}
      PROVE  HealthyAtFirst'
  <2>1. troubles' = 0 => troubles = 0
    BY <1>1 DEF TypeOK, Trouble
  <2> QED
    BY <1>1, <2>1 DEF HealthyAtFirst
<1>2. ASSUME NEW i \in Invocations, NEW c \in Calls, Start(i, c) PROVE HealthyAtFirst'
  <2>1. CASE UNCHANGED <<health, troubles>>
    BY <1>1, <2>1
  <2>2. CASE Trouble
    BY <2>2 DEF TypeOK, Trouble, HealthyAtFirst
  <2> QED
    BY <1>2, <2>1, <2>2 DEF Start
<1>3. ASSUME NEW i \in Invocations, Judge(i) PROVE HealthyAtFirst'
  BY <1>1, <1>3 DEF Judge
<1>4. ASSUME NEW i \in Invocations, Mark(i) \/ ReadCorpus(i) \/ AppendCase(i) PROVE HealthyAtFirst'
  BY <1>1, <1>4 DEF Mark, ReadCorpus, AppendCase, locals
<1>5. ASSUME NEW i \in Invocations,
             CheckLog(i) \/ FindSlot(i) \/ RemoveLast(i) \/ Rename(i) \/ WriteDenial(i) \/ RecordingFails(i)
      PROVE  HealthyAtFirst'
  BY <1>1, <1>5 DEF CheckLog, FindSlot, RemoveLast, Rename, WriteDenial, RecordingFails, recordingVars
<1>6. ASSUME NEW i \in Invocations, Answer(i) PROVE HealthyAtFirst'
  BY <1>1, <1>6 DEF Answer
<1>7. ASSUME NEW i \in Invocations, Exit(i) \/ Kill(i) PROVE HealthyAtFirst'
  <2>1. \A j \in Invocations : health'[j] \in {health[j], "healthy"}
    BY <1>7 DEF TypeOK, Exit, Kill, Gone
  <2> QED
    BY <1>1, <1>7, <2>1 DEF Exit, Kill
<1>8. ASSUME NEW p \in ResultPacks, PruneRead(p) PROVE HealthyAtFirst'
  BY <1>1, <1>8 DEF PruneRead, locals
<1>9. ASSUME PruneWrite PROVE HealthyAtFirst'
  BY <1>1, <1>9 DEF PruneWrite, locals
<1>10. ASSUME UNCHANGED vars PROVE HealthyAtFirst'
  BY <1>1, <1>10 DEF vars, locals
<1> QED
  BY <1>2, <1>3, <1>4, <1>5, <1>6, <1>7, <1>8, <1>9, <1>10 DEF Next

(* The steps that touch the log: what each leaves there.                   *)
LEMMA LogNext ==
    ASSUME TypeOK, JudgedWell, MarksHaveCauses, LogIsKept, [Next]_vars
    PROVE  LogIsKept'
<1>1. HealthyAtFirst'
  BY HealthNext DEF LogIsKept
<1> DEFINE LogPart == OneRotates /\ SlotIsRight /\ StaysRecorded /\ DenialsAreRecorded
<1> SUFFICES ASSUME "log" \notin raced' PROVE LogPart'
  BY <1>1 DEF LogIsKept
<1>2. LogPart /\ HealthyAtFirst
  <2>1. raced \subseteq raced'
    <3>1. ASSUME NEW i \in Invocations, AppendCase(i) \/ CheckLog(i) PROVE raced \subseteq raced'
      BY <3>1 DEF AppendCase, CheckLog
    <3>2. ASSUME NEW i \in Invocations, NEW c \in Calls, Start(i, c) PROVE raced \subseteq raced'
      BY <3>2 DEF Start, history
    <3>3. ASSUME NEW i \in Invocations, Judge(i) \/ Mark(i) \/ ReadCorpus(i) PROVE raced \subseteq raced'
      BY <3>3 DEF Judge, Mark, ReadCorpus, history
    <3>4. ASSUME NEW i \in Invocations,
                 FindSlot(i) \/ RemoveLast(i) \/ Rename(i) \/ WriteDenial(i) \/ RecordingFails(i)
          PROVE  raced \subseteq raced'
      BY <3>4 DEF FindSlot, RemoveLast, Rename, WriteDenial, RecordingFails, history
    <3>5. ASSUME NEW i \in Invocations, Answer(i) \/ Exit(i) \/ Kill(i) PROVE raced \subseteq raced'
      BY <3>5 DEF Answer, Exit, Kill, history
    <3>6. ASSUME NEW p \in ResultPacks, PruneRead(p) PROVE raced \subseteq raced'
      BY <3>6 DEF PruneRead, history
    <3>7. PruneWrite \/ UNCHANGED vars => raced \subseteq raced'
      BY DEF PruneWrite, vars, history
    <3> QED
      BY <3>1, <3>2, <3>3, <3>4, <3>5, <3>6, <3>7 DEF Next
  <2> QED
    BY <2>1 DEF LogIsKept
<1> DEFINE Files == <<log, rotated, recorded, expired, posture>>
           Resting(i) == pc'[i] \notin Rotating /\ pc'[i] \notin Answered \cup {"answer"}
           Others(i) == \A j \in Invocations \ {i} : /\ pc'[j] = pc[j] /\ slot'[j] = slot[j]
                                                     /\ result'[j] = result[j]
(* A step that leaves the files alone and takes its invocation to a place  *)
(* where it neither rotates nor answers.                                   *)
<1>3. ASSUME NEW i \in Invocations, Others(i), UNCHANGED Files, UNCHANGED troubles \/ Trouble, Resting(i)
      PROVE  LogPart'
  <2>1. troubles' = 0 => troubles = 0
    BY <1>3 DEF TypeOK, Trouble
  <2> QED
    BY <1>2, <1>3, <2>1 DEF OneRotates, SlotIsRight, StaysRecorded, DenialsAreRecorded, Owed, Rotating
<1>4. ASSUME NEW i \in Invocations, NEW c \in Calls, Start(i, c) PROVE LogPart'
  <2>1. UNCHANGED Files /\ (UNCHANGED troubles \/ Trouble) /\ Others(i)
    BY <1>4 DEF TypeOK, Start, Goto, shared, history
  <2>2. CASE posture = "bypass"
    <3>1. pc'[i] = "answer" /\ UNCHANGED slot
      BY <1>4, <2>2 DEF TypeOK, Start, Goto
    <3> QED
      BY <1>2, <2>1, <2>2, <3>1 DEF OneRotates, SlotIsRight, StaysRecorded, DenialsAreRecorded, Rotating
  <2>3. CASE posture # "bypass"
    <3>1. Resting(i)
      BY <1>4, <2>3 DEF TypeOK, Start, Goto, Rotating, Answered
    <3> QED
      BY <1>3, <2>1, <3>1
  <2> QED
    BY <2>2, <2>3
<1>5. ASSUME NEW i \in Invocations, Judge(i) PROVE LogPart'
  <2>1. UNCHANGED Files /\ UNCHANGED <<troubles, slot>>
    BY <1>5 DEF Judge, shared, history
  <2>2. PICK d \in Decisions[Situation(i, marks)] :
           /\ SoundResult(Situation(i, marks), d.result)
           /\ Goto(i, "judge", AfterJudging(call[i], d.result))
           /\ result' = [result EXCEPT ![i] = d.result]
    BY <1>5, JudgeIs
  <2>3. Others(i) /\ result'[i] = d.result /\ pc'[i] = AfterJudging(call[i], d.result)
    BY <2>1, <2>2 DEF TypeOK, Goto
  <2>4. CASE pc'[i] # "answer"
    <3>1. Resting(i)
      BY <2>3, <2>4 DEF AfterJudging, Rotating, Answered
    <3> QED
      BY <1>3, <2>1, <2>3, <3>1
  <2>5. CASE pc'[i] = "answer"
    <3>1. d.result.channel = "deny" => Call[call[i]].kind = "unsupported"
      BY <2>3, <2>5 DEF AfterJudging
    <3>2. troubles = 0 => health[i] = "healthy"
      BY <1>2 DEF HealthyAtFirst
    <3>3. Situation(i, marks).health = health[i] /\ Situation(i, marks).call = call[i]
      BY DEF Situation
    <3>4. troubles = 0 => d.result.channel # "deny"
      BY <2>2, <3>1, <3>2, <3>3 DEF SoundResult, Allowed
    <3> QED
      BY <1>2, <2>1, <2>3, <2>5, <3>4
      DEF OneRotates, SlotIsRight, StaysRecorded, DenialsAreRecorded, Owed, Rotating
  <2> QED
    BY <2>4, <2>5
<1>6. ASSUME NEW i \in Invocations, Mark(i) PROVE LogPart'
  <2>1. UNCHANGED Files /\ (UNCHANGED troubles \/ Trouble) /\ UNCHANGED <<slot, result>>
    BY <1>6 DEF Mark, locals, history
  <2>2. Others(i) /\ pc[i] = "mark" /\ pc'[i] = "answer"
    BY <1>6, <2>1 DEF TypeOK, Mark, Goto
  <2>3. result[i].channel # "deny"
    BY <2>2 DEF MarksHaveCauses, Allowed
  <2>4. troubles' = 0 => troubles = 0
    BY <2>1 DEF TypeOK, Trouble
  <2> QED
    BY <1>2, <2>1, <2>2, <2>3, <2>4
    DEF OneRotates, SlotIsRight, StaysRecorded, DenialsAreRecorded, Owed, Rotating
<1>7. ASSUME NEW i \in Invocations, ReadCorpus(i) PROVE LogPart'
  BY <1>3, <1>7 DEF TypeOK, ReadCorpus, Goto, shared, history, Rotating, Answered
<1>8. ASSUME NEW i \in Invocations, AppendCase(i) PROVE LogPart'
  BY <1>3, <1>8 DEF TypeOK, AppendCase, Goto, locals, Rotating, Answered
<1>9. ASSUME NEW i \in Invocations, CheckLog(i) PROVE LogPart'
  <2>1. UNCHANGED Files /\ UNCHANGED <<troubles, slot, result>> /\ Others(i)
    BY <1>9 DEF TypeOK, CheckLog, Goto, recordingVars
  <2>2. CASE pc'[i] = "write"
    BY <1>3, <2>1, <2>2 DEF Rotating, Answered
  <2>3. CASE pc'[i] = "slot"
    <3>1. Cardinality(log) >= LogLimit
      BY <1>9, <2>3 DEF TypeOK, CheckLog, Goto
    <3>2. \A j \in Invocations \ {i} : pc[j] \notin Rotating
      BY <1>9, <3>1 DEF CheckLog
    <3> QED
      BY <1>2, <2>1, <2>3, <3>2
      DEF OneRotates, SlotIsRight, StaysRecorded, DenialsAreRecorded, Owed, Rotating, Answered
  <2> QED
    BY <1>9, <2>2, <2>3 DEF TypeOK, CheckLog, Goto
<1>10. ASSUME NEW i \in Invocations, FindSlot(i) PROVE LogPart'
  <2>1. UNCHANGED Files /\ UNCHANGED <<troubles, result>> /\ Others(i) /\ pc[i] = "slot"
    BY <1>10 DEF TypeOK, FindSlot, Goto, recordingVars, history
  <2> DEFINE free == {k \in 1..MaxRotated : rotated[k] = {}}
  <2>2. /\ pc'[i] = IF log = {} THEN "write" ELSE IF free = {} THEN "remove" ELSE "rename"
        /\ slot'[i] = IF log = {} THEN 0 ELSE IF free = {} THEN MaxRotated
                      ELSE CHOOSE k \in free : \A j \in free : k <= j
    BY <1>10 DEF TypeOK, FindSlot, Goto
  <2>3. free # {} => (CHOOSE k \in free : \A j \in free : k <= j) \in free
    <3>1. free \in SUBSET (1..MaxRotated)
      OBVIOUS
    <3> HIDE DEF free
    <3> QED
      BY <3>1, SlotIs
  <2>4. pc'[i] = "rename" => slot'[i] # 0 /\ rotated[slot'[i]] = {}
    <3>1. 0 \notin free /\ \A k \in free : rotated[k] = {}
      OBVIOUS
    <3> HIDE DEF free
    <3> QED
      BY <2>2, <2>3, <3>1
  <2>5. /\ pc'[i] \in {"remove", "rename"} => log # {}
        /\ pc'[i] = "remove" => slot'[i] = MaxRotated
        /\ pc'[i] \in {"write", "remove", "rename"}
    BY <2>2
  <2>6. \A j \in Invocations \ {i} : pc[j] \notin Rotating
    BY <1>2, <2>1 DEF OneRotates, Rotating
  <2> HIDE DEF free
  <2> QED
    BY <1>2, <2>1, <2>4, <2>5, <2>6
    DEF OneRotates, SlotIsRight, StaysRecorded, DenialsAreRecorded, Owed, Rotating, Answered
<1>11. ASSUME NEW i \in Invocations, RemoveLast(i) PROVE LogPart'
  <2>1. UNCHANGED <<log, recorded, posture, troubles, result, slot>> /\ Others(i)
        /\ pc[i] = "remove" /\ pc'[i] = "rename"
    BY <1>11 DEF TypeOK, RemoveLast, Goto, recordingVars
  <2>2. rotated' = [rotated EXCEPT ![MaxRotated] = {}] /\ expired' = expired \cup rotated[MaxRotated]
    BY <1>11 DEF RemoveLast
  <2>3. log # {} /\ slot[i] = MaxRotated /\ \A j \in Invocations \ {i} : pc[j] \notin Rotating
    BY <1>2, <2>1 DEF OneRotates, SlotIsRight, Rotating
  <2>4. rotated'[MaxRotated] = {} /\ \A k \in 1..MaxRotated : k # MaxRotated => rotated'[k] = rotated[k]
    BY <2>2, Limits DEF TypeOK
  <2>5. StaysRecorded'
    BY <1>2, <2>1, <2>2, <2>4 DEF StaysRecorded
  <2>6. SlotIsRight' /\ OneRotates'
    BY <2>1, <2>3, <2>4, Limits DEF OneRotates, SlotIsRight, Rotating
  <2> QED
    BY <1>2, <2>1, <2>5, <2>6 DEF DenialsAreRecorded, Owed, Answered
<1>12. ASSUME NEW i \in Invocations, Rename(i) PROVE LogPart'
  <2>1. UNCHANGED <<recorded, expired, posture, troubles, result>> /\ Others(i) /\ pc[i] = "rename"
    BY <1>12 DEF TypeOK, Rename, Goto, recordingVars, history
  <2>2. log # {} /\ slot[i] \in 1..MaxRotated /\ rotated[slot[i]] = {}
        /\ \A j \in Invocations \ {i} : pc[j] \notin Rotating
    BY <1>2, <2>1 DEF TypeOK, OneRotates, SlotIsRight, Rotating
  <2>3. rotated' = [rotated EXCEPT ![slot[i]] = log] /\ log' = {} /\ pc'[i] = "write"
    BY <1>12, <2>2 DEF TypeOK, Rename, Goto
  <2>4. rotated'[slot[i]] = log /\ \A k \in 1..MaxRotated : k # slot[i] => rotated'[k] = rotated[k]
    BY <2>2, <2>3 DEF TypeOK
  <2>5. StaysRecorded'
    BY <1>2, <2>1, <2>2, <2>3, <2>4 DEF StaysRecorded
  <2>6. SlotIsRight' /\ OneRotates'
    BY <2>1, <2>2, <2>3 DEF OneRotates, SlotIsRight, Rotating
  <2> QED
    BY <1>2, <2>1, <2>3, <2>5, <2>6 DEF DenialsAreRecorded, Owed, Answered
<1>13. ASSUME NEW i \in Invocations, WriteDenial(i) PROVE LogPart'
  <2>1. UNCHANGED <<rotated, expired, posture, troubles, result, slot>> /\ Others(i)
        /\ pc[i] = "write" /\ pc'[i] = "answer" /\ log' = log \cup {i} /\ recorded' = recorded \cup {i}
    BY <1>13 DEF TypeOK, WriteDenial, Goto, recordingVars
  <2>2. StaysRecorded'
    BY <1>2, <2>1 DEF StaysRecorded
  <2>3. SlotIsRight' /\ OneRotates'
    BY <1>2, <2>1 DEF OneRotates, SlotIsRight, Rotating
  <2> QED
    BY <1>2, <2>1, <2>2, <2>3 DEF DenialsAreRecorded, Owed
<1>14. ASSUME NEW i \in Invocations, RecordingFails(i) PROVE LogPart'
  <2>1. UNCHANGED Files /\ Trouble /\ UNCHANGED result /\ Others(i)
    BY <1>14 DEF TypeOK, RecordingFails, Goto, recordingVars, history
  <2>2. troubles' # 0
    BY <2>1 DEF TypeOK, Trouble
  <2>3. pc'[i] \in {"check", "answer"}
    BY <1>14 DEF TypeOK, RecordingFails, Goto, Rotating
  <2> QED
    BY <1>2, <2>1, <2>2, <2>3 DEF OneRotates, SlotIsRight, StaysRecorded, DenialsAreRecorded, Rotating
<1>15. ASSUME NEW i \in Invocations, Answer(i) PROVE LogPart'
  <2>1. UNCHANGED Files /\ UNCHANGED <<troubles, result, slot>> /\ Others(i)
        /\ pc[i] = "answer" /\ pc'[i] \in Answered
    BY <1>15 DEF TypeOK, Answer, Goto, shared, Effect, Answered
  <2> QED
    BY <1>2, <2>1 DEF OneRotates, SlotIsRight, StaysRecorded, DenialsAreRecorded, Owed, Rotating, Answered
<1>16. ASSUME NEW i \in Invocations, Exit(i) \/ Kill(i) PROVE LogPart'
  <2>1. UNCHANGED Files /\ (UNCHANGED troubles \/ Trouble) /\ Gone(i)
    BY <1>16 DEF Exit, Kill, shared, history
  <2>2. Others(i) /\ Resting(i)
    BY <2>1 DEF TypeOK, Gone, Rotating, Answered
  <2> QED
    BY <1>3, <2>1, <2>2
<1>17. ASSUME UNCHANGED <<Files, pc, slot, result, troubles>> PROVE LogPart'
  BY <1>2, <1>17 DEF OneRotates, SlotIsRight, StaysRecorded, DenialsAreRecorded, Owed
<1>18. ASSUME NEW p \in ResultPacks, PruneRead(p) PROVE LogPart'
  BY <1>17, <1>18 DEF PruneRead, shared, history, locals
<1>19. ASSUME PruneWrite PROVE LogPart'
  BY <1>17, <1>19 DEF PruneWrite, locals
<1>20. ASSUME UNCHANGED vars PROVE LogPart'
  BY <1>17, <1>20 DEF vars, shared, history, locals
<1> QED
  BY <1>4, <1>5, <1>6, <1>7, <1>8, <1>9, <1>10, <1>11, <1>12, <1>13, <1>14, <1>15, <1>16,
     <1>18, <1>19, <1>20 DEF Next

-----------------------------------------------------------------------------
(* The corpus.                                                             *)

LEMMA CorpusInit == Init => CorpusIsKept
BY Limits DEF Init, CorpusIsKept, SawRoom, CorpusIsRight, Distinct

(* A new case keeps a corpus distinct.                                     *)
LEMMA AppendIs ==
    ASSUME NEW S, NEW cases \in Seq(S), NEW new \in S, new \notin ToSet(cases), Distinct(cases)
    PROVE  Distinct(Append(cases, new))
<1>1. \A k \in 1..Len(cases) : cases[k] # new
  BY DEF ToSet
<1>2. /\ DOMAIN Append(cases, new) = 1..(Len(cases) + 1) /\ Len(cases) \in Nat
      /\ Append(cases, new)[Len(cases) + 1] = new
      /\ \A k \in 1..Len(cases) : Append(cases, new)[k] = cases[k]
  OBVIOUS
<1> QED
  BY <1>1, <1>2 DEF Distinct

LEMMA CorpusNext ==
    ASSUME TypeOK, JudgedWell, CorpusIsKept, [Next]_vars
    PROVE  CorpusIsKept'
<1> DEFINE Here(j) == <<result[j], case[j], seen[j]>>
           Stays(j) == Here(j)' = Here(j) /\ pc'[j] = pc[j]
           Out(j) == pc'[j] \notin {"corpus", "append"}
(* A step that leaves the corpora alone and takes no invocation to one.    *)
<1>1. ASSUME UNCHANGED corpus, raced \subseteq raced', \A j \in Invocations : Stays(j) \/ Out(j)
      PROVE  CorpusIsKept'
  BY <1>1 DEF CorpusIsKept, SawRoom, CorpusIsRight
<1>2. ASSUME NEW i \in Invocations, NEW c \in Calls, Start(i, c) PROVE CorpusIsKept'
  <2>1. UNCHANGED <<corpus, raced, result, case, seen>>
    BY <1>2 DEF Start, shared, history
  <2>2. \A j \in Invocations : Stays(j) \/ Out(j)
    BY <1>2, <2>1 DEF TypeOK, Start, Goto
  <2> QED
    BY <1>1, <2>1, <2>2
<1>3. ASSUME NEW i \in Invocations, Judge(i) PROVE CorpusIsKept'
  <2>1. UNCHANGED <<corpus, raced, seen>>
    BY <1>3 DEF Judge, shared, history
  <2>2. PICK d \in Decisions[Situation(i, marks)] :
           /\ d.result \in Results
           /\ Goto(i, "judge", AfterJudging(call[i], d.result))
           /\ result' = [result EXCEPT ![i] = d.result]
           /\ case' = [case EXCEPT ![i] =
                         IF d.result.channel # "deny" THEN NoCase
                         ELSE <<d.result.rule, call[i], IF d.file = 0 THEN 1 ELSE d.file>>]
    BY <1>3, JudgeIs
  <2>3. \A j \in Invocations \ {i} : Stays(j)
    BY <2>1, <2>2 DEF TypeOK, Goto
  <2>4. pc'[i] = AfterJudging(call[i], d.result) /\ result'[i] = d.result
    BY <2>2 DEF TypeOK, Goto
  <2>5. pc'[i] # "append" /\ (pc'[i] = "corpus" => d.result.channel = "deny")
    BY <2>4 DEF AfterJudging
  <2>6. d.result.channel = "deny" => d.result.pack \in ResultPacks
    BY <2>2 DEF Results, Allowed
  <2> QED
    BY <2>1, <2>3, <2>4, <2>5, <2>6 DEF CorpusIsKept, SawRoom, CorpusIsRight
<1>4. ASSUME NEW i \in Invocations, Mark(i) PROVE CorpusIsKept'
  BY <1>1, <1>4 DEF TypeOK, Mark, Goto, locals, history
<1>5. ASSUME NEW i \in Invocations, ReadCorpus(i) PROVE CorpusIsKept'
  <2>1. UNCHANGED <<corpus, raced, result, case>> /\ pc[i] = "corpus"
    BY <1>5 DEF ReadCorpus, Goto, shared, history
  <2>2. \A j \in Invocations \ {i} : Stays(j)
    BY <1>5 DEF TypeOK, ReadCorpus, Goto
  <2>3. /\ seen'[i] = corpus[result[i].pack]
        /\ pc'[i] = IF case[i] \in ToSet(corpus[result[i].pack]) \/ Len(corpus[result[i].pack]) >= CorpusLimit
                    THEN "check" ELSE "append"
    BY <1>5 DEF TypeOK, ReadCorpus, Goto
  <2>4. result[i].pack \in ResultPacks
    BY <2>1 DEF CorpusIsKept, SawRoom
  <2>5. Len(corpus[result[i].pack]) \in Nat
    BY <2>4 DEF TypeOK
  <2>6. pc'[i] = "append" => case[i] \notin ToSet(seen'[i]) /\ Len(seen'[i]) < CorpusLimit
    BY <2>3, <2>5, Limits
  <2>7. SawRoom'
    BY <2>1, <2>2, <2>4, <2>6 DEF CorpusIsKept, SawRoom
  <2> QED
    BY <2>1, <2>7 DEF CorpusIsKept, CorpusIsRight
<1>6. ASSUME NEW i \in Invocations, AppendCase(i) PROVE CorpusIsKept'
  <2> DEFINE p == result[i].pack
  <2>1. UNCHANGED <<result, case, seen>> /\ raced \subseteq raced'
        /\ \A j \in Invocations : Stays(j) \/ Out(j)
    BY <1>6 DEF TypeOK, AppendCase, Goto, locals
  <2>2. p \in ResultPacks /\ pc[i] = "append"
    BY <1>6 DEF AppendCase, Goto, CorpusIsKept, SawRoom
  <2>3. SawRoom'
    BY <2>1 DEF CorpusIsKept, SawRoom
  <2>4. ASSUME "corpus" \notin raced' PROVE CorpusIsRight'
    <3>1. corpus[p] = seen[i] /\ corpus' = [corpus EXCEPT ![p] = Append(corpus[p], case[i])]
      BY <1>6, <2>4 DEF AppendCase
    <3>2. case[i] \notin ToSet(corpus[p]) /\ Len(corpus[p]) < CorpusLimit
      BY <2>2, <3>1 DEF CorpusIsKept, SawRoom
    <3>3. CorpusIsRight
      BY <2>1, <2>4 DEF CorpusIsKept
    <3>4. Distinct(Append(corpus[p], case[i]))
      BY <2>2, <3>2, <3>3, AppendIs DEF TypeOK, CorpusIsRight
    <3>5. Len(Append(corpus[p], case[i])) <= CorpusLimit
      BY <2>2, <3>2, Limits DEF TypeOK
    <3>6. /\ corpus'[p] = Append(corpus[p], case[i])
          /\ \A q \in ResultPacks \ {p} : corpus'[q] = corpus[q]
      BY <2>2, <3>1 DEF TypeOK
    <3> QED
      BY <3>3, <3>4, <3>5, <3>6 DEF CorpusIsRight
  <2> QED
    BY <2>3, <2>4 DEF CorpusIsKept
<1>7. ASSUME NEW i \in Invocations, CheckLog(i) PROVE CorpusIsKept'
  BY <1>1, <1>7 DEF TypeOK, CheckLog, Goto, recordingVars
<1>8. ASSUME NEW i \in Invocations, FindSlot(i) PROVE CorpusIsKept'
  BY <1>1, <1>8 DEF TypeOK, FindSlot, Goto, recordingVars, history
<1>9. ASSUME NEW i \in Invocations, RemoveLast(i) PROVE CorpusIsKept'
  BY <1>1, <1>9 DEF TypeOK, RemoveLast, Goto, recordingVars
<1>10. ASSUME NEW i \in Invocations, Rename(i) PROVE CorpusIsKept'
  BY <1>1, <1>10 DEF TypeOK, Rename, Goto, recordingVars, history
<1>11. ASSUME NEW i \in Invocations, WriteDenial(i) PROVE CorpusIsKept'
  BY <1>1, <1>11 DEF TypeOK, WriteDenial, Goto, recordingVars
<1>12. ASSUME NEW i \in Invocations, RecordingFails(i) PROVE CorpusIsKept'
  BY <1>1, <1>12 DEF TypeOK, RecordingFails, Goto, Rotating, recordingVars, history
<1>13. ASSUME NEW i \in Invocations, Answer(i) PROVE CorpusIsKept'
  <2>1. UNCHANGED <<corpus, raced, result, case>>
    BY <1>13 DEF Answer, shared
  <2>2. Out(i) /\ \A j \in Invocations \ {i} : Stays(j)
    BY <1>13 DEF TypeOK, Answer, Goto, Effect
  <2> QED
    BY <1>1, <2>1, <2>2
<1>14. ASSUME NEW i \in Invocations, Exit(i) \/ Kill(i) PROVE CorpusIsKept'
  <2>1. UNCHANGED <<corpus, raced>> /\ Gone(i)
    BY <1>14 DEF Exit, Kill, shared, history
  <2>2. Out(i) /\ \A j \in Invocations \ {i} : Stays(j)
    BY <2>1 DEF TypeOK, Gone
  <2> QED
    BY <1>1, <2>1, <2>2
<1>15. ASSUME NEW p \in ResultPacks, PruneRead(p) PROVE CorpusIsKept'
  BY <1>1, <1>15 DEF PruneRead, shared, history, locals
<1>16. ASSUME PruneWrite PROVE CorpusIsKept'
  <2> DEFINE p == pruning.pack
  <2>1. UNCHANGED <<result, case, seen, pc>> /\ raced \subseteq raced'
    BY <1>16 DEF PruneWrite, locals
  <2>2. p \in ResultPacks /\ pruning.read \in Seq(Cases)
    BY <1>16 DEF PruneWrite, TypeOK
  <2>3. SawRoom'
    BY <2>1 DEF CorpusIsKept, SawRoom
  <2>4. corpus'[p] = Kept(pruning.read) /\ \A q \in ResultPacks \ {p} : corpus'[q] = corpus[q]
    BY <1>16, <2>2 DEF PruneWrite, TypeOK
  <2>5. CorpusIsRight => CorpusIsRight'
    BY <2>2, <2>4, KeptIs DEF CorpusIsRight
  <2> QED
    BY <2>1, <2>3, <2>5 DEF CorpusIsKept
<1>17. ASSUME UNCHANGED vars PROVE CorpusIsKept'
  BY <1>1, <1>17 DEF vars, shared, history, locals
<1> QED
  BY <1>2, <1>3, <1>4, <1>5, <1>6, <1>7, <1>8, <1>9, <1>10, <1>11, <1>12, <1>13, <1>14, <1>15,
     <1>16, <1>17 DEF Next

-----------------------------------------------------------------------------
(* Theorems of the specification.                                          *)

(* The invariant holds in every state: types, and what an invocation, the  *)
(* marks, the log and the corpora owe each other.                          *)
THEOREM InductiveInvariant == Spec => []IInv
<1>1. Init => IInv
  BY TypeInit, JudgedInit, MarksInit, LogInit, CorpusInit DEF IInv
<1>2. IInv /\ [Next]_vars => IInv'
  BY TypeNext, JudgedNext, MarksNext, LogNext, CorpusNext DEF IInv
<1> QED
  BY <1>1, <1>2, PTL DEF Spec

(* The store of a situation is the one a call is asked about.              *)
LEMMA DemandedIs ==
    ASSUME NEW name \in Calls, NEW h \in Healths, NEW m \in SUBSET MarkNames
    PROVE  LET demanded == Demanded[[call |-> name, readable |-> h # "blind", marks |-> m]]
           IN /\ demanded.severest = Severest(Call[name], Store(h, m))
              /\ demanded.undecided = Undecided(Call[name], Store(h, m))
<1> DEFINE q == [call |-> name, readable |-> h # "blind", marks |-> m]
<1>1. q \in [call : Calls, readable : BOOLEAN, marks : SUBSET MarkNames]
  OBVIOUS
<1>2. q.call = name /\ [readable |-> q.readable, marks |-> q.marks] = Store(h, m)
  BY DEF Store
<1> HIDE DEF q
<1>3. Demanded[q] = [severest |-> Severest(Call[q.call], [readable |-> q.readable, marks |-> q.marks]),
                     undecided |-> Undecided(Call[q.call], [readable |-> q.readable, marks |-> q.marks])]
  BY <1>1 DEF Demanded
<1>4. /\ Demanded[q].severest = Severest(Call[name], Store(h, m))
      /\ Demanded[q].undecided = Undecided(Call[name], Store(h, m))
  BY <1>2, <1>3
<1> QED
  BY <1>4 DEF q

(* An invocation ends as the severest of the rules that match its call     *)
(* demands, whatever else runs (adapter.rs; engine.rs, evaluate_command).  *)
THEOREM SeverestAnswers == Spec => []ResponseIsSeverest
<1>1. ASSUME IInv PROVE ResponseIsSeverest
  <2> SUFFICES ASSUME NEW i \in Invocations, pc[i] \in Answered, posture \in {"open", "closed"}
               PROVE  LET c == Call[call[i]]
                          demanded == Demanded[[call |-> call[i], readable |-> health[i] # "blind",
                                                marks |-> saw[i]]]
                      IN /\ health[i] = "halted" => pc[i] = "blocked"
                         /\ health[i] = "faulty" /\ c.kind # "unsupported" =>
                              pc[i] = IF posture = "closed" \/ BuiltinGuarded(c) THEN "blocked" ELSE "ran"
                         /\ health[i] \in {"healthy", "blind"} =>
                              /\ pc[i] \in {"blocked", "rewrote"} => demanded.severest \in {"deny", "rewrite"}
                              /\ ~demanded.undecided =>
                                   /\ demanded.severest = "deny" => pc[i] = "blocked"
                                   /\ demanded.severest = "rewrite" => pc[i] \in {"rewrote", "blocked"}
    BY DEF ResponseIsSeverest
  <2> DEFINE c == Call[call[i]]
             demanded == Demanded[[call |-> call[i], readable |-> health[i] # "blind", marks |-> saw[i]]]
             s == Situation(i, saw[i])
             store == Store(health[i], saw[i])
             r == result[i]
  <2>1. WellJudged(i) /\ saw[i] \in SUBSET MarkNames /\ health[i] \in Healths
    BY <1>1 DEF IInv, JudgedWell, TypeOK
  <2>2. call[i] \in Calls /\ SoundResult(s, r)
    BY <2>1 DEF WellJudged, Answered
  <2>3. demanded.severest = Severest(c, store) /\ demanded.undecided = Undecided(c, store)
    BY <2>1, <2>2, DemandedIs
  <2>4. /\ s.health = health[i] /\ s.call = call[i] /\ StoreIn(s) = store
        /\ s.closed = (posture = "closed")
    BY DEF Situation, StoreIn, Store
  <2> HIDE DEF s, store, demanded
  <2>5. pc[i] \in CASE r.channel = "deny" -> {"blocked"}
                    [] r.channel = "rewrite" -> {"rewrote", "blocked"}
                    [] OTHER -> {"ran"}
    BY <2>1 DEF WellJudged
  <2>6. health[i] = "halted" => pc[i] = "blocked"
    BY <2>2, <2>4, <2>5 DEF SoundResult
  <2>7. health[i] = "faulty" /\ c.kind # "unsupported" =>
          pc[i] = IF posture = "closed" \/ BuiltinGuarded(c) THEN "blocked" ELSE "ran"
    BY <2>2, <2>4, <2>5 DEF SoundResult
  <2>8. ASSUME health[i] \in {"healthy", "blind"}
        PROVE  /\ pc[i] \in {"blocked", "rewrote"} => demanded.severest \in {"deny", "rewrite"}
               /\ ~demanded.undecided =>
                    /\ demanded.severest = "deny" => pc[i] = "blocked"
                    /\ demanded.severest = "rewrite" => pc[i] \in {"rewrote", "blocked"}
    <3>1. /\ r.channel = "deny" => Severest(c, store) = "deny"
          /\ r.channel = "rewrite" => Severest(c, store) \in {"deny", "rewrite"}
          /\ ~Undecided(c, store) => r.channel = Severest(c, store)
      BY <2>2, <2>4, <2>8 DEF SoundResult
    <3> QED
      BY <2>3, <2>5, <3>1
  <2> QED
    BY <2>6, <2>7, <2>8 DEF demanded
<1> QED
  BY <1>1, InductiveInvariant, PTL

(* A mark lets no pattern match that does not match without it, and makes  *)
(* none undecidable.                                                       *)
LEMMA MarksOnlyRelax ==
    ASSUME NEW pattern, NEW unit, NEW m
    PROVE  LET bare == Matches(pattern, unit, Store("healthy", {}))
               marked == Matches(pattern, unit, Store("healthy", m))
           IN /\ marked = "err" <=> bare = "err"
              /\ marked = "yes" => bare = "yes"
              /\ bare = "yes" /\ pattern.check \in DOMAIN StatePredicate
                   /\ StatePredicate[pattern.check].mark \notin m => marked = "yes"
BY DEF Matches, MatchesContent, MatchesCommand, StateMatches, Store, YesNo

(* A call that runs saw the marks its rules ask for, and each of them is   *)
(* there because of a call that was let through before, was killed, or is  *)
(* about to be let through (engine.rs, mark_command_state_if_needed).      *)
THEOREM GatesKeepOrder == Spec => []GateOrderHolds
<1>1. ASSUME IInv PROVE GateOrderHolds
  <2> SUFFICES ASSUME NEW i \in Invocations, pc[i] = "ran", posture \in {"open", "closed"},
                      health[i] = "healthy",
                      ~Demanded[[call |-> call[i], readable |-> TRUE, marks |-> {}]].undecided,
                      NEW m \in Needed[call[i]]
               PROVE  m \in granted \cup vanished \cup
                        UNION {MarksOf(Call[call[j]]) :
                                 j \in {k \in Invocations \ {i} : pc[k] = "answer" /\ result[k] = Allowed}}
    BY DEF GateOrderHolds
  <2> DEFINE c == Call[call[i]]
             bare == Store("healthy", {})
             store == Store("healthy", saw[i])
             s == Situation(i, saw[i])
  <2>1. WellJudged(i) /\ saw[i] \in SUBSET MarkNames
    BY <1>1 DEF IInv, JudgedWell, TypeOK
  <2>2. call[i] \in Calls /\ SoundResult(s, result[i]) /\ result[i].channel # "deny"
    BY <2>1 DEF WellJudged, Answered
  <2>3. ~Undecided(c, bare)
    <3>1. Demanded[[call |-> call[i], readable |-> "healthy" # "blind", marks |-> {}]].undecided
            = Undecided(c, bare)
      BY <2>2, DemandedIs DEF Healths
    <3> QED
      BY <3>1
  <2>4. PICK g \in Demands(c, bare) : /\ g.channel = "deny" /\ g.check \in DOMAIN StatePredicate
                                      /\ StatePredicate[g.check].mark = m
    BY <2>2 DEF Needed
  <2>5. PICK a \in Applications(c) : g \in DemandedBy(a[2], a[1], bare)
    BY DEF Demands
  <2>6. ~Undecided(c, store)
    BY <2>3, MarksOnlyRelax DEF Undecided, UndecidedBy
  <2>7. m \in saw[i]
    <3>1. SUFFICES ASSUME m \notin saw[i] PROVE FALSE
      OBVIOUS
    <3>2. g \in DemandedBy(a[2], a[1], store)
      BY <2>4, <2>5, <3>1, MarksOnlyRelax DEF DemandedBy
    <3>3. g \in Demands(c, store)
      BY <2>5, <3>2 DEF Demands
    <3>4. Severest(c, store) = "deny"
      BY <2>4, <3>3 DEF Severest
    <3>5. s.health = "healthy" /\ s.call = call[i] /\ StoreIn(s) = store
      BY DEF Situation, StoreIn
    <3> HIDE DEF s, store
    <3>6. result[i].channel = "deny"
      BY <2>2, <2>6, <3>4, <3>5 DEF SoundResult
    <3> QED
      BY <2>2, <3>6
  <2>8. m \in marks
    BY <1>1, <2>7 DEF IInv, MarksHaveCauses
  <2>9. CASE m \notin granted \cup vanished
    <3>1. PICK j \in Invocations : pc[j] = "answer" /\ result[j] = Allowed /\ m \in MarksOf(Call[call[j]])
      BY <1>1, <2>8, <2>9 DEF IInv, MarksHaveCauses
    <3> QED
      BY <3>1
  <2> QED
    BY <2>9
<1> QED
  BY <1>1, InductiveInvariant, PTL

(* A sequence without duplicates has as many members as places.            *)
LEMMA DistinctCount ==
    ASSUME NEW S, NEW cases \in Seq(S), Distinct(cases)
    PROVE  Cardinality(ToSet(cases)) = Len(cases)
<1> DEFINE n == Len(cases)
<1>1. n \in Nat /\ DOMAIN cases = 1..n /\ ToSet(cases) = {cases[k] : k \in 1..n}
  BY DEF ToSet
<1>2. cases \in Bijection(1..n, ToSet(cases))
  <2>1. cases = [k \in 1..n |-> cases[k]]
    BY <1>1
  <2>2. cases \in [1..n -> ToSet(cases)]
    BY <1>1, <2>1
  <2>3. \A j, k \in 1..n : cases[j] = cases[k] => j = k
    BY <1>1 DEF Distinct
  <2>4. \A x \in ToSet(cases) : \E k \in 1..n : cases[k] = x
    BY <1>1
  <2> QED
    BY <2>2, <2>3, <2>4 DEF Bijection, Injection, Surjection, IsInjective
<1>3. IsFiniteSet(1..n) /\ Cardinality(1..n) = n
  <2> HIDE DEF n
  <2>1. n \in Int /\ 1 \in Int
    BY <1>1
  <2>2. IsFiniteSet(1..n) /\ Cardinality(1..n) = IF 1 > n THEN 0 ELSE n - 1 + 1
    BY <2>1, FS_Interval
  <2>3. (IF 1 > n THEN 0 ELSE n - 1 + 1) = n
    BY <1>1
  <2> QED  BY <2>2, <2>3
<1>4. ExistsBijection(1..n, ToSet(cases))
  BY <1>2 DEF ExistsBijection
<1> QED
  BY <1>3, <1>4, FS_Bijection

(* Unless two of them met on a file, invocations keep every denial they    *)
(* have recorded and record every one; keep each corpus distinct and       *)
(* within its limit; and count each evaluation once (denial_log.rs,        *)
(* regression.rs; main.rs, record_hook_batch_denial).                      *)
THEOREM RecordsHold == Spec => []RecordsAreKept
<1>1. ASSUME IInv PROVE RecordsAreKept
  <2>1. ASSUME "log" \notin raced
        PROVE  /\ recorded \subseteq log \cup expired \cup UNION {rotated[k] : k \in 1..MaxRotated}
               /\ troubles = 0 => \A i \in Invocations :
                    pc[i] \in Answered /\ result[i].channel = "deny" => i \in recorded
    <3>1. StaysRecorded /\ DenialsAreRecorded
      BY <1>1, <2>1 DEF IInv, LogIsKept
    <3>2. \A i \in Invocations : posture = "bypass" => result[i].channel # "deny"
      BY <1>1 DEF IInv, JudgedWell, WellJudged, Allowed
    <3> QED
      BY <3>1, <3>2 DEF StaysRecorded, DenialsAreRecorded, Owed
  <2>2. ASSUME "corpus" \notin raced, NEW p \in ResultPacks
        PROVE  Len(corpus[p]) <= CorpusLimit /\ Cardinality(ToSet(corpus[p])) = Len(corpus[p])
    <3>1. Len(corpus[p]) <= CorpusLimit /\ Distinct(corpus[p]) /\ corpus[p] \in Seq(Cases)
      BY <1>1, <2>2 DEF IInv, CorpusIsKept, CorpusIsRight, TypeOK
    <3> QED
      BY <3>1, DistinctCount
  <2>3. ASSUME NEW i \in Invocations, pc[i] \in Answered, posture # "bypass"
        PROVE  /\ counted[i] <= 1 + Len(Call[call[i]].units)
               /\ counted[i] # 1 => \/ health[i] = "halted"
                                    \/ Call[call[i]].kind = "unsupported"
                                    \/ Call[call[i]].kind = "batch" /\ result[i].channel = "deny"
    BY <1>1, <2>3 DEF IInv, JudgedWell, WellJudged, SoundCount
  <2> QED
    BY <2>1, <2>2, <2>3 DEF RecordsAreKept
<1> QED
  BY <1>1, InductiveInvariant, PTL

-----------------------------------------------------------------------------
(* One call, from its payload to what the harness does (CallReadings).     *)

(* Fields that are there on a condition.                                   *)
LEMMA WhenIs ==
    ASSUME NEW c \in BOOLEAN, NEW f
    PROVE  /\ c => Tools!When(c, f) = f
           /\ ~c => DOMAIN Tools!When(c, f) = {}
  BY DEF Tools!When, Tools!None

(* What a response says: a refusal with its reason, another input, or      *)
(* neither.                                                                *)
Says(sent) ==
    /\ Tools!Denies => /\ \E f \in Tools!Veto \cap DOMAIN sent : sent[f] = "deny"
                       /\ \E f \in Tools!Explanations \cap DOMAIN sent : sent[f] = Tools!AttributedReason
    /\ ~Tools!Denies => \A f \in Tools!Veto \cap DOMAIN sent : sent[f] # "deny"
    /\ ~Tools!Denies /\ Tools!Rewrites =>
         \E f : Tools!OtherInput \cap DOMAIN sent = {f} /\ sent[f] = Tools!Replacement
    /\ ~Tools!Denies /\ ~Tools!Rewrites => Tools!OtherInput \cap DOMAIN sent = {}

(* So it is in each harness's envelope.                                   *)
LEMMA OpenCodeSays == Says(Tools!OpenCodeEnvelope)
<1> DEFINE reason == Tools!AttributedReason
           other == Tools!Replacement
<1>1. CASE Tools!Denies
  <2> DEFINE sent == Tools!Over(Tools!Only("action", "deny"), Tools!Only("message", reason))
  <2>1. DOMAIN sent = {"action", "message"} /\ sent["action"] = "deny" /\ sent["message"] = reason
    BY DEF Tools!Only, Tools!Over
  <2>2. Tools!OpenCodeEnvelope = sent
    BY <1>1 DEF Tools!OpenCodeEnvelope
  <2> HIDE DEF sent
  <2> QED  BY <1>1, <2>1, <2>2 DEF Says, Tools!Veto, Tools!Explanations
<1>2. CASE ~Tools!Denies /\ Tools!Rewrites
  <2> DEFINE sent == Tools!Over(Tools!Only("action", "rewrite"), Tools!Only("args", other))
  <2>1. DOMAIN sent = {"action", "args"} /\ sent["action"] = "rewrite" /\ sent["args"] = other
    BY DEF Tools!Only, Tools!Over
  <2>2. Tools!OpenCodeEnvelope = sent
    BY <1>2 DEF Tools!OpenCodeEnvelope
  <2> HIDE DEF sent
  <2> QED  BY <1>2, <2>1, <2>2 DEF Says, Tools!Veto, Tools!OtherInput
<1>3. CASE ~Tools!Denies /\ ~Tools!Rewrites
  <2> DEFINE sent == Tools!Only("action", "allow")
  <2>1. DOMAIN sent = {"action"} /\ sent["action"] = "allow"
    BY DEF Tools!Only
  <2>2. Tools!OpenCodeEnvelope = sent
    BY <1>3 DEF Tools!OpenCodeEnvelope
  <2> HIDE DEF sent
  <2> QED  BY <1>3, <2>1, <2>2 DEF Says, Tools!Veto, Tools!OtherInput
<1> QED  BY <1>1, <1>2, <1>3

(* The same in the envelope of Cursor.                                     *)
LEMMA CursorSays == Says(Tools!CursorEnvelope)
<1> DEFINE reason == Tools!AttributedReason
           other == Tools!Replacement
           refusal == Tools!Over(Tools!Only("user_message", reason), Tools!Only("agent_message", reason))
           changed == Tools!When(Tools!Rewrites, Tools!Only("updated_input", other))
<1>1. CASE Tools!Denies
  <2> DEFINE sent == Tools!Over(Tools!Only("permission", "deny"), refusal)
  <2>1. DOMAIN refusal = {"user_message", "agent_message"} /\ refusal["user_message"] = reason
    BY DEF Tools!Only, Tools!Over
  <2> HIDE DEF refusal
  <2>2. /\ DOMAIN sent = {"permission", "user_message", "agent_message"}
        /\ sent["permission"] = "deny" /\ sent["user_message"] = reason
    BY <2>1 DEF Tools!Only, Tools!Over
  <2>3. Tools!CursorEnvelope = sent
    BY <1>1 DEF Tools!CursorEnvelope, refusal
  <2> HIDE DEF sent
  <2> QED  BY <1>1, <2>2, <2>3 DEF Says, Tools!Veto, Tools!Explanations
<1>2. CASE ~Tools!Denies
  <2> DEFINE sent == Tools!Over(Tools!Only("permission", "allow"), changed)
  <2>1. Tools!Rewrites \in BOOLEAN
    BY DEF Tools!Rewrites
  <2>2. /\ Tools!Rewrites => DOMAIN changed = {"updated_input"} /\ changed["updated_input"] = other
        /\ ~Tools!Rewrites => DOMAIN changed = {}
    BY <2>1, WhenIs DEF Tools!Only
  <2> HIDE DEF changed
  <2>3. /\ DOMAIN sent = {"permission"} \cup DOMAIN changed
        /\ sent["permission"] = "allow"
        /\ Tools!Rewrites => sent["updated_input"] = other
    BY <2>2 DEF Tools!Only, Tools!Over
  <2>4. Tools!CursorEnvelope = sent
    BY <1>2 DEF Tools!CursorEnvelope, changed
  <2> HIDE DEF sent
  <2> QED  BY <1>2, <2>2, <2>3, <2>4 DEF Says, Tools!Veto, Tools!OtherInput
<1> QED  BY <1>1, <1>2

(* The same in the envelope of Gemini.                                     *)
LEMMA GeminiSays == Says(Tools!GeminiEnvelope)
<1> DEFINE reason == Tools!AttributedReason
           other == Tools!Replacement
           warned == Tools!When(decision.kind = "warn", Tools!Only("systemMessage", reason))
           changed == Tools!When(Tools!Rewrites, Tools!Only("tool_input", other))
<1>1. CASE Tools!Denies
  <2> DEFINE sent == Tools!Over(Tools!Only("decision", "deny"), Tools!Only("reason", reason))
  <2>1. DOMAIN sent = {"decision", "reason"} /\ sent["decision"] = "deny" /\ sent["reason"] = reason
    BY DEF Tools!Only, Tools!Over
  <2>2. Tools!GeminiEnvelope = sent
    BY <1>1 DEF Tools!GeminiEnvelope
  <2> HIDE DEF sent
  <2> QED  BY <1>1, <2>1, <2>2 DEF Says, Tools!Veto, Tools!Explanations
<1>2. CASE ~Tools!Denies
  <2> DEFINE sent == Tools!Over(warned, changed)
  <2>1. Tools!Rewrites \in BOOLEAN
    BY DEF Tools!Rewrites
  <2>2. /\ Tools!Rewrites => DOMAIN changed = {"tool_input"} /\ changed["tool_input"] = other
        /\ ~Tools!Rewrites => DOMAIN changed = {}
    BY <2>1, WhenIs DEF Tools!Only
  <2>3. DOMAIN warned \subseteq {"systemMessage"}
    BY WhenIs DEF Tools!Only
  <2> HIDE DEF changed, warned
  <2>4. /\ DOMAIN sent = DOMAIN warned \cup DOMAIN changed
        /\ Tools!Rewrites => sent["tool_input"] = other
    BY <2>2, <2>3 DEF Tools!Over
  <2>5. Tools!GeminiEnvelope = sent
    BY <1>2 DEF Tools!GeminiEnvelope, changed, warned
  <2> HIDE DEF sent
  <2> QED  BY <1>2, <2>2, <2>3, <2>4, <2>5 DEF Says, Tools!Veto, Tools!OtherInput
<1> QED  BY <1>1, <1>2

(* The same in the envelope that Claude Code and Codex share.              *)
LEMMA SharedSays == Says(Tools!SharedEnvelope)
<1> DEFINE reason == Tools!AttributedReason
           other == Tools!Replacement
           can == Tools!Supports
           allowed == Tools!When(can.allowDecision, Tools!Only("permissionDecision", "allow"))
           changed == Tools!When(Tools!Rewrites, Tools!Only("updatedInput", other))
           warned == Tools!When((decision.kind = "warn" \/ Tools!Rewrites) /\ can.additionalContext,
                                Tools!Only("additionalContext", reason))
<1>1. CASE Tools!Denies
  <2> DEFINE sent == Tools!Over(Tools!Only("permissionDecision", "deny"),
                                Tools!Only("permissionDecisionReason", reason))
  <2>1. /\ DOMAIN sent = {"permissionDecision", "permissionDecisionReason"}
        /\ sent["permissionDecision"] = "deny" /\ sent["permissionDecisionReason"] = reason
    BY DEF Tools!Only, Tools!Over
  <2>2. Tools!SharedEnvelope = sent
    BY <1>1 DEF Tools!SharedEnvelope
  <2> HIDE DEF sent
  <2> QED  BY <1>1, <2>1, <2>2 DEF Says, Tools!Veto, Tools!Explanations
<1>2. CASE ~Tools!Denies
  <2> DEFINE first == Tools!Over(allowed, changed)
             sent == Tools!Over(first, warned)
  <2>1. Tools!Rewrites \in BOOLEAN
    BY DEF Tools!Rewrites
  <2>2. /\ Tools!Rewrites => DOMAIN changed = {"updatedInput"} /\ changed["updatedInput"] = other
        /\ ~Tools!Rewrites => DOMAIN changed = {}
    BY <2>1, WhenIs DEF Tools!Only
  <2>3. DOMAIN warned \subseteq {"additionalContext"}
    BY DEF Tools!Only, Tools!When, Tools!None
  <2>4. /\ DOMAIN allowed \subseteq {"permissionDecision"}
        /\ "permissionDecision" \in DOMAIN allowed => allowed["permissionDecision"] = "allow"
    BY DEF Tools!Only, Tools!When, Tools!None
  <2> HIDE DEF changed, warned, allowed
  <2>5. /\ DOMAIN first = DOMAIN allowed \cup DOMAIN changed
        /\ "permissionDecision" \in DOMAIN first => first["permissionDecision"] = "allow"
        /\ Tools!Rewrites => first["updatedInput"] = other
    BY <2>2, <2>4 DEF Tools!Over
  <2> HIDE DEF first
  <2>6. /\ DOMAIN sent = DOMAIN first \cup DOMAIN warned
        /\ "permissionDecision" \in DOMAIN sent => sent["permissionDecision"] = "allow"
        /\ Tools!Rewrites => sent["updatedInput"] = other
    BY <2>2, <2>3, <2>5 DEF Tools!Over
  <2>7. Tools!SharedEnvelope = sent
    BY <1>2 DEF Tools!SharedEnvelope, changed, warned, allowed, first
  <2> HIDE DEF sent
  <2>8. \A f \in Tools!Veto \cap DOMAIN sent : sent[f] # "deny"
    BY <2>2, <2>3, <2>4, <2>5, <2>6 DEF Tools!Veto
  <2>9. /\ Tools!Rewrites => Tools!OtherInput \cap DOMAIN sent = {"updatedInput"}
        /\ ~Tools!Rewrites => Tools!OtherInput \cap DOMAIN sent = {}
    BY <2>2, <2>3, <2>4, <2>5, <2>6 DEF Tools!OtherInput
  <2> QED  BY <1>2, <2>6, <2>7, <2>8, <2>9 DEF Says
<1> QED  BY <1>1, <1>2

(* The harnesses, and what their wires can express.                        *)
LEMMA HarnessesAre ==
    DOMAIN Tools!Capabilities = {"claude", "codex", "gemini", "opencode", "cursor", "cursorShell"}
  BY DEF Tools!Capabilities

(* Whatever the harness, its response says what was decided.               *)
LEMMA RenderSays ==
    ASSUME Tools!Render, payload.harness \in DOMAIN Tools!Capabilities
    PROVE  Says(response')
<1>1. response' = CASE payload.harness \in {"claude", "codex"} -> Tools!SharedEnvelope
                    [] payload.harness \in {"cursor", "cursorShell"} -> Tools!CursorEnvelope
                    [] payload.harness = "gemini" -> Tools!GeminiEnvelope
                    [] payload.harness = "opencode" -> Tools!OpenCodeEnvelope
  BY DEF Tools!Render
<1>2. CASE payload.harness \in {"claude", "codex"}
  BY <1>1, <1>2, SharedSays
<1>3. CASE payload.harness \in {"cursor", "cursorShell"}
  BY <1>1, <1>3, CursorSays
<1>4. CASE payload.harness = "gemini"
  BY <1>1, <1>4, GeminiSays
<1>5. CASE payload.harness = "opencode"
  BY <1>1, <1>5, OpenCodeSays
<1> QED  BY <1>2, <1>3, <1>4, <1>5, HarnessesAre

(* What the engine is given fits the tool: it comes from fields that are   *)
(* there, and the kind tells which.                                        *)
SourceFits ==
    LET tool == Tools!Tool(payload)
        fields == DOMAIN payload.input
    IN source # Tools!NoSource =>
         /\ payload.parses
         /\ \/ source.kind = "command" /\ tool \in Tools!CommandTools /\ "command" \in fields
            \/ source.kind = "files" /\ tool = "apply_patch" /\ "command" \in fields
            \/ source.kind = "write" /\ tool \in Tools!WriteTools /\ "content" \in fields
            \/ /\ source.kind = "edit"
               /\ tool \in Tools!EditTools \/ (tool \in Tools!WriteTools /\ "content" \notin fields)
               /\ Tools!New \cap fields # {}

(* The field that a rewrite replaces is the one the tool acts with.        *)
LEMMA KeyIs ==
    ASSUME SourceFits, source # Tools!NoSource, Tools!IsCall(payload)
    PROVE  /\ Tools!RewriteKey \in DOMAIN payload.input
           /\ Tools!Acted(Tools!Tool(payload)) \cap DOMAIN payload.input = {Tools!RewriteKey}
<1> DEFINE tool == Tools!Tool(payload)
           fields == DOMAIN payload.input
<1>1. /\ "command" \notin Tools!WriteTools \cup Tools!EditTools
      /\ Tools!CommandTools \cap (Tools!WriteTools \cup Tools!EditTools) = {}
      /\ Tools!WriteTools \cap Tools!EditTools = {}
      /\ "apply_patch" \notin Tools!CommandTools \cup Tools!WriteTools \cup Tools!EditTools
  BY DEF Tools!CommandTools, Tools!WriteTools, Tools!EditTools
<1>2. payload.parses /\ Tools!SpelledOnce(payload.input)
  BY DEF SourceFits, Tools!IsCall
<1> HIDE DEF tool
<1>3. CASE source.kind = "command" /\ tool \in Tools!CommandTools /\ "command" \in fields
  <2>1. Tools!RewriteKey = "command"
    BY <1>1, <1>3 DEF Tools!RewriteKey, tool
  <2>2. Tools!Acted(tool) = {"command"}
    BY <1>3 DEF Tools!Acted
  <2> QED  BY <2>1, <2>2, <1>3 DEF tool
<1>4. CASE source.kind = "files" /\ tool = "apply_patch" /\ "command" \in fields
  <2>1. Tools!RewriteKey = "command"
    BY <1>4 DEF Tools!RewriteKey, tool
  <2>2. Tools!Acted(tool) = {"command"}
    BY <1>4 DEF Tools!Acted
  <2> QED  BY <2>1, <2>2, <1>4 DEF tool
<1>5. CASE source.kind = "write" /\ tool \in Tools!WriteTools /\ "content" \in fields
  <2>1. Tools!RewriteKey = "content"
    BY <1>1, <1>5 DEF Tools!RewriteKey, tool
  <2>2. Tools!Acted(tool) = {"content"}
    BY <1>1, <1>5 DEF Tools!Acted
  <2> QED  BY <2>1, <2>2, <1>5 DEF tool
<1>6. CASE /\ source.kind = "edit"
           /\ tool \in Tools!EditTools \/ (tool \in Tools!WriteTools /\ "content" \notin fields)
           /\ Tools!New \cap fields # {}
  <2>1. tool # "apply_patch" /\ tool \notin Tools!CommandTools
    BY <1>1, <1>6
  <2>2. Tools!RewriteKey = IF "new_string" \in fields THEN "new_string" ELSE "newString"
    BY <1>6, <2>1 DEF Tools!RewriteKey, tool
  <2>3. Tools!Acted(tool) = Tools!New
    BY <1>1, <1>6, <2>1 DEF Tools!Acted
  <2>4. \A f, g \in Tools!New \cap fields : f = g
    BY <1>2 DEF Tools!SpelledOnce
  <2>5. Tools!New = {"new_string", "newString"}
    BY DEF Tools!New
  <2>6. Tools!RewriteKey \in Tools!New \cap fields
    BY <1>6, <2>2, <2>5
  <2> QED  BY <2>3, <2>4, <2>6 DEF tool
<1> QED  BY <1>3, <1>4, <1>5, <1>6 DEF SourceFits, tool

(* What is decided fits what was found.                                    *)
DecisionFits ==
    /\ decision.kind \in Tools!Verdicts
    /\ decision.kind = "rewrite" => source # Tools!NoSource

(* The harness does what its response says.                                *)
LEMMA ActIs ==
    ASSUME Tools!Act, Says(response), SourceFits, DecisionFits, Tools!IsCall(payload)
    PROVE  Tools!VerdictIsExecuted'
<1> DEFINE input == payload.input
           key == Tools!RewriteKey
           reason == Tools!AttributedReason
<1>1. /\ executed' = IF \E f \in Tools!Veto \cap DOMAIN response : response[f] = "deny" THEN Tools!Blocked
                     ELSE IF Tools!OtherInput \cap DOMAIN response # {}
                     THEN Tools!Over(Tools!Field(response, Tools!OtherInput), input)
                     ELSE input
      /\ UNCHANGED <<payload, source, decision, response>>
  BY DEF Tools!Act
<1>2. /\ input = [f \in DOMAIN input |-> input[f]] /\ "blocked" \notin DOMAIN input
      /\ payload.harness \in DOMAIN Tools!Capabilities
  BY DEF Tools!IsCall
<1>3. DOMAIN Tools!Blocked = {"blocked"}
  BY DEF Tools!Blocked
<1>4. CASE Tools!Denies
  <2>1. executed' = Tools!Blocked
    BY <1>1, <1>4 DEF Says
  <2>2. decision.kind = "deny" \/ (decision.kind = "rewrite" /\ ~Tools!Supports.updatedInput)
    BY <1>4 DEF Tools!Denies
  <2>3. ~Tools!Supports.updatedInput => payload.harness \in {"codex", "cursorShell"}
    BY <1>2, HarnessesAre DEF Tools!Supports, Tools!Capabilities, Tools!Can
  <2>4. \E f \in Tools!Explanations \cap DOMAIN response : response[f] = reason
    BY <1>4 DEF Says
  <2> QED  BY <1>1, <2>1, <2>2, <2>3, <2>4 DEF Tools!VerdictIsExecuted, Tools!AttributedReason
<1>5. CASE ~Tools!Denies /\ Tools!Rewrites
  <2>1. PICK f : Tools!OtherInput \cap DOMAIN response = {f} /\ response[f] = Tools!Replacement
    BY <1>5 DEF Says
  <2>2. Tools!Field(response, Tools!OtherInput) = Tools!Replacement
    <3>1. (CHOOSE n \in Tools!OtherInput : n \in DOMAIN response) = f
      BY <2>1
    <3> QED  BY <2>1, <3>1 DEF Tools!Field
  <2>3. executed' = Tools!Over(Tools!Over(Tools!Only(key, Tools!Rewritten), input), input)
    BY <1>1, <1>5, <2>1, <2>2 DEF Says, Tools!Replacement
  <2>4. decision.kind = "rewrite"
    BY <1>5 DEF Tools!Rewrites
  <2>5. key \in DOMAIN input /\ Tools!Acted(Tools!Tool(payload)) \cap DOMAIN input = {key}
    BY <2>4, KeyIs DEF DecisionFits
  <2> HIDE DEF key
  <2>6. executed' = [input EXCEPT ![key] = Tools!Rewritten]
    BY <2>3, <2>5, <1>2 DEF Tools!Over, Tools!Only
  <2>7. executed' # Tools!Blocked
    BY <2>6, <1>2, <1>3
  <2>8. (CHOOSE g \in Tools!Acted(Tools!Tool(payload)) : g \in DOMAIN input) = key
    BY <2>5
  <2> QED
    <3>1. Tools!Acted(Tools!Tool(payload))' = Tools!Acted(Tools!Tool(payload))
      BY <1>1 DEF Tools!Acted, Tools!Tool
    <3>2. (CHOOSE g \in Tools!Acted(Tools!Tool(payload))' : g \in DOMAIN payload'.input) = key
      BY <1>1, <2>8, <3>1
    <3>3. executed' = [payload'.input EXCEPT ![key] = Tools!Rewritten]
      BY <1>1, <2>6
    <3>4. decision'.kind = "rewrite"
      BY <1>1, <2>4
    <3> QED  BY <2>7, <3>2, <3>3, <3>4 DEF Tools!VerdictIsExecuted
<1>6. CASE ~Tools!Denies /\ ~Tools!Rewrites
  <2>1. executed' = input
    BY <1>1, <1>6 DEF Says
  <2>2. decision.kind \in {"allow", "warn"}
    BY <1>6 DEF Tools!Denies, Tools!Rewrites, DecisionFits, Tools!Verdicts
  <2>3. input # Tools!Blocked
    BY <1>2, <1>3
  <2> QED  BY <1>1, <2>1, <2>2, <2>3 DEF Tools!VerdictIsExecuted
<1> QED  BY <1>4, <1>5, <1>6

(* What is found in a call that is no patch comes from fields of its own.  *)
LEMMA ClassifiedFits ==
    ASSUME Tools!Admit
    PROVE  /\ stage' = "judge" => SourceFits' \/ source' = source
           /\ stage' \in {"judge", "patch"}
           /\ stage' = "patch" => /\ payload.parses /\ Tools!Tool(payload) = "apply_patch"
                                  /\ "command" \in DOMAIN payload.input
                                  /\ source' = source /\ unread' = payload.input.command
<1> DEFINE tool == Tools!Tool(payload)
           input == payload.input
<1>1. UNCHANGED <<payload, begun, current, files, decision, response, executed>>
  BY DEF Tools!Admit
<1>2. CASE ~Tools!Admitted(payload)
  BY <1>2 DEF Tools!Admit
<1>3. CASE Tools!Admitted(payload) /\ tool = "apply_patch" /\ Tools!Has(input, {"command"})
  BY <1>3 DEF Tools!Admit, Tools!Admitted, Tools!Has
<1>4. CASE Tools!Admitted(payload) /\ ~(tool = "apply_patch" /\ Tools!Has(input, {"command"}))
  <2>1. stage' = "judge" /\ source' = Tools!Classified(tool, input)
    BY <1>4 DEF Tools!Admit
  <2>2. payload'.parses /\ Tools!Tool(payload') = tool
    BY <1>1, <1>4 DEF Tools!Admitted
  <2> HIDE DEF tool
  <2>3. CASE tool \in Tools!CommandTools
    <3>1. source' = IF "command" \in DOMAIN input THEN [kind |-> "command", text |-> input.command]
                    ELSE Tools!NoSource
      BY <2>1, <2>3 DEF Tools!Classified, Tools!Has
    <3> QED  BY <1>1, <2>1, <2>2, <2>3, <3>1 DEF SourceFits
  <2>4. CASE tool \notin Tools!CommandTools /\ tool \in Tools!WriteTools /\ Tools!Gives(input, Tools!Path)
             /\ "content" \in DOMAIN input
    <3>1. source'.kind = "write"
      BY <2>1, <2>4 DEF Tools!Classified
    <3> QED  BY <1>1, <2>1, <2>2, <2>4, <3>1 DEF SourceFits
  <2>5. CASE /\ tool \notin Tools!CommandTools
             /\ ~(tool \in Tools!WriteTools /\ Tools!Gives(input, Tools!Path) /\ "content" \in DOMAIN input)
             /\ tool \in Tools!WriteTools \cup Tools!EditTools
             /\ Tools!Gives(input, Tools!Path) /\ Tools!EditShape(input)
    <3>1. source'.kind = "edit"
      BY <2>1, <2>5 DEF Tools!Classified
    <3>2. Tools!New \cap DOMAIN input # {}
      BY <2>5 DEF Tools!EditShape, Tools!Gives
    <3> QED  BY <1>1, <2>1, <2>2, <2>5, <3>1, <3>2 DEF SourceFits
  <2>6. CASE /\ tool \notin Tools!CommandTools
             /\ ~(tool \in Tools!WriteTools /\ Tools!Gives(input, Tools!Path) /\ "content" \in DOMAIN input)
             /\ ~(/\ tool \in Tools!WriteTools \cup Tools!EditTools
                  /\ Tools!Gives(input, Tools!Path) /\ Tools!EditShape(input))
    <3>1. source' = Tools!NoSource
      BY <2>1, <2>6 DEF Tools!Classified
    <3> QED  BY <2>1, <3>1 DEF SourceFits
  <2> QED  BY <2>3, <2>4, <2>5, <2>6
<1> QED  BY <1>2, <1>3, <1>4

(* What a call has come to at each stage.                                  *)
CallsInv ==
    /\ part = "calls" => payload \in Payloads
    /\ stage # "read" => part = "calls"
    /\ stage \in {"read", "patch"} => source = Tools!NoSource
    /\ stage = "patch" => /\ payload.parses /\ Tools!Tool(payload) = "apply_patch"
                          /\ "command" \in DOMAIN payload.input
    /\ SourceFits
    /\ stage \in {"render", "act", "done"} => DecisionFits
    /\ stage = "act" => Says(response)
    /\ Tools!VerdictIsExecuted

(* Each step of a call keeps that.                                         *)
LEMMA CallsKeep ==
    ASSUME CallsInv, part = "calls", part' = part, Tools!PayloadNext
    PROVE  CallsInv'
<1>1. payload \in Payloads /\ Tools!IsCall(payload) /\ SourceFits
  BY PayloadsAssumption DEF CallsInv
<1>2. CASE Tools!Admit
  <2>1. stage = "read" /\ UNCHANGED <<payload, begun, current, files, decision, response, executed>>
    BY <1>2 DEF Tools!Admit
  <2>2. SourceFits'
    <3>1. source' = source => SourceFits'
      BY <1>1, <2>1 DEF SourceFits
    <3>2. stage' = "patch" => source' = source
      BY <1>2, ClassifiedFits
    <3> QED  BY <1>2, <3>1, <3>2, ClassifiedFits
  <2>3. /\ stage' \in {"judge", "patch"}
        /\ stage' = "patch" => /\ payload.parses /\ Tools!Tool(payload) = "apply_patch"
                               /\ "command" \in DOMAIN payload.input /\ source' = source
    BY <1>2, ClassifiedFits
  <2> QED  BY <1>1, <2>1, <2>2, <2>3 DEF CallsInv, Tools!VerdictIsExecuted
<1>3. ASSUME stage = "patch", stage' = "patch", UNCHANGED <<payload, source, decision, response, executed>>
      PROVE  CallsInv'
  <2>1. SourceFits'
    BY <1>1, <1>3 DEF SourceFits
  <2> QED  BY <1>3, <2>1 DEF CallsInv, Tools!VerdictIsExecuted
<1>4. ASSUME stage = "patch", UNCHANGED <<payload, decision, response, executed>>, NEW found, Tools!PatchDone(found)
      PROVE  CallsInv'
  <2>1. stage' = "judge" /\ (source' = Tools!NoSource \/ source'.kind = "files")
    BY <1>4 DEF Tools!PatchDone
  <2>2. SourceFits'
    BY <1>4, <2>1 DEF SourceFits, CallsInv
  <2> QED  BY <1>4, <2>1, <2>2 DEF CallsInv, Tools!VerdictIsExecuted
<1>5. CASE Tools!BeginMarker
  BY <1>3, <1>4, <1>5 DEF Tools!BeginMarker, Tools!Reading, Tools!NextLine, Tools!PatchFrame
<1>6. CASE Tools!EndOfPatch
  <2>1. stage = "patch" /\ Tools!PatchDone(IF begun THEN Tools!Flushed ELSE <<>>)
        /\ UNCHANGED <<payload, decision, response, executed>>
    BY <1>6 DEF Tools!EndOfPatch, Tools!Reading, Tools!PatchFrame
  <2> QED  BY <1>4, <2>1
<1>7. CASE Tools!Skip
  BY <1>3, <1>7 DEF Tools!Skip, Tools!NextLine, Tools!PatchFrame
<1>8. CASE Tools!FileHeader
  BY <1>3, <1>8 DEF Tools!FileHeader, Tools!Reading, Tools!NextLine, Tools!PatchFrame
<1>9. CASE Tools!MoveHeader
  BY <1>3, <1>9 DEF Tools!MoveHeader, Tools!Reading, Tools!NextLine, Tools!PatchFrame
<1>10. CASE Tools!ContentLine
  BY <1>3, <1>10 DEF Tools!ContentLine, Tools!Reading, Tools!NextLine, Tools!PatchFrame
<1>11. CASE Tools!Judge
  <2>1. stage = "judge" /\ stage' = "render"
        /\ UNCHANGED <<payload, unread, begun, current, files, source, response, executed>>
    BY <1>11 DEF Tools!Judge
  <2>2. DecisionFits'
    <3>1. PICK v \in IF source = Tools!NoSource THEN {"allow", "deny"} ELSE Tools!Verdicts,
               m \in {<<>>} \cup {<<p>> : p \in Tools!ToSet(Tools!Paths(source))} :
               decision' = [kind |-> v, matched |-> m]
      BY <1>11 DEF Tools!Judge
    <3> QED  BY <2>1, <3>1 DEF DecisionFits, Tools!Verdicts
  <2>3. SourceFits'
    BY <1>1, <2>1 DEF SourceFits
  <2> QED  BY <2>1, <2>2, <2>3 DEF CallsInv, Tools!VerdictIsExecuted
<1>12. CASE Tools!Render
  <2>1. stage = "render" /\ stage' = "act"
        /\ UNCHANGED <<payload, unread, begun, current, files, source, decision, executed>>
    BY <1>12 DEF Tools!Render
  <2>2. Says(response')
    BY <1>1, <1>12, RenderSays DEF Tools!IsCall
  <2>3. Says(response)'
    BY <2>1, <2>2 DEF Says, Tools!Denies, Tools!Rewrites, Tools!Supports, Tools!Replacement,
         Tools!RewriteKey, Tools!AttributedReason
  <2>4. SourceFits' /\ DecisionFits'
    BY <1>1, <2>1 DEF SourceFits, DecisionFits, CallsInv
  <2> QED  BY <2>1, <2>3, <2>4 DEF CallsInv, Tools!VerdictIsExecuted
<1>13. CASE Tools!Act
  <2>1. stage = "act" /\ stage' = "done"
        /\ UNCHANGED <<payload, unread, begun, current, files, source, decision, response>>
    BY <1>13 DEF Tools!Act
  <2>2. Tools!VerdictIsExecuted'
    BY <1>1, <1>13, <2>1, ActIs DEF CallsInv
  <2>3. SourceFits' /\ DecisionFits'
    BY <1>1, <2>1 DEF SourceFits, DecisionFits, CallsInv
  <2> QED  BY <2>1, <2>2, <2>3 DEF CallsInv
<1> QED  BY <1>2, <1>5, <1>6, <1>7, <1>8, <1>9, <1>10, <1>11, <1>12, <1>13 DEF Tools!PayloadNext


(* What is known of calls does not depend on the other readers.            *)
LEMMA CallsRest ==
    ASSUME CallsInv, part' = part, UNCHANGED callsVars
    PROVE  CallsInv'
<1>1. UNCHANGED <<payload, stage, source, decision, response, executed>>
  BY DEF callsVars
<1>2. SourceFits'
  BY <1>1 DEF SourceFits, CallsInv
<1>3. DecisionFits <=> DecisionFits'
  BY <1>1 DEF DecisionFits
<1>4. Says(response) <=> Says(response)'
  BY <1>1 DEF Says, Tools!Denies, Tools!Rewrites, Tools!Supports, Tools!Replacement,
       Tools!RewriteKey, Tools!AttributedReason
<1>5. Tools!VerdictIsExecuted'
  BY <1>1 DEF CallsInv, Tools!VerdictIsExecuted, Tools!Acted
<1> QED  BY <1>1, <1>2, <1>3, <1>4, <1>5 DEF CallsInv

(* Every reachable state satisfies CallsInv.                               *)
LEMMA CallsInvariant == ReadingSpec => []CallsInv
<1>1. ReadingInit => CallsInv
  <2> SUFFICES ASSUME ReadingInit PROVE CallsInv
    OBVIOUS
  <2>1. payload \in (IF part = "calls" THEN Payloads ELSE {NoCall}) /\ stage = "read" /\ source = Tools!NoSource
    BY DEF ReadingInit, Tools!PayloadInit
  <2> QED  BY <2>1 DEF CallsInv, SourceFits, Tools!VerdictIsExecuted
<1>2. CallsInv /\ [ReadingNext]_readingVars => CallsInv'
  <2> SUFFICES ASSUME CallsInv, [ReadingNext]_readingVars PROVE CallsInv'
    OBVIOUS
  <2>1. CASE UNCHANGED readingVars
    BY <2>1, CallsRest DEF readingVars
  <2>2. CASE part' = part /\ UNCHANGED callsVars
    BY <2>2, CallsRest
  <2>3. CASE part' = part /\ part = "calls" /\ Tools!PayloadNext
    BY <2>3, CallsKeep
  <2> QED  BY <2>1, <2>2, <2>3 DEF ReadingNext
<1> QED  BY <1>1, <1>2, PTL DEF ReadingSpec

(* For any payloads of any harness: a denied call does not run, a call     *)
(* that is to be rewritten runs with the text its tool acts with replaced  *)
(* and every other field as it was sent, or not at all, and any other call *)
(* runs untouched; a refusal names its rule and its files (adapter.rs).    *)
THEOREM VerdictExecuted == ReadingSpec => []VerdictIsExecuted
<1>1. CallsInv => VerdictIsExecuted
  BY DEF CallsInv, VerdictIsExecuted
<1> QED  BY <1>1, CallsInvariant, PTL

-----------------------------------------------------------------------------
(* A patch, line by line.                                                  *)

(* A patch up to a place: the files that are named there, and what they    *)
(* have by then.                                                           *)
TouchedBy(text, r) == {k \in Tools!Touched(text) : k <= r}
TextsBy(text, k, r) == {t \in Tools!TextsAt(text, k) : t <= r}
IsFileBy(file, text, k, r) ==
    /\ file.path = text[k].path
    /\ \E texts \in [DOMAIN file.content -> TextsBy(text, k, r)] :
         /\ Tools!InOrder(texts, TextsBy(text, k, r))
         /\ \A i \in DOMAIN texts : file.content[i] = text[texts[i]].text
CoversBy(list, text, r) ==
    \E touched \in [DOMAIN list -> TouchedBy(text, r)] :
        /\ Tools!InOrder(touched, TouchedBy(text, r))
        /\ \A n \in DOMAIN list : IsFileBy(list[n], text, touched[n], r)
FilesOf(text) ==
    [path : {text[i].path : i \in DOMAIN text}, content : Seq({text[i].text : i \in DOMAIN text})]

(* Places that count are places of the text.                               *)
LEMMA PlacesAre ==
    ASSUME NEW T, NEW text \in Seq(T)
    PROVE  /\ Tools!Inside(text) \subseteq 1..Len(text)
           /\ Tools!Headers(text) \subseteq Tools!Touched(text)
           /\ Tools!Touched(text) \subseteq Tools!Naming(text)
           /\ Tools!Naming(text) \subseteq Tools!Inside(text)
           /\ \A k : Tools!TextsAt(text, k) \subseteq Tools!Inside(text)
           /\ \A k \in Tools!Naming(text) : \E h \in Tools!Headers(text) : h <= k
<1>1. DOMAIN text = 1..Len(text)
  OBVIOUS
<1>2. Tools!Inside(text) \subseteq 1..Len(text)
  BY <1>1 DEF Tools!Inside
<1>3. Tools!Headers(text) \subseteq Tools!Inside(text) /\ Tools!Naming(text) \subseteq Tools!Inside(text)
  BY DEF Tools!Headers, Tools!Naming
<1>4. Tools!Touched(text) \subseteq Tools!Naming(text)
  BY DEF Tools!Touched
<1>5. Tools!Headers(text) \subseteq Tools!Touched(text)
  BY DEF Tools!Headers, Tools!Naming, Tools!Touched, Tools!Stays
<1>6. \A k : Tools!TextsAt(text, k) \subseteq Tools!Inside(text)
  BY DEF Tools!TextsAt
<1>7. ASSUME NEW k \in Tools!Naming(text) PROVE \E h \in Tools!Headers(text) : h <= k
  <2>1. k \in Int /\ Tools!Headers(text) \subseteq Int
    BY <1>2, <1>3
  <2>2. CASE k \in Tools!Headers(text)
    BY <2>1, <2>2
  <2>3. CASE k \notin Tools!Headers(text)
    <3>1. \E h \in Tools!Headers(text) : h < k
      BY <2>3 DEF Tools!Naming
    <3> QED  BY <2>1, <3>1
  <2> QED  BY <2>2, <2>3
<1> QED  BY <1>2, <1>3, <1>4, <1>5, <1>6, <1>7

(* A larger place comes after the others.                                  *)
LEMMA OneMore ==
    ASSUME NEW n \in Nat, NEW s, DOMAIN s = 1..n, NEW S \in SUBSET Int, Tools!InOrder(s, S), NEW p \in Int, \A q \in S : q < p,
           NEW t, DOMAIN t = 1..(n+1), \A i \in 1..n : t[i] = s[i], t[n+1] = p
    PROVE  Tools!InOrder(t, S \cup {p})
<1>1. {s[i] : i \in 1..n} = S /\ \A i, j \in 1..n : i < j => s[i] < s[j]
  BY DEF Tools!InOrder
<1>2. {t[i] : i \in 1..(n+1)} = S \cup {p}
  <2>1. 1..(n+1) = 1..n \cup {n+1}
    OBVIOUS
  <2>2. \A x : x \in {t[i] : i \in 1..(n+1)} <=> x \in {s[i] : i \in 1..n} \/ x = p
    BY <2>1
  <2> QED  BY <1>1, <2>2
<1>3. ASSUME NEW i \in 1..(n+1), NEW j \in 1..(n+1), i < j PROVE t[i] < t[j]
  <2>1. i \in 1..n /\ t[i] = s[i] /\ s[i] \in S
    BY <1>1, <1>3
  <2>2. CASE j \in 1..n
    BY <1>1, <1>3, <2>1, <2>2
  <2>3. CASE j = n+1
    BY <2>1, <2>3
  <2> QED  BY <2>2, <2>3
<1> QED  BY <1>2, <1>3 DEF Tools!InOrder

(* A line that names nothing and gives nothing changes nothing.            *)
LEMMA SameFiles ==
    ASSUME NEW text, NEW list, NEW r, CoversBy(list, text, r), TouchedBy(text, r+1) = TouchedBy(text, r),
           \A k \in TouchedBy(text, r) : TextsBy(text, k, r+1) = TextsBy(text, k, r)
    PROVE  CoversBy(list, text, r+1)
<1>1. PICK touched \in [DOMAIN list -> TouchedBy(text, r)] :
             /\ Tools!InOrder(touched, TouchedBy(text, r))
             /\ \A n \in DOMAIN list : IsFileBy(list[n], text, touched[n], r)
  BY DEF CoversBy
<1>2. \A n \in DOMAIN list : IsFileBy(list[n], text, touched[n], r+1)
  BY <1>1 DEF IsFileBy
<1> QED  BY <1>1, <1>2 DEF CoversBy

(* A line that names a file adds it, without a line of its own yet.        *)
LEMMA NewFile ==
    ASSUME NEW text, NEW T, NEW list \in Seq(T), NEW r \in Int, CoversBy(list, text, r),
           TouchedBy(text, r) \subseteq Int,
           TouchedBy(text, r+1) = TouchedBy(text, r) \cup {r+1},
           \A k \in TouchedBy(text, r) : TextsBy(text, k, r+1) = TextsBy(text, k, r),
           TextsBy(text, r+1, r+1) = {}
    PROVE  CoversBy(Append(list, Tools!Touches(text[r+1].path)), text, r+1)
<1> DEFINE file == Tools!Touches(text[r+1].path)
           more == Append(list, file)
           n == Len(list)
<1>1. PICK touched \in [DOMAIN list -> TouchedBy(text, r)] :
             /\ Tools!InOrder(touched, TouchedBy(text, r))
             /\ \A i \in DOMAIN list : IsFileBy(list[i], text, touched[i], r)
  BY DEF CoversBy
<1>2. DOMAIN list = 1..n /\ n \in Nat
  OBVIOUS
<1>3. DOMAIN more = 1..(n+1) /\ (\A i \in 1..n : more[i] = list[i]) /\ more[n+1] = file
  OBVIOUS
<1> DEFINE now == [i \in 1..(n+1) |-> IF i = n+1 THEN r+1 ELSE touched[i]]
<1>4. IsFileBy(file, text, r+1, r+1)
  <2>1. file.path = text[r+1].path /\ file.content = <<>>
    BY DEF Tools!Touches
  <2>2. <<>> \in [DOMAIN file.content -> TextsBy(text, r+1, r+1)] /\ DOMAIN <<>> = {}
    BY <2>1
  <2>3. Tools!InOrder(<<>>, TextsBy(text, r+1, r+1))
    BY <2>2 DEF Tools!InOrder
  <2> HIDE DEF file
  <2> QED  BY <2>1, <2>2, <2>3 DEF IsFileBy
<1> HIDE DEF file, more, n
<1>5. Tools!InOrder(now, TouchedBy(text, r) \cup {r+1})
  <2>1. \A q \in TouchedBy(text, r) : q < r+1
    BY DEF TouchedBy
  <2>2. DOMAIN touched = 1..n
    BY <1>1, <1>2
  <2> QED  BY <1>1, <1>2, <2>1, <2>2, OneMore
<1>6. now \in [DOMAIN more -> TouchedBy(text, r+1)]
  BY <1>1, <1>2, <1>3
<1>7. \A i \in DOMAIN more : IsFileBy(more[i], text, now[i], r+1)
  <2>1. ASSUME NEW i \in 1..n PROVE IsFileBy(more[i], text, now[i], r+1)
    <3>1. more[i] = list[i] /\ now[i] = touched[i] /\ touched[i] \in TouchedBy(text, r)
      BY <1>1, <1>2, <1>3
    <3>2. IsFileBy(list[i], text, touched[i], r)
      BY <1>1, <1>2
    <3> QED  BY <3>1, <3>2 DEF IsFileBy
  <2>2. more[n+1] = file /\ now[n+1] = r+1
    BY <1>2, <1>3
  <2>3. DOMAIN more = 1..n \cup {n+1}
    BY <1>2, <1>3
  <2>4. IsFileBy(more[n+1], text, now[n+1], r+1)
    BY <1>4, <2>2
  <2> QED  BY <2>1, <2>3, <2>4
<1> HIDE DEF now
<1> QED  BY <1>5, <1>6, <1>7 DEF CoversBy, more, file

(* A line with a text goes to the last file.                               *)
LEMMA NewLine ==
    ASSUME NEW text, NEW T, NEW list \in Seq(T), NEW file \in FilesOf(text), NEW r \in Nat,
           NEW next \in FilesOf(text), next.path = file.path, next.content = Append(file.content, text[r+1].text),
           CoversBy(Append(list, file), text, r), TouchedBy(text, r) \subseteq Int,
           TouchedBy(text, r+1) = TouchedBy(text, r),
           \A k \in TouchedBy(text, r) :
               /\ TextsBy(text, k, r) \subseteq Int
               /\ (\E m \in TouchedBy(text, r) : k < m) => TextsBy(text, k, r+1) = TextsBy(text, k, r)
               /\ (\A m \in TouchedBy(text, r) : m <= k) => TextsBy(text, k, r+1) = TextsBy(text, k, r) \cup {r+1}
    PROVE  CoversBy(Append(list, next), text, r+1)
<1> DEFINE old == Append(list, file)
           new == Append(list, next)
           n == Len(list)
<1>1. /\ n \in Nat /\ DOMAIN old = 1..(n+1) /\ DOMAIN new = 1..(n+1)
      /\ \A i \in 1..n : old[i] = list[i] /\ new[i] = list[i]
      /\ old[n+1] = file /\ new[n+1] = next
  OBVIOUS
<1>2. PICK touched \in [DOMAIN old -> TouchedBy(text, r)] :
             /\ Tools!InOrder(touched, TouchedBy(text, r))
             /\ \A i \in DOMAIN old : IsFileBy(old[i], text, touched[i], r)
  BY DEF CoversBy
<1> HIDE DEF old, new, n
<1>3. /\ \A i, j \in 1..(n+1) : i < j => touched[i] < touched[j]
      /\ \A k \in TouchedBy(text, r) : \E i \in 1..(n+1) : k = touched[i]
  BY <1>1, <1>2 DEF Tools!InOrder
<1>4. ASSUME NEW i \in 1..n PROVE IsFileBy(new[i], text, touched[i], r+1)
  <2>1. i \in 1..(n+1) /\ n+1 \in 1..(n+1) /\ i < n+1 /\ new[i] = old[i]
    BY <1>1
  <2>2. touched[i] \in TouchedBy(text, r) /\ touched[n+1] \in TouchedBy(text, r) /\ touched[i] < touched[n+1]
    BY <1>1, <1>2, <1>3, <2>1
  <2>3. TextsBy(text, touched[i], r+1) = TextsBy(text, touched[i], r)
    BY <2>2
  <2>4. IsFileBy(old[i], text, touched[i], r)
    BY <1>1, <1>2, <2>1
  <2> QED  BY <2>1, <2>3, <2>4 DEF IsFileBy
<1>5. IsFileBy(new[n+1], text, touched[n+1], r+1)
  <2> DEFINE k == touched[n+1]
             c == Len(file.content)
  <2>1. n+1 \in 1..(n+1) /\ k \in TouchedBy(text, r)
    BY <1>1, <1>2
  <2>2. \A m \in TouchedBy(text, r) : m <= k
    <3> SUFFICES ASSUME NEW m \in TouchedBy(text, r) PROVE m <= k
      OBVIOUS
    <3>1. PICK i \in 1..(n+1) : m = touched[i]
      BY <1>3
    <3>2. CASE i = n+1
      BY <2>1, <3>1, <3>2
    <3>3. CASE i # n+1
      <4>1. i < n+1
        BY <1>1, <3>3
      <4> QED  BY <1>3, <2>1, <3>1, <4>1
    <3> QED  BY <3>2, <3>3
  <2>3. TextsBy(text, k, r+1) = TextsBy(text, k, r) \cup {r+1} /\ TextsBy(text, k, r) \subseteq Int
    BY <2>1, <2>2
  <2>4. IsFileBy(file, text, k, r)
    BY <1>1, <1>2, <2>1
  <2> HIDE DEF k
  <2>5. PICK texts \in [DOMAIN file.content -> TextsBy(text, k, r)] :
               /\ Tools!InOrder(texts, TextsBy(text, k, r))
               /\ \A i \in DOMAIN texts : file.content[i] = text[texts[i]].text
    BY <2>4 DEF IsFileBy
  <2>6. file.content \in Seq({text[i].text : i \in DOMAIN text})
    BY DEF FilesOf
  <2>7. /\ c \in Nat /\ DOMAIN file.content = 1..c /\ DOMAIN next.content = 1..(c+1)
        /\ \A i \in 1..c : next.content[i] = file.content[i]
        /\ next.content[c+1] = text[r+1].text
    BY <2>6
  <2> HIDE DEF c
  <2> DEFINE more == [i \in 1..(c+1) |-> IF i = c+1 THEN r+1 ELSE texts[i]]
  <2>8. Tools!InOrder(more, TextsBy(text, k, r) \cup {r+1})
    <3>1. \A t \in TextsBy(text, k, r) : t < r+1
      BY <2>3 DEF TextsBy
    <3>2. DOMAIN texts = 1..c
      BY <2>5, <2>7
    <3>3. DOMAIN more = 1..(c+1) /\ (\A i \in 1..c : more[i] = texts[i]) /\ more[c+1] = r+1
      BY <2>7
    <3> HIDE DEF more
    <3>4. TextsBy(text, k, r) \in SUBSET Int /\ r+1 \in Int /\ c \in Nat
      BY <2>3, <2>7
    <3>5. Tools!InOrder(texts, TextsBy(text, k, r))
      BY <2>5
    <3> QED  BY <3>1, <3>2, <3>3, <3>4, <3>5, OneMore
  <2>9. more \in [DOMAIN next.content -> TextsBy(text, k, r+1)]
    BY <2>3, <2>5, <2>7
  <2>10. \A i \in DOMAIN more : next.content[i] = text[more[i]].text
    <3>1. ASSUME NEW i \in 1..c PROVE next.content[i] = text[more[i]].text
      <4>1. more[i] = texts[i] /\ i \in DOMAIN texts /\ next.content[i] = file.content[i]
        BY <2>5, <2>7
      <4> QED  BY <2>5, <4>1
    <3>2. more[c+1] = r+1
      BY <2>7
    <3>3. DOMAIN more = 1..c \cup {c+1}
      BY <2>7
    <3> QED  BY <2>7, <3>1, <3>2, <3>3
  <2> HIDE DEF more
  <2>11. next.path = text[k].path
    BY <2>4 DEF IsFileBy
  <2>12. IsFileBy(next, text, k, r+1)
    BY <2>3, <2>8, <2>9, <2>10, <2>11 DEF IsFileBy
  <2> QED  BY <1>1, <2>12 DEF k
<1>6. DOMAIN new = 1..n \cup {n+1} /\ DOMAIN new = DOMAIN old
  BY <1>1
<1>7. \A i \in DOMAIN new : IsFileBy(new[i], text, touched[i], r+1)
  BY <1>4, <1>5, <1>6
<1>8. CoversBy(new, text, r+1)
  BY <1>2, <1>6, <1>7 DEF CoversBy
<1> QED  BY <1>8 DEF new

(* The next line of a patch that has begun and not ended counts.           *)
LEMMA NextInside ==
    ASSUME NEW T, NEW text \in Seq(T), NEW r \in Nat, r+1 \in 1..Len(text),
           \A e \in 1..r : text[e].kind # "end"
    PROVE  /\ (\E b \in 1..r : text[b].kind = "begin") /\ text[r+1].kind # "end" => r+1 \in Tools!Inside(text)
           /\ (\A b \in 1..r : text[b].kind # "begin") => r+1 \notin Tools!Inside(text)
<1>1. DOMAIN text = 1..Len(text) /\ Len(text) \in Nat
  OBVIOUS
<1>2. ASSUME NEW b \in 1..r, text[b].kind = "begin", text[r+1].kind # "end"
      PROVE  r+1 \in Tools!Inside(text)
  <2>1. \A e \in 1..(r+1) : text[e].kind # "end"
    <3>1. 1..(r+1) = 1..r \cup {r+1}
      OBVIOUS
    <3> QED  BY <1>2, <3>1
  <2>2. b \in Tools!Begins(text)
    <3>1. \A e \in 1..b : e \in 1..r
      BY <1>2
    <3>2. b \in DOMAIN text
      BY <1>1, <1>2
    <3> QED  BY <1>2, <3>1, <3>2 DEF Tools!Begins
  <2>3. b < r+1
    BY <1>2
  <2> QED  BY <1>1, <2>1, <2>2, <2>3 DEF Tools!Inside
<1>3. ASSUME \A b \in 1..r : text[b].kind # "begin", r+1 \in Tools!Inside(text)
      PROVE  FALSE
  <2>1. PICK b \in Tools!Begins(text) : b < r+1
    BY <1>3 DEF Tools!Inside
  <2>2. b \in 1..r /\ text[b].kind = "begin"
    BY <1>1, <2>1 DEF Tools!Begins
  <2> QED  BY <1>3, <2>2
<1> QED  BY <1>2, <1>3

(* One more line read, and the lines that name a file.                     *)
LEMMA NamesOneMore ==
    ASSUME NEW T, NEW text \in Seq(T), NEW r \in Nat
    PROVE  /\ r+1 \notin Tools!Touched(text) => TouchedBy(text, r+1) = TouchedBy(text, r)
           /\ r+1 \in Tools!Touched(text) => TouchedBy(text, r+1) = TouchedBy(text, r) \cup {r+1}
<1>1. Tools!Touched(text) \subseteq 1..Len(text)
  BY PlacesAre
<1>2. \A k \in Tools!Touched(text) : k \in Int
  BY <1>1
<1>3. \A k \in Int : k <= r+1 <=> k <= r \/ k = r+1
  OBVIOUS
<1> QED  BY <1>2, <1>3 DEF TouchedBy

(* The lines read so far that name a file.                                 *)
LEMMA NamesRead ==
    ASSUME NEW T, NEW text \in Seq(T), NEW r \in Nat
    PROVE  TouchedBy(text, r) \subseteq 1..r
<1>1. Tools!Touched(text) \subseteq 1..Len(text)
  BY PlacesAre
<1> QED  BY <1>1 DEF TouchedBy

(* One more line read, and the lines of the text of a file.                *)
LEMMA TextsOneMore ==
    ASSUME NEW T, NEW text \in Seq(T), NEW r \in Nat, NEW k
    PROVE  /\ r+1 \notin Tools!TextsAt(text, k) => TextsBy(text, k, r+1) = TextsBy(text, k, r)
           /\ r+1 \in Tools!TextsAt(text, k) => TextsBy(text, k, r+1) = TextsBy(text, k, r) \cup {r+1}
           /\ TextsBy(text, k, r) \subseteq Int
<1>1. Tools!TextsAt(text, k) \subseteq 1..Len(text)
  BY PlacesAre
<1>2. \A t \in Tools!TextsAt(text, k) : t \in Int
  BY <1>1
<1>3. \A t \in Int : t <= r+1 <=> t <= r \/ t = r+1
  OBVIOUS
<1> QED  BY <1>2, <1>3 DEF TextsBy

(* A file has no text where it is named.                                   *)
LEMMA NoTextYet ==
    ASSUME NEW T, NEW text \in Seq(T), NEW r \in Nat
    PROVE  TextsBy(text, r+1, r+1) = {}
<1>1. \A t \in Tools!TextsAt(text, r+1) : t \in Int
  BY PlacesAre
<1>2. \A t \in Tools!TextsAt(text, r+1) : r+1 < t
  BY DEF Tools!TextsAt
<1> QED  BY <1>1, <1>2 DEF TextsBy

(* A line that names no file and has no text, or that is not in the patch. *)
LEMMA PlainLine ==
    ASSUME NEW T, NEW text \in Seq(T), NEW r \in Nat, NEW list, CoversBy(list, text, r),
           r+1 \notin Tools!Touched(text),
           \A k \in TouchedBy(text, r) : r+1 \notin Tools!TextsAt(text, k)
    PROVE  CoversBy(list, text, r+1)
<1>1. TouchedBy(text, r+1) = TouchedBy(text, r)
  BY NamesOneMore
<1>2. \A k \in TouchedBy(text, r) : TextsBy(text, k, r+1) = TextsBy(text, k, r)
  BY TextsOneMore
<1> QED  BY <1>1, <1>2, SameFiles

(* A line that names a file.                                               *)
LEMMA NamingLine ==
    ASSUME NEW T, NEW text \in Seq(T), NEW r \in Nat, NEW S, NEW list \in Seq(S), CoversBy(list, text, r),
           r+1 \in Tools!Touched(text), text[r+1].reads \notin {"added", "context"}
    PROVE  CoversBy(Append(list, Tools!Touches(text[r+1].path)), text, r+1)
<1>1. TouchedBy(text, r+1) = TouchedBy(text, r) \cup {r+1} /\ TouchedBy(text, r) \subseteq Int
  <2>1. TouchedBy(text, r+1) = TouchedBy(text, r) \cup {r+1}
    BY NamesOneMore
  <2>2. TouchedBy(text, r) \subseteq 1..r
    BY NamesRead
  <2> QED  BY <2>1, <2>2
<1>2. \A k : r+1 \notin Tools!TextsAt(text, k)
  BY DEF Tools!TextsAt
<1>3. \A k \in TouchedBy(text, r) : TextsBy(text, k, r+1) = TextsBy(text, k, r)
  BY <1>2, TextsOneMore
<1>4. TextsBy(text, r+1, r+1) = {} /\ r \in Int
  BY NoTextYet
<1> QED  BY <1>1, <1>3, <1>4, NewFile

(* A line of a file.                                                       *)
LEMMA TextLine ==
    ASSUME NEW T, NEW text \in Seq(T), NEW r \in Nat, NEW S, NEW list \in Seq(S),
           NEW file \in FilesOf(text), NEW next \in FilesOf(text),
           next.path = file.path, next.content = Append(file.content, text[r+1].text),
           CoversBy(Append(list, file), text, r),
           r+1 \in Tools!Inside(text), text[r+1].reads \in {"added", "context"},
           text[r+1].kind \notin Tools!Marks
    PROVE  CoversBy(Append(list, next), text, r+1)
<1>1. r+1 \notin Tools!Touched(text)
  BY DEF Tools!Touched, Tools!Naming, Tools!Headers, Tools!Marks
<1>2. TouchedBy(text, r+1) = TouchedBy(text, r) /\ TouchedBy(text, r) \subseteq 1..r
  <2>1. TouchedBy(text, r+1) = TouchedBy(text, r)
    BY <1>1, NamesOneMore
  <2>2. TouchedBy(text, r) \subseteq 1..r
    BY NamesRead
  <2> QED  BY <2>1, <2>2
<1>3. Tools!Touched(text) \subseteq Int
  BY PlacesAre
<1>4. ASSUME NEW k \in TouchedBy(text, r)
      PROVE  /\ TextsBy(text, k, r) \subseteq Int
             /\ (\E m \in TouchedBy(text, r) : k < m) => TextsBy(text, k, r+1) = TextsBy(text, k, r)
             /\ (\A m \in TouchedBy(text, r) : m <= k) => TextsBy(text, k, r+1) = TextsBy(text, k, r) \cup {r+1}
  <2>1. k \in 1..r
    BY <1>2
  <2>2. ASSUME NEW m \in TouchedBy(text, r), k < m PROVE r+1 \notin Tools!TextsAt(text, k)
    <3>1. m \in Tools!Touched(text) /\ m \in 1..r
      BY <1>2 DEF TouchedBy
    <3>2. ~(m <= k \/ r+1 < m)
      BY <2>1, <2>2, <3>1
    <3> QED  BY <3>1, <3>2 DEF Tools!TextsAt
  <2>3. ASSUME \A m \in TouchedBy(text, r) : m <= k PROVE r+1 \in Tools!TextsAt(text, k)
    <3>1. ASSUME NEW m \in Tools!Touched(text) PROVE m <= k \/ r+1 < m
      <4>1. m \in Int /\ m # r+1
        BY <1>1, <1>3
      <4>2. m \in TouchedBy(text, r) \/ ~(m <= r)
        BY DEF TouchedBy
      <4> QED  BY <2>3, <4>1, <4>2
    <3>2. k < r+1
      BY <2>1
    <3> QED  BY <3>1, <3>2 DEF Tools!TextsAt
  <2>4. TextsBy(text, k, r) \subseteq Int
    BY TextsOneMore
  <2>5. r+1 \notin Tools!TextsAt(text, k) => TextsBy(text, k, r+1) = TextsBy(text, k, r)
    BY TextsOneMore
  <2>6. r+1 \in Tools!TextsAt(text, k) => TextsBy(text, k, r+1) = TextsBy(text, k, r) \cup {r+1}
    BY TextsOneMore
  <2> QED  BY <2>2, <2>3, <2>4, <2>5, <2>6
<1>5. TouchedBy(text, r) \subseteq Int
  BY <1>2
<1> QED  BY <1>2, <1>4, <1>5, NewLine

(* When no line is left, or the end has come, everything was covered.      *)
LEMMA AllCovered ==
    ASSUME NEW T, NEW text \in Seq(T), NEW r \in Nat, NEW list, CoversBy(list, text, r),
           Tools!Inside(text) \subseteq 1..r
    PROVE  \E touched \in [DOMAIN list -> Tools!Touched(text)] :
              /\ Tools!InOrder(touched, Tools!Touched(text))
              /\ \A n \in DOMAIN touched : Tools!IsFileAt(list[n], text, touched[n])
<1>1. Tools!Touched(text) \subseteq 1..r /\ \A k : Tools!TextsAt(text, k) \subseteq 1..r
  BY PlacesAre
<1>2. TouchedBy(text, r) = Tools!Touched(text)
  BY <1>1 DEF TouchedBy
<1>3. ASSUME NEW k PROVE TextsBy(text, k, r) = Tools!TextsAt(text, k)
  BY <1>1 DEF TextsBy
<1>4. PICK touched \in [DOMAIN list -> Tools!Touched(text)] :
             /\ Tools!InOrder(touched, Tools!Touched(text))
             /\ \A n \in DOMAIN list : IsFileBy(list[n], text, touched[n], r)
  BY <1>2 DEF CoversBy
<1>5. \A n \in DOMAIN list : Tools!IsFileAt(list[n], text, touched[n])
  BY <1>3, <1>4 DEF IsFileBy, Tools!IsFileAt
<1> QED  BY <1>4, <1>5

(* A patch that is being read: what is left of it, whether it has begun,   *)
(* and the files it names so far, the last of which is being read.         *)
PatchIsRead(text) ==
    LET r == Len(text) - Len(unread)
    IN /\ Tools!Unmistaken(text)
       /\ unread \in Seq(Tools!ToSet(text)) /\ r \in Nat
       /\ \A i \in 1..Len(unread) : unread[i] = text[r+i]
       /\ begun \in BOOLEAN
       /\ \A e \in 1..r : text[e].kind # "end"
       /\ begun => \E b \in 1..r : text[b].kind = "begin" /\ \A c \in 1..r : text[c].kind = "begin" => c = b
       /\ ~begun => \A c \in 1..r : text[c].kind # "begin"
       /\ files \in Seq(FilesOf(text))
       /\ current = <<>> \/ \E f \in FilesOf(text) : current = <<f>>
       /\ CoversBy(Tools!Flushed, text, r)
       /\ current = <<>> => files = <<>> /\ \A h \in Tools!Headers(text) : r < h
       /\ current # <<>> => \E k \in Tools!Naming(text) :
                                /\ k <= r /\ text[k].path = current[1].path
                                /\ \A m \in Tools!Naming(text) : m <= k \/ r < m

(* The step that reads a line.                                             *)
LEMMA NextLineIs ==
    ASSUME NEW T, NEW text \in Seq(T), PatchIsRead(text), unread # <<>>
    PROVE  LET r == Len(text) - Len(unread)
           IN /\ r \in Nat /\ r+1 \in 1..Len(text) /\ Tools!Line = text[r+1]
              /\ unread' = Tail(unread) =>
                    /\ Len(text) - Len(unread') = r+1 /\ unread' \in Seq(Tools!ToSet(text))
                    /\ \A i \in 1..Len(unread') : unread'[i] = text[(r+1)+i]
<1> DEFINE r == Len(text) - Len(unread)
<1>1. unread \in Seq(Tools!ToSet(text)) /\ r \in Nat /\ \A i \in 1..Len(unread) : unread[i] = text[r+i]
  BY DEF PatchIsRead
<1>2. Len(unread) \in Nat /\ Len(unread) > 0 /\ Len(text) \in Nat
  BY <1>1
<1>3. r+1 \in 1..Len(text)
  BY <1>1, <1>2
<1>4. Tools!Line = text[r+1]
  <2>1. Head(unread) = unread[1] /\ 1 \in 1..Len(unread)
    BY <1>1, <1>2
  <2> QED  BY <1>1, <2>1 DEF Tools!Line
<1>5. ASSUME unread' = Tail(unread)
      PROVE  /\ Len(text) - Len(unread') = r+1 /\ unread' \in Seq(Tools!ToSet(text))
             /\ \A i \in 1..Len(unread') : unread'[i] = text[(r+1)+i]
  <2>1. /\ Tail(unread) \in Seq(Tools!ToSet(text)) /\ Len(Tail(unread)) = Len(unread) - 1
        /\ \A i \in 1..(Len(unread) - 1) : Tail(unread)[i] = unread[i+1]
    BY <1>1, <1>2
  <2>2. ASSUME NEW i \in 1..(Len(unread) - 1) PROVE Tail(unread)[i] = text[(r+1)+i]
    <3>1. i+1 \in 1..Len(unread) /\ r+(i+1) = (r+1)+i
      BY <1>1, <1>2
    <3> QED  BY <1>1, <2>1, <3>1
  <2> QED  BY <1>2, <1>5, <2>1, <2>2
<1> QED  BY <1>1, <1>3, <1>4, <1>5

(* A line that is taken for a marker, or for the name of a file, is one.   *)
LEMMA TakenForWhatItIs ==
    ASSUME NEW T, NEW text \in Seq(T), PatchIsRead(text), unread # <<>>
    PROVE  Tools!Line.kind \in Tools!Marks \/ Tools!Line.reads \in Tools!Marks =>
           Tools!Line.reads = Tools!Line.kind
<1>1. Len(text) - Len(unread) + 1 \in DOMAIN text /\ Tools!Line = text[Len(text) - Len(unread) + 1]
  BY NextLineIs
<1>2. Tools!Unmistaken(text)
  BY DEF PatchIsRead
<1> QED  BY <1>1, <1>2 DEF Tools!Unmistaken

(* The files with the one that is being read.                              *)
LEMMA FlushedIs ==
    ASSUME NEW text, files \in Seq(FilesOf(text))
    PROVE  /\ current = <<>> => Tools!Flushed = files
           /\ \A f \in FilesOf(text) : current = <<f>> => Tools!Flushed = Append(files, f)
           /\ current = <<>> \/ (\E f \in FilesOf(text) : current = <<f>>) => Tools!Flushed \in Seq(FilesOf(text))
<1>1. current = <<>> => Tools!Flushed = files
  BY DEF Tools!Flushed
<1>2. ASSUME NEW f \in FilesOf(text), current = <<f>>
      PROVE  Tools!Flushed = Append(files, f) /\ Tools!Flushed \in Seq(FilesOf(text))
  BY <1>2 DEF Tools!Flushed
<1> QED  BY <1>1, <1>2

(* Each step that goes on reading keeps the patch read.                    *)
LEMMA ReadingKeeps ==
    ASSUME NEW T, NEW text \in Seq(T), PatchIsRead(text), unread # <<>>, unread' = Tail(unread),
           begun' \in BOOLEAN, Tools!Line.kind # "end",
           begun' <=> begun \/ Tools!Line.kind = "begin", ~(begun /\ Tools!Line.kind = "begin")
    PROVE  LET r == Len(text) - Len(unread)
               r1 == Len(text) - Len(unread')
           IN /\ unread' \in Seq(Tools!ToSet(text)) /\ r1 \in Nat
              /\ \A i \in 1..Len(unread') : unread'[i] = text[r1+i]
              /\ \A e \in 1..r1 : text[e].kind # "end"
              /\ begun' => \E b \in 1..r1 : text[b].kind = "begin" /\ \A c \in 1..r1 : text[c].kind = "begin" => c = b
              /\ ~begun' => \A c \in 1..r1 : text[c].kind # "begin"
              /\ r1 = r+1 /\ r \in Nat /\ r+1 \in 1..Len(text) /\ Tools!Line = text[r+1]
              /\ begun => r+1 \in Tools!Inside(text)
              /\ ~begun => r+1 \notin Tools!Inside(text)
<1> DEFINE r == Len(text) - Len(unread)
           r1 == Len(text) - Len(unread')
<1>1. /\ r1 = r+1 /\ r \in Nat /\ r+1 \in 1..Len(text) /\ Tools!Line = text[r+1]
      /\ unread' \in Seq(Tools!ToSet(text))
      /\ \A i \in 1..Len(unread') : unread'[i] = text[(r+1)+i]
  BY NextLineIs
<1>2. /\ \A e \in 1..r : text[e].kind # "end"
      /\ begun => \E b \in 1..r : text[b].kind = "begin" /\ \A c \in 1..r : text[c].kind = "begin" => c = b
      /\ ~begun => \A c \in 1..r : text[c].kind # "begin"
      /\ begun \in BOOLEAN
  BY DEF PatchIsRead
<1> HIDE DEF r, r1
<1>3. 1..r1 = 1..r \cup {r+1} /\ r+1 \notin 1..r
  BY <1>1
<1>4. \A e \in 1..r1 : text[e].kind # "end"
  BY <1>1, <1>2, <1>3
<1>5. ASSUME begun' PROVE \E b \in 1..r1 : text[b].kind = "begin" /\ \A c \in 1..r1 : text[c].kind = "begin" => c = b
  <2>1. CASE begun
    <3>1. PICK b \in 1..r : text[b].kind = "begin" /\ \A c \in 1..r : text[c].kind = "begin" => c = b
      BY <1>2, <2>1
    <3>2. text[r+1].kind # "begin"
      BY <1>1, <2>1
    <3> QED  BY <1>3, <3>1, <3>2
  <2>2. CASE ~begun
    <3>1. text[r+1].kind = "begin"
      BY <1>1, <1>5, <2>2
    <3> QED  BY <1>2, <1>3, <2>2, <3>1
  <2> QED  BY <2>1, <2>2
<1>6. ASSUME ~begun' PROVE \A c \in 1..r1 : text[c].kind # "begin"
  BY <1>1, <1>2, <1>3, <1>6
<1>7. begun => r+1 \in Tools!Inside(text)
  BY <1>1, <1>2, NextInside
<1>8. ~begun => r+1 \notin Tools!Inside(text)
  BY <1>1, <1>2, NextInside
<1> QED  BY <1>1, <1>4, <1>5, <1>6, <1>7, <1>8 DEF r, r1

(* A line that is read, whatever it is, and the place it has.              *)
ReadsOn ==
    /\ unread # <<>> /\ unread' = Tail(unread)
    /\ begun' \in BOOLEAN /\ (begun' <=> begun \/ Tools!Line.kind = "begin")
    /\ Tools!Line.kind # "end" /\ ~(begun /\ Tools!Line.kind = "begin")
Place(text) == Len(text) - Len(unread) + 1

(* What reading a line gives, once its files are covered.                  *)
LEMMA ReadsKeeps ==
    ASSUME NEW T, NEW text \in Seq(T), PatchIsRead(text), ReadsOn,
           files' \in Seq(FilesOf(text)),
           current' = <<>> \/ \E f \in FilesOf(text) : current' = <<f>>,
           CoversBy(Tools!Flushed', text, Place(text)),
           current' = <<>> => files' = <<>> /\ \A h \in Tools!Headers(text) : Place(text) < h,
           current' # <<>> => \E k \in Tools!Naming(text) :
                                /\ k <= Place(text) /\ text[k].path = current'[1].path
                                /\ \A m \in Tools!Naming(text) : m <= k \/ Place(text) < m
    PROVE  PatchIsRead(text)'
<1> DEFINE r1 == Len(text) - Len(unread')
<1>1. /\ unread # <<>> /\ unread' = Tail(unread) /\ begun' \in BOOLEAN /\ Tools!Line.kind # "end"
      /\ begun' <=> begun \/ Tools!Line.kind = "begin"
      /\ ~(begun /\ Tools!Line.kind = "begin")
  BY DEF ReadsOn
<1>2. /\ unread' \in Seq(Tools!ToSet(text)) /\ r1 \in Nat
      /\ \A i \in 1..Len(unread') : unread'[i] = text[r1+i]
      /\ \A e \in 1..r1 : text[e].kind # "end"
      /\ begun' => \E b \in 1..r1 : text[b].kind = "begin" /\ \A c \in 1..r1 : text[c].kind = "begin" => c = b
      /\ ~begun' => \A c \in 1..r1 : text[c].kind # "begin"
      /\ r1 = Place(text)
  BY <1>1, ReadingKeeps DEF Place
<1>3. Tools!Unmistaken(text)'
  BY DEF PatchIsRead
<1> HIDE DEF r1
<1> QED  BY <1>1, <1>2, <1>3 DEF PatchIsRead, r1

(* The place of the line, and whether it counts.                           *)
LEMMA PlaceIs ==
    ASSUME NEW T, NEW text \in Seq(T), PatchIsRead(text), ReadsOn
    PROVE  /\ Place(text) \in 1..Len(text) /\ Place(text) - 1 \in Nat
           /\ Tools!Line = text[Place(text)]
           /\ begun => Place(text) \in Tools!Inside(text)
           /\ ~begun => Place(text) \notin Tools!Inside(text)
           /\ CoversBy(Tools!Flushed, text, Place(text) - 1)
<1> DEFINE r == Len(text) - Len(unread)
<1>1. /\ unread # <<>> /\ unread' = Tail(unread) /\ begun' \in BOOLEAN /\ Tools!Line.kind # "end"
      /\ begun' <=> begun \/ Tools!Line.kind = "begin"
      /\ ~(begun /\ Tools!Line.kind = "begin")
  BY DEF ReadsOn
<1>2. r \in Nat /\ r+1 \in 1..Len(text) /\ Tools!Line = text[r+1]
  BY <1>1, ReadingKeeps
<1>3. begun => r+1 \in Tools!Inside(text)
  BY <1>1, ReadingKeeps
<1>4. ~begun => r+1 \notin Tools!Inside(text)
  BY <1>1, ReadingKeeps
<1>5. CoversBy(Tools!Flushed, text, r)
  BY DEF PatchIsRead
<1> HIDE DEF r
<1>6. Place(text) = r+1 /\ (r+1) - 1 = r
  BY <1>2 DEF Place, r
<1> QED  BY <1>2, <1>3, <1>4, <1>5, <1>6

(* A line that names no file.                                              *)
LEMMA NamelessKeeps ==
    ASSUME NEW T, NEW text \in Seq(T), PatchIsRead(text), ReadsOn, Place(text) \notin Tools!Naming(text),
           files' = files,
           \/ current' = current
           \/ /\ current # <<>>
              /\ \E f \in FilesOf(text) : current' = <<f>> /\ f.path = current[1].path,
           CoversBy(Tools!Flushed', text, Place(text))
    PROVE  PatchIsRead(text)'
<1> DEFINE p == Place(text)
<1>1. /\ files \in Seq(FilesOf(text)) /\ p = Len(text) - Len(unread) + 1
      /\ current = <<>> \/ \E f \in FilesOf(text) : current = <<f>>
      /\ current = <<>> => files = <<>> /\ \A h \in Tools!Headers(text) : Len(text) - Len(unread) < h
      /\ current # <<>> => \E k \in Tools!Naming(text) :
                                /\ k <= Len(text) - Len(unread) /\ text[k].path = current[1].path
                                /\ \A m \in Tools!Naming(text) : m <= k \/ Len(text) - Len(unread) < m
  BY DEF PatchIsRead, Place
<1> DEFINE r == Len(text) - Len(unread)
<1>2. p \in Int /\ r \in Int /\ p = r + 1
  BY <1>1, PlaceIs
<1>3. Tools!Naming(text) \subseteq Int /\ Tools!Headers(text) \subseteq Int /\ p \notin Tools!Headers(text)
  BY PlacesAre DEF Tools!Naming
<1> HIDE DEF r
<1>4. CASE current = <<>>
  <2>1. current' = <<>> /\ files = <<>> /\ \A h \in Tools!Headers(text) : r < h
    BY <1>1, <1>4 DEF r
  <2> HIDE DEF p
  <2>2. \A h \in Tools!Headers(text) : p < h
    BY <1>2, <1>3, <2>1
  <2> QED  BY <1>1, <2>1, <2>2, ReadsKeeps DEF p
<1>5. CASE current # <<>>
  <2>1. PICK k \in Tools!Naming(text) : /\ k <= r /\ text[k].path = current[1].path
                                        /\ \A m \in Tools!Naming(text) : m <= k \/ r < m
    BY <1>1, <1>5 DEF r
  <2>2. PICK f \in FilesOf(text) : current' = <<f>> /\ f.path = current[1].path
    <3>1. CASE current' = current
      <4>1. PICK g \in FilesOf(text) : current = <<g>>
        BY <1>1, <1>5
      <4>2. current[1] = g
        BY <4>1
      <4> QED  BY <3>1, <4>1, <4>2
    <3> QED  BY <3>1
  <2> HIDE DEF p
  <2>3. k <= p /\ \A m \in Tools!Naming(text) : m <= k \/ p < m
    BY <1>2, <1>3, <2>1 DEF p
  <2>4. current' # <<>> /\ current'[1] = f
    BY <2>2
  <2>5. current' # <<>> => \E m \in Tools!Naming(text) :
                                /\ m <= p /\ text[m].path = current'[1].path
                                /\ \A q \in Tools!Naming(text) : q <= m \/ p < q
    BY <2>1, <2>2, <2>3, <2>4
  <2> QED  BY <1>1, <2>2, <2>4, <2>5, ReadsKeeps DEF p
<1> QED  BY <1>4, <1>5

(* A line that names a file, be it the file that is read.                  *)
LEMMA NameKeeps ==
    ASSUME NEW T, NEW text \in Seq(T), PatchIsRead(text), ReadsOn, Place(text) \in Tools!Naming(text),
           files' \in Seq(FilesOf(text)),
           NEW f \in FilesOf(text), current' = <<f>>, f.path = text[Place(text)].path,
           CoversBy(Tools!Flushed', text, Place(text))
    PROVE  PatchIsRead(text)'
<1> DEFINE p == Place(text)
<1>1. p \in Int /\ Tools!Naming(text) \subseteq Int
  BY PlaceIs, PlacesAre
<1> HIDE DEF p
<1>2. p <= p /\ \A m \in Tools!Naming(text) : m <= p \/ p < m
  BY <1>1
<1>3. current' # <<>> /\ current'[1] = f
  OBVIOUS
<1>4. p \in Tools!Naming(text) /\ text[p].path = current'[1].path
  BY <1>3 DEF p
<1> QED  BY <1>2, <1>3, <1>4, ReadsKeeps DEF p

(* The begin marker.                                                       *)
LEMMA BeginKeeps ==
    ASSUME NEW T, NEW text \in Seq(T), PatchIsRead(text), Tools!BeginMarker, ~begun
    PROVE  PatchIsRead(text)'
<1> DEFINE p == Place(text)
<1>1. /\ unread # <<>> /\ Tools!Line.kind = "begin" /\ begun' = TRUE
      /\ unread' = Tail(unread) /\ current' = current /\ files' = files
  BY TakenForWhatItIs DEF Tools!BeginMarker, Tools!Reading, Tools!NextLine, Tools!Marks
<1>2. ReadsOn
  BY <1>1 DEF ReadsOn
<1>3. /\ p - 1 \in Nat /\ (p - 1) + 1 = p /\ p \notin Tools!Inside(text)
      /\ CoversBy(Tools!Flushed, text, p - 1)
  BY <1>2, PlaceIs
<1> HIDE DEF p
<1>4. p \notin Tools!Naming(text) /\ p \notin Tools!Touched(text) /\ \A k : p \notin Tools!TextsAt(text, k)
  BY <1>3, PlacesAre
<1>5. CoversBy(Tools!Flushed, text, p)
  BY <1>3, <1>4, PlainLine
<1>6. Tools!Flushed' = Tools!Flushed
  BY <1>1 DEF Tools!Flushed
<1> QED  BY <1>1, <1>2, <1>4, <1>5, <1>6, NamelessKeeps DEF p

(* A line that is skipped.                                                 *)
LEMMA SkipKeeps ==
    ASSUME NEW T, NEW text \in Seq(T), PatchIsRead(text), Tools!Skip
    PROVE  PatchIsRead(text)'
<1> DEFINE p == Place(text)
<1>1. /\ unread # <<>> /\ Tools!Line.kind \notin {"begin", "end"} /\ begun' = begun
      /\ unread' = Tail(unread) /\ current' = current /\ files' = files
      /\ \/ ~begun
         \/ Tools!Line.reads \in {"metadata", "removed", "other"} /\ Tools!Line.kind \notin Tools!Marks
         \/ Tools!Line.kind # "header" /\ current = <<>>
  <2>1. /\ unread # <<>> /\ Tools!Line.reads \notin {"begin", "end"} /\ begun' = begun
        /\ unread' = Tail(unread) /\ current' = current /\ files' = files
        /\ \/ ~begun
           \/ Tools!Line.reads \in {"metadata", "removed", "other"}
           \/ Tools!Line.reads \in {"move", "added", "context"} /\ current = <<>>
    BY DEF Tools!Skip, Tools!NextLine, Tools!NoFile
  <2> QED  BY <2>1, TakenForWhatItIs DEF Tools!Marks
<1>2. ReadsOn
  <2>1. begun \in BOOLEAN
    BY DEF PatchIsRead
  <2> QED  BY <1>1, <2>1 DEF ReadsOn
<1>3. /\ p - 1 \in Nat /\ (p - 1) + 1 = p /\ Tools!Line = text[p]
      /\ ~begun => p \notin Tools!Inside(text)
      /\ CoversBy(Tools!Flushed, text, p - 1)
  BY <1>2, PlaceIs
<1>4. current = <<>> => \A h \in Tools!Headers(text) : p - 1 < h
  <2>1. Len(text) - Len(unread) \in Nat
    BY DEF PatchIsRead
  <2>2. p - 1 = Len(text) - Len(unread)
    BY <2>1 DEF Place
  <2> QED  BY <2>2 DEF PatchIsRead
<1> HIDE DEF p
<1>5. Tools!Headers(text) \subseteq Int /\ TouchedBy(text, p - 1) \subseteq Int
  BY <1>3, PlacesAre, NamesRead
<1>6. p \notin Tools!Naming(text) /\ \A k \in TouchedBy(text, p - 1) : p \notin Tools!TextsAt(text, k)
  <2>1. CASE ~begun
    BY <1>3, <2>1, PlacesAre
  <2>2. CASE Tools!Line.reads \in {"metadata", "removed", "other"} /\ Tools!Line.kind \notin Tools!Marks
    BY <1>3, <2>2 DEF Tools!Naming, Tools!Headers, Tools!TextsAt, Tools!Marks
  <2>3. CASE Tools!Line.kind # "header" /\ current = <<>>
    <3>1. \A h \in Tools!Headers(text) : ~(h < p) /\ ~(h <= p - 1)
      BY <1>3, <1>4, <1>5, <2>3
    <3>2. p \notin Tools!Naming(text)
      BY <1>3, <2>3, <3>1 DEF Tools!Naming, Tools!Headers
    <3>3. ASSUME NEW k \in TouchedBy(text, p - 1) PROVE FALSE
      <4>1. k \in Tools!Touched(text) /\ k <= p - 1 /\ k \in Int
        BY <1>5 DEF TouchedBy
      <4>2. PICK h \in Tools!Headers(text) : h <= k
        BY <4>1, PlacesAre
      <4> QED  BY <1>3, <1>5, <3>1, <4>1, <4>2
    <3> QED  BY <3>2, <3>3
  <2> QED  BY <1>1, <2>1, <2>2, <2>3
<1>7. p \notin Tools!Touched(text)
  BY <1>6, PlacesAre
<1>8. CoversBy(Tools!Flushed, text, p)
  BY <1>3, <1>6, <1>7, PlainLine
<1>9. Tools!Flushed' = Tools!Flushed
  BY <1>1 DEF Tools!Flushed
<1> QED  BY <1>1, <1>2, <1>6, <1>8, <1>9, NamelessKeeps DEF p

(* A file with no line yet, when its path is one the text names.           *)
LEMMA FreshFile ==
    ASSUME NEW T, NEW text \in Seq(T), NEW p \in 1..Len(text)
    PROVE  Tools!Touches(text[p].path) \in FilesOf(text) /\ Tools!Touches(text[p].path).path = text[p].path
<1>1. p \in DOMAIN text /\ <<>> \in Seq({text[i].text : i \in DOMAIN text})
  OBVIOUS
<1>2. text[p].path \in {text[i].path : i \in DOMAIN text}
  BY <1>1
<1> QED  BY <1>1, <1>2 DEF Tools!Touches, FilesOf

(* A header or a move to another place.                                    *)
LEMMA AnotherFile ==
    ASSUME NEW T, NEW text \in Seq(T), PatchIsRead(text), ReadsOn, Place(text) \in Tools!Touched(text),
           Tools!Line.kind \in {"header", "move"},
           files' = Tools!Flushed, current' = <<Tools!Touches(Tools!Line.path)>>
    PROVE  PatchIsRead(text)'
<1> DEFINE p == Place(text)
           fresh == Tools!Touches(text[p].path)
<1>1. /\ p - 1 \in Nat /\ (p - 1) + 1 = p /\ p \in 1..Len(text) /\ Tools!Line = text[p]
      /\ CoversBy(Tools!Flushed, text, p - 1)
  BY PlaceIs
<1>2. Tools!Flushed \in Seq(FilesOf(text))
  <2>1. files \in Seq(FilesOf(text)) /\ (current = <<>> \/ \E f \in FilesOf(text) : current = <<f>>)
    BY DEF PatchIsRead
  <2> QED  BY <2>1, FlushedIs
<1>3. p \in Tools!Touched(text) /\ p \in Tools!Naming(text)
  BY PlacesAre
<1>4. Tools!Line.reads \in {"header", "move"} /\ current' = <<fresh>>
  BY <1>1, TakenForWhatItIs DEF ReadsOn, Tools!Marks
<1> HIDE DEF p
<1>5. CoversBy(Append(Tools!Flushed, fresh), text, p)
  BY <1>1, <1>2, <1>3, <1>4, NamingLine
<1>6. fresh \in FilesOf(text) /\ fresh.path = text[p].path
  BY <1>1, FreshFile
<1> HIDE DEF fresh
<1>7. Tools!Flushed' = Append(Tools!Flushed, fresh)
  BY <1>2, <1>4, <1>6 DEF Tools!Flushed
<1>8. files' \in Seq(FilesOf(text))
  BY <1>2
<1>9. CoversBy(Tools!Flushed', text, p)
  BY <1>5, <1>7
<1> QED  BY <1>3, <1>4, <1>6, <1>8, <1>9, NameKeeps DEF p

(* A header names the next file.                                           *)
LEMMA HeaderKeeps ==
    ASSUME NEW T, NEW text \in Seq(T), PatchIsRead(text), Tools!FileHeader
    PROVE  PatchIsRead(text)'
<1>1. /\ unread # <<>> /\ Tools!Line.kind = "header" /\ begun /\ begun' = begun
      /\ unread' = Tail(unread) /\ files' = Tools!Flushed /\ current' = <<Tools!Touches(Tools!Line.path)>>
  BY TakenForWhatItIs DEF Tools!FileHeader, Tools!Reading, Tools!NextLine, Tools!Marks
<1>2. ReadsOn
  <2>1. begun \in BOOLEAN
    BY DEF PatchIsRead
  <2> QED  BY <1>1, <2>1 DEF ReadsOn
<1>3. Place(text) \in Tools!Inside(text) /\ Tools!Line = text[Place(text)]
  BY <1>1, <1>2, PlaceIs
<1>4. Place(text) \in Tools!Touched(text)
  BY <1>1, <1>3, PlacesAre DEF Tools!Headers
<1> QED  BY <1>1, <1>2, <1>4, AnotherFile

(* A move: to where the file is, or to another place.                      *)
LEMMA MoveKeeps ==
    ASSUME NEW T, NEW text \in Seq(T), PatchIsRead(text), Tools!MoveHeader
    PROVE  PatchIsRead(text)'
<1> DEFINE p == Place(text)
<1>1. /\ unread # <<>> /\ Tools!Line.kind = "move" /\ Tools!Line.reads = "move" /\ begun /\ begun' = begun /\ current # <<>>
      /\ unread' = Tail(unread)
      /\ IF Tools!Line.path = current[1].path THEN current' = current /\ files' = files
         ELSE files' = Tools!Flushed /\ current' = <<Tools!Touches(Tools!Line.path)>>
  BY TakenForWhatItIs DEF Tools!MoveHeader, Tools!Reading, Tools!NextLine, Tools!NoFile, Tools!Marks
<1>2. ReadsOn
  <2>1. begun \in BOOLEAN
    BY DEF PatchIsRead
  <2> QED  BY <1>1, <2>1 DEF ReadsOn
<1>3. /\ p - 1 \in Nat /\ (p - 1) + 1 = p /\ p \in 1..Len(text) /\ Tools!Line = text[p]
      /\ p \in Tools!Inside(text) /\ CoversBy(Tools!Flushed, text, p - 1)
  BY <1>1, <1>2, PlaceIs
<1>4. PICK k \in Tools!Naming(text) : /\ k <= p - 1 /\ text[k].path = current[1].path
                                      /\ \A m \in Tools!Naming(text) : m <= k \/ p - 1 < m
  <2>1. Len(text) - Len(unread) \in Nat
    BY DEF PatchIsRead
  <2>2. p - 1 = Len(text) - Len(unread)
    BY <2>1 DEF Place
  <2> QED  BY <1>1, <2>2 DEF PatchIsRead
<1>5. Tools!Naming(text) \subseteq Int /\ Tools!Headers(text) \subseteq Int
  BY PlacesAre
<1> HIDE DEF p
<1>6. /\ k < p /\ \A m \in Tools!Naming(text) : m <= k \/ p <= m
  BY <1>3, <1>4, <1>5
<1>7. p \in Tools!Naming(text)
  <2>1. PICK h \in Tools!Headers(text) : h <= k
    BY PlacesAre
  <2>2. h < p
    BY <1>5, <1>6, <1>3, <2>1
  <2> QED  BY <1>1, <1>3, <2>2 DEF Tools!Naming
<1>8. /\ files \in Seq(FilesOf(text))
      /\ current = <<>> \/ \E f \in FilesOf(text) : current = <<f>>
  BY DEF PatchIsRead
<1>9. CASE Tools!Line.path = current[1].path
  <2>1. Tools!Stays(text, p)
    BY <1>1, <1>3, <1>4, <1>6, <1>9 DEF Tools!Stays
  <2>2. p \notin Tools!Touched(text)
    BY <2>1 DEF Tools!Touched
  <2>3. \A j : p \notin Tools!TextsAt(text, j)
    BY <1>1, <1>3 DEF Tools!TextsAt
  <2>4. CoversBy(Tools!Flushed, text, p)
    BY <1>3, <2>2, <2>3, PlainLine
  <2>5. Tools!Flushed' = Tools!Flushed
    BY <1>1, <1>9 DEF Tools!Flushed
  <2>6. PICK f \in FilesOf(text) : current = <<f>>
    BY <1>1, <1>8
  <2>7. f.path = text[p].path /\ current' = <<f>> /\ files' = files
    BY <1>1, <1>3, <1>9, <2>6
  <2> QED  BY <1>2, <1>7, <1>8, <2>4, <2>5, <2>7, NameKeeps DEF p
<1>10. CASE Tools!Line.path # current[1].path
  <2>1. ~Tools!Stays(text, p)
    <3> SUFFICES ASSUME NEW n \in Tools!Naming(text), n < p, text[n].path = text[p].path,
                        \A m \in Tools!Naming(text) : m <= n \/ p <= m
                 PROVE  FALSE
      BY DEF Tools!Stays
    <3>1. n <= k /\ k <= n
      BY <1>3, <1>5, <1>6
    <3>2. n = k
      BY <1>5, <3>1
    <3> QED  BY <1>3, <1>4, <1>10, <3>2
  <2>2. p \in Tools!Touched(text)
    BY <1>7, <2>1 DEF Tools!Touched
  <2> QED  BY <1>1, <1>2, <1>10, <2>2, AnotherFile DEF p
<1> QED  BY <1>9, <1>10

(* A file with one more line.                                              *)
LEMMA Longer ==
    ASSUME NEW P, NEW S, NEW f \in [path : P, content : Seq(S)], NEW x \in S
    PROVE  LET next == [f EXCEPT !.content = Append(@, x)]
           IN next \in [path : P, content : Seq(S)] /\ next.path = f.path /\ next.content = Append(f.content, x)
<1>1. f.content \in Seq(S) /\ f.path \in P
  OBVIOUS
<1>2. Append(f.content, x) \in Seq(S)
  BY <1>1
<1> DEFINE longer == Append(f.content, x)
<1> HIDE DEF longer
<1>3. [f EXCEPT !.content = longer] \in [path : P, content : Seq(S)]
  BY <1>1, <1>2 DEF longer
<1>4. [f EXCEPT !.content = longer].path = f.path /\ [f EXCEPT !.content = longer].content = longer
  OBVIOUS
<1> QED  BY <1>3, <1>4 DEF longer

(* A line that is added to a file, or found in it.                         *)
LEMMA ContentKeeps ==
    ASSUME NEW T, NEW text \in Seq(T), PatchIsRead(text), Tools!ContentLine
    PROVE  PatchIsRead(text)'
<1> DEFINE p == Place(text)
<1>1. /\ unread # <<>> /\ Tools!Line.reads \in {"added", "context"} /\ begun /\ begun' = begun /\ current # <<>>
      /\ unread' = Tail(unread) /\ files' = files
      /\ current' = <<[current[1] EXCEPT !.content = Append(@, Tools!Line.text)]>>
  BY DEF Tools!ContentLine, Tools!Reading, Tools!NextLine, Tools!NoFile
<1>0. Tools!Line.kind \notin Tools!Marks
  BY <1>1, TakenForWhatItIs DEF Tools!Marks
<1>2. ReadsOn
  <2>1. begun \in BOOLEAN
    BY DEF PatchIsRead
  <2>2. Tools!Line.kind \notin {"begin", "end"}
    BY <1>0 DEF Tools!Marks
  <2> QED  BY <1>1, <2>1, <2>2 DEF ReadsOn
<1>3. /\ p - 1 \in Nat /\ (p - 1) + 1 = p /\ p \in 1..Len(text) /\ Tools!Line = text[p]
      /\ p \in Tools!Inside(text) /\ CoversBy(Tools!Flushed, text, p - 1)
  BY <1>1, <1>2, PlaceIs
<1> HIDE DEF p
<1>4. files \in Seq(FilesOf(text))
  BY DEF PatchIsRead
<1>5. PICK f \in FilesOf(text) : current = <<f>>
  BY <1>1 DEF PatchIsRead
<1> DEFINE next == [f EXCEPT !.content = Append(@, text[p].text)]
<1>6. next \in FilesOf(text) /\ next.path = f.path /\ next.content = Append(f.content, text[p].text)
  <2>1. p \in DOMAIN text
    BY <1>3
  <2>2. text[p].text \in {text[i].text : i \in DOMAIN text}
    BY <2>1
  <2> DEFINE P == {text[i].path : i \in DOMAIN text}
             S == {text[i].text : i \in DOMAIN text}
  <2>3. f \in [path : P, content : Seq(S)] /\ text[p].text \in S
    BY <2>2 DEF FilesOf
  <2> HIDE DEF P, S
  <2>4. /\ next \in [path : P, content : Seq(S)]
        /\ next.path = f.path /\ next.content = Append(f.content, text[p].text)
    BY <2>3, Longer
  <2> HIDE DEF next
  <2> QED  BY <2>4 DEF P, S, FilesOf
<1>7. current' = <<next>>
  BY <1>1, <1>3, <1>5
<1> HIDE DEF next
<1>8. Tools!Flushed = Append(files, f)
  BY <1>4, <1>5, FlushedIs
<1>9. Tools!Flushed' = Append(files, next)
  BY <1>1, <1>4, <1>6, <1>7 DEF Tools!Flushed
<1>10. CoversBy(Append(files, next), text, p)
  <2>1. CoversBy(Append(files, f), text, p - 1)
    BY <1>3, <1>8
  <2> QED  BY <1>0, <1>1, <1>3, <1>4, <1>6, <2>1, TextLine
<1>11. p \notin Tools!Naming(text)
  BY <1>0, <1>3 DEF Tools!Naming, Tools!Headers, Tools!Marks
<1>12. next.path = current[1].path
  BY <1>5, <1>6
<1> QED  BY <1>1, <1>2, <1>6, <1>7, <1>9, <1>10, <1>11, <1>12, NamelessKeeps DEF p

(* A second begin marker: the text is no patch.                            *)
LEMMA TwoBegins ==
    ASSUME NEW T, NEW text \in Seq(T), PatchIsRead(text), Tools!BeginMarker, begun
    PROVE  ~Tools!BeginsOnce(text)
<1> DEFINE r == Len(text) - Len(unread)
<1>1. unread # <<>> /\ Tools!Line.kind = "begin"
  BY TakenForWhatItIs DEF Tools!BeginMarker, Tools!Reading, Tools!Marks
<1>2. r \in Nat /\ r+1 \in 1..Len(text) /\ Tools!Line = text[r+1]
  BY <1>1, NextLineIs
<1>3. PICK b \in 1..r : text[b].kind = "begin"
  BY DEF PatchIsRead
<1>4. \A e \in 1..r : text[e].kind # "end"
  BY DEF PatchIsRead
<1> HIDE DEF r
<1>5. b \in Tools!Begins(text)
  <2>1. b \in DOMAIN text /\ \A e \in 1..b : e \in 1..r
    BY <1>2, <1>3
  <2> QED  BY <1>3, <1>4, <2>1 DEF Tools!Begins
<1>6. r+1 \in Tools!Begins(text)
  <2>1. r+1 \in DOMAIN text /\ \A e \in 1..(r+1) : e \in 1..r \/ e = r+1
    BY <1>2
  <2> QED  BY <1>1, <1>2, <1>4, <2>1 DEF Tools!Begins
<1>7. b # r+1
  BY <1>2, <1>3
<1> QED  BY <1>5, <1>6, <1>7 DEF Tools!BeginsOnce

(* The end of the patch: what was read is all there is.                    *)
LEMMA EndCovers ==
    ASSUME NEW T, NEW text \in Seq(T), PatchIsRead(text), Tools!EndOfPatch
    PROVE  IF ~Tools!BeginsOnce(text) \/ Tools!Headers(text) = {} THEN source' = Tools!NoSource
           ELSE /\ source'.kind = "files"
                /\ \E touched \in [DOMAIN source'.files -> Tools!Touched(text)] :
                     /\ Tools!InOrder(touched, Tools!Touched(text))
                     /\ \A n \in DOMAIN touched : Tools!IsFileAt(source'.files[n], text, touched[n])
<1> DEFINE r == Len(text) - Len(unread)
           found == IF begun THEN Tools!Flushed ELSE <<>>
<1>1. /\ unread = <<>> \/ (unread # <<>> /\ Tools!Line.kind = "end")
      /\ source' = IF found = <<>> THEN Tools!NoSource ELSE [kind |-> "files", files |-> found]
  BY TakenForWhatItIs DEF Tools!EndOfPatch, Tools!Reading, Tools!PatchDone, Tools!Marks
<1>2. r \in Nat /\ (r = Len(text) \/ (r+1 \in 1..Len(text) /\ text[r+1].kind = "end"))
  <2>1. CASE unread = <<>>
    BY <2>1
  <2>2. CASE unread # <<>>
    BY <1>1, <2>2, NextLineIs
  <2> QED  BY <2>1, <2>2
<1>3. /\ \A e \in 1..r : text[e].kind # "end"
      /\ begun => \E b \in 1..r : text[b].kind = "begin" /\ \A c \in 1..r : text[c].kind = "begin" => c = b
      /\ ~begun => \A c \in 1..r : text[c].kind # "begin"
      /\ begun \in BOOLEAN
      /\ CoversBy(Tools!Flushed, text, r)
      /\ files \in Seq(FilesOf(text))
      /\ current = <<>> \/ \E f \in FilesOf(text) : current = <<f>>
      /\ current = <<>> => files = <<>> /\ \A h \in Tools!Headers(text) : r < h
      /\ current # <<>> => \E k \in Tools!Naming(text) : k <= r
  BY DEF PatchIsRead
<1> HIDE DEF r
<1>4. DOMAIN text = 1..Len(text) /\ Len(text) \in Nat
  OBVIOUS
<1>5. ASSUME NEW k \in DOMAIN text, \A e \in 1..k : text[e].kind # "end" PROVE k \in 1..r
  <2>1. k \in 1..Len(text)
    BY <1>4
  <2>2. CASE r = Len(text)
    BY <2>1, <2>2
  <2>3. CASE r+1 \in 1..Len(text) /\ text[r+1].kind = "end"
    <3>1. r+1 \notin 1..k
      BY <1>5, <2>3
    <3>2. ~(r+1 <= k)
      BY <1>2, <2>1, <3>1
    <3> QED  BY <1>2, <2>1, <3>2
  <2> QED  BY <1>2, <2>2, <2>3
<1>6. Tools!Inside(text) \subseteq 1..r /\ Tools!Begins(text) \subseteq 1..r
  <2>1. \A k \in Tools!Inside(text) : k \in DOMAIN text /\ \A e \in 1..k : text[e].kind # "end"
    BY DEF Tools!Inside
  <2>2. \A k \in Tools!Begins(text) : k \in DOMAIN text /\ \A e \in 1..k : text[e].kind # "end"
    BY DEF Tools!Begins
  <2> QED  BY <1>5, <2>1, <2>2
<1>7. CASE ~begun
  <2>1. Tools!Begins(text) = {}
    BY <1>3, <1>6, <1>7 DEF Tools!Begins
  <2>2. ~Tools!BeginsOnce(text)
    BY <2>1 DEF Tools!BeginsOnce
  <2> QED  BY <1>1, <1>7, <2>2
<1>8. CASE begun
  <2>1. Tools!BeginsOnce(text)
    <3>1. PICK b \in 1..r : text[b].kind = "begin" /\ \A c \in 1..r : text[c].kind = "begin" => c = b
      BY <1>3, <1>8
    <3>2. b \in Tools!Begins(text)
      <4>1. b \in DOMAIN text /\ \A e \in 1..b : e \in 1..r
        BY <1>2, <1>4, <3>1
      <4> QED  BY <1>3, <3>1, <4>1 DEF Tools!Begins
    <3>3. \A c \in Tools!Begins(text) : c = b
      BY <1>6, <3>1 DEF Tools!Begins
    <3>4. Tools!Begins(text) = {b}
      BY <3>2, <3>3
    <3> QED  BY <3>2, <3>4 DEF Tools!BeginsOnce
  <2>2. found = Tools!Flushed
    BY <1>8
  <2> HIDE DEF found
  <2>3. CASE current = <<>>
    <3>1. Tools!Flushed = <<>>
      BY <1>3, <2>3, FlushedIs
    <3>2. \A h \in Tools!Headers(text) : h \in 1..r /\ r < h
      BY <1>3, <1>6, <2>3, PlacesAre
    <3>3. Tools!Headers(text) = {}
      BY <1>2, <3>2
    <3> QED  BY <1>1, <2>2, <3>1, <3>3
  <2>4. CASE current # <<>>
    <3>1. PICK f \in FilesOf(text) : current = <<f>>
      BY <1>3, <2>4
    <3>2. Tools!Flushed # <<>>
      <4>1. Tools!Flushed = Append(files, f)
        BY <1>3, <3>1, FlushedIs
      <4> QED  BY <1>3, <4>1
    <3>3. Tools!Headers(text) # {}
      BY <1>3, <2>4, PlacesAre
    <3>4. source' = [kind |-> "files", files |-> Tools!Flushed]
      BY <1>1, <2>2, <3>2
    <3>5. source'.kind = "files" /\ source'.files = Tools!Flushed
      BY <3>4
    <3>6. \E touched \in [DOMAIN Tools!Flushed -> Tools!Touched(text)] :
                     /\ Tools!InOrder(touched, Tools!Touched(text))
                     /\ \A n \in DOMAIN touched : Tools!IsFileAt(Tools!Flushed[n], text, touched[n])
      BY <1>2, <1>3, <1>6, AllCovered
    <3> QED  BY <2>1, <3>3, <3>5, <3>6
  <2> QED  BY <2>3, <2>4
<1> QED  BY <1>3, <1>7, <1>8

(* A patch of which nothing was read.                                      *)
LEMMA PatchStarts ==
    ASSUME NEW T, NEW text \in Seq(T), text \in Seq(Tools!ToSet(text)), Tools!Unmistaken(text),
           unread' = text, begun' = FALSE, current' = <<>>, files' = <<>>
    PROVE  PatchIsRead(text)'
<1>1. Len(text) - Len(unread') = 0 /\ Len(text) \in Nat
  OBVIOUS
<1>2. Tools!Touched(text) \subseteq 1..Len(text) /\ Tools!Headers(text) \subseteq 1..Len(text)
  BY PlacesAre
<1>3. TouchedBy(text, 0) = {} /\ \A h \in Tools!Headers(text) : 0 < h
  BY <1>1, <1>2 DEF TouchedBy
<1>4. CoversBy(<<>>, text, 0)
  <2>1. <<>> \in [DOMAIN <<>> -> TouchedBy(text, 0)] /\ DOMAIN <<>> = {}
    OBVIOUS
  <2>2. Tools!InOrder(<<>>, TouchedBy(text, 0))
    BY <1>3, <2>1 DEF Tools!InOrder
  <2> QED  BY <2>1, <2>2 DEF CoversBy
<1>5. Tools!Flushed' = <<>>
  BY DEF Tools!Flushed
<1> DEFINE r == Len(text) - Len(unread')
<1>6. r = 0
  BY <1>1
<1> HIDE DEF r
<1>7. /\ unread' \in Seq(Tools!ToSet(text)) /\ r \in Nat /\ \A i \in 1..Len(unread') : unread'[i] = text[r+i]
      /\ files' \in Seq(FilesOf(text)) /\ 1..r = {}
  BY <1>6
<1>8. CoversBy(Tools!Flushed', text, r) /\ \A h \in Tools!Headers(text) : r < h
  BY <1>3, <1>4, <1>5, <1>6
<1> QED  BY <1>7, <1>8 DEF PatchIsRead, r

(* Any step within a patch, and what it hands over at the end.             *)
LEMMA PatchStep ==
    ASSUME NEW T, NEW text \in Seq(T), PatchIsRead(text), stage = "patch", Tools!PayloadNext
    PROVE  /\ UNCHANGED payload
           /\ \/ stage' = "patch" /\ PatchIsRead(text)'
              \/ /\ stage' = "judge"
                 /\ IF ~Tools!BeginsOnce(text) \/ Tools!Headers(text) = {} THEN source' = Tools!NoSource
                    ELSE /\ source'.kind = "files"
                         /\ \E touched \in [DOMAIN source'.files -> Tools!Touched(text)] :
                              /\ Tools!InOrder(touched, Tools!Touched(text))
                              /\ \A n \in DOMAIN touched : Tools!IsFileAt(source'.files[n], text, touched[n])
<1>1. CASE Tools!BeginMarker /\ ~begun
  <2>1. PatchIsRead(text)'
    BY <1>1, BeginKeeps
  <2>2. stage' = stage /\ payload' = payload
    BY <1>1 DEF Tools!BeginMarker, Tools!NextLine, Tools!PatchFrame
  <2> QED  BY <2>1, <2>2
<1>2. CASE Tools!BeginMarker /\ begun
  <2>1. ~Tools!BeginsOnce(text)
    BY <1>2, TwoBegins
  <2>2. stage' = "judge" /\ source' = Tools!NoSource /\ payload' = payload
    BY <1>2 DEF Tools!BeginMarker, Tools!PatchDone, Tools!PatchFrame
  <2> QED  BY <2>1, <2>2
<1>3. CASE Tools!EndOfPatch
  <2>1. stage' = "judge" /\ payload' = payload
    BY <1>3 DEF Tools!EndOfPatch, Tools!PatchDone, Tools!PatchFrame
  <2> QED  BY <1>3, <2>1, EndCovers
<1>4. CASE Tools!Skip
  <2>1. stage' = stage /\ payload' = payload
    BY <1>4 DEF Tools!Skip, Tools!NextLine, Tools!PatchFrame
  <2> QED  BY <1>4, <2>1, SkipKeeps
<1>5. CASE Tools!FileHeader
  <2>1. stage' = stage /\ payload' = payload
    BY <1>5 DEF Tools!FileHeader, Tools!NextLine, Tools!PatchFrame
  <2> QED  BY <1>5, <2>1, HeaderKeeps
<1>6. CASE Tools!MoveHeader
  <2>1. stage' = stage /\ payload' = payload
    BY <1>6 DEF Tools!MoveHeader, Tools!NextLine, Tools!PatchFrame
  <2> QED  BY <1>6, <2>1, MoveKeeps
<1>7. CASE Tools!ContentLine
  <2>1. stage' = stage /\ payload' = payload
    BY <1>7 DEF Tools!ContentLine, Tools!NextLine, Tools!PatchFrame
  <2> QED  BY <1>7, <2>1, ContentKeeps
<1>8. Tools!BeginMarker \/ Tools!EndOfPatch \/ Tools!Skip \/ Tools!FileHeader \/ Tools!MoveHeader \/ Tools!ContentLine
  BY DEF Tools!PayloadNext, Tools!Admit, Tools!Judge, Tools!Render, Tools!Act
<1>9. begun \in BOOLEAN
  BY DEF PatchIsRead
<1> QED  BY <1>1, <1>2, <1>3, <1>4, <1>5, <1>6, <1>7, <1>8, <1>9

(* What is found in a well-formed call of a known tool.                    *)
Found ==
    LET tool == Tools!Tool(payload)
    IN tool \in Tools!CommandTools \cup Tools!WriteTools \cup Tools!EditTools
         /\ Tools!ValidInput(tool, payload.input) =>
       /\ source # Tools!NoSource
       /\ source.text = Tools!Field(payload.input, Tools!Acted(tool))
       /\ tool \notin Tools!CommandTools => source.path = Tools!Field(payload.input, Tools!Path)

(* The tools have names of their own.                                      *)
LEMMA ToolsAre ==
    /\ "apply_patch" \notin Tools!CommandTools \cup Tools!WriteTools \cup Tools!EditTools
    /\ "" \notin Tools!CommandTools \cup Tools!WriteTools \cup Tools!EditTools
    /\ "Shell" \in Tools!CommandTools
    /\ Tools!CommandTools \cap (Tools!WriteTools \cup Tools!EditTools) = {}
    /\ Tools!WriteTools \cap Tools!EditTools = {}
  BY DEF Tools!CommandTools, Tools!WriteTools, Tools!EditTools

(* Reading a patch goes on or ends, whatever its lines are.                *)
LEMMA PatchGoesOn ==
    ASSUME stage = "patch", Tools!PayloadNext
    PROVE  UNCHANGED payload /\ stage' \in {"patch", "judge"}
  BY DEF Tools!PayloadNext, Tools!Admit, Tools!Judge, Tools!Render, Tools!Act, Tools!BeginMarker,
         Tools!EndOfPatch, Tools!Skip, Tools!FileHeader, Tools!MoveHeader, Tools!ContentLine,
         Tools!NextLine, Tools!PatchDone, Tools!PatchFrame

(* A well-formed call of a tool that is known is admitted, and its text    *)
(* and its path are found.                                                 *)
LEMMA AdmitFinds ==
    ASSUME Tools!Admit, payload.parses
    PROVE  /\ stage' = "judge" => Found'
           /\ stage' = "judge" => ~(Tools!Tool(payload) = "apply_patch" /\ Tools!NonBlank(payload.input, "command"))
<1> DEFINE tool == Tools!Tool(payload)
           input == payload.input
           known == Tools!CommandTools \cup Tools!WriteTools \cup Tools!EditTools
<1>1. payload' = payload /\ (tool = "Shell" \/ (payload.wire # "shell" /\ tool = payload.tool))
  BY DEF Tools!Admit, Tools!Tool
<1>2. /\ tool \in known /\ Tools!ValidInput(tool, input) => Tools!Admitted(payload)
      /\ tool = "apply_patch" /\ Tools!NonBlank(input, "command") => Tools!Admitted(payload)
  <2>1. ASSUME tool \in known, Tools!ValidInput(tool, input) PROVE Tools!Admitted(payload)
    <3>1. payload.wire = "shell" => Tools!NonBlank(input, "command")
      BY <2>1, ToolsAre DEF Tools!ValidInput, Tools!Tool
    <3>2. payload.wire \in {"tool", "opencode"} => payload.tool # "" /\ payload.tool = tool
      BY <2>1, ToolsAre DEF Tools!Tool
    <3> QED  BY <2>1, <3>1, <3>2 DEF Tools!Admitted
  <2>2. ASSUME tool = "apply_patch", Tools!NonBlank(input, "command") PROVE Tools!Admitted(payload)
    <3>1. payload.wire # "shell" /\ payload.tool = tool
      BY <2>2, ToolsAre DEF Tools!Tool
    <3>2. Tools!ValidInput(tool, input)
      BY <2>2, ToolsAre DEF Tools!ValidInput
    <3> QED  BY <2>2, <3>1, <3>2 DEF Tools!Admitted
  <2> QED  BY <2>1, <2>2
<1>3. ASSUME stage' = "judge", tool = "apply_patch", Tools!NonBlank(input, "command") PROVE FALSE
  <2>1. Tools!Admitted(payload) /\ Tools!Has(input, {"command"})
    BY <1>2, <1>3 DEF Tools!NonBlank, Tools!Has
  <2> QED  BY <1>3, <2>1 DEF Tools!Admit
<1>4. ASSUME stage' = "judge", tool \in known, Tools!ValidInput(tool, input)
      PROVE  /\ source' # Tools!NoSource
             /\ source'.text = Tools!Field(input, Tools!Acted(tool))
             /\ tool \notin Tools!CommandTools => source'.path = Tools!Field(input, Tools!Path)
  <2>1. source' = Tools!Classified(tool, input)
    BY <1>2, <1>4, ToolsAre DEF Tools!Admit
  <2> HIDE DEF tool
  <2>2. CASE tool \in Tools!CommandTools
    <3>1. "command" \in DOMAIN input
      BY <1>4, <2>2 DEF Tools!ValidInput, Tools!NonBlank
    <3>2. source' = [kind |-> "command", text |-> input.command]
      BY <2>1, <2>2, <3>1 DEF Tools!Classified, Tools!Has
    <3>3. source'.kind = "command" /\ source'.text = input.command
      BY <3>2
    <3>4. Tools!Acted(tool) = {"command"}
      BY <2>2 DEF Tools!Acted
    <3>5. (CHOOSE n \in {"command"} : n \in DOMAIN input) = "command"
      BY <3>1
    <3>6. Tools!Field(input, Tools!Acted(tool)) = input.command
      BY <3>4, <3>5 DEF Tools!Field
    <3> QED  BY <2>2, <3>3, <3>6 DEF Tools!NoSource
  <2>3. CASE tool \in Tools!WriteTools /\ "content" \in DOMAIN input
    <3>1. Tools!Gives(input, Tools!Path) /\ tool \notin Tools!CommandTools
      BY <1>4, <2>3, ToolsAre DEF Tools!ValidInput
    <3>2. source' = [kind |-> "write", path |-> Tools!Field(input, Tools!Path), text |-> input.content]
      BY <2>1, <2>3, <3>1 DEF Tools!Classified
    <3>3. source'.kind = "write" /\ source'.text = input.content /\ source'.path = Tools!Field(input, Tools!Path)
      BY <3>2
    <3>4. Tools!Acted(tool) = {"content"}
      BY <2>3, <3>1, ToolsAre DEF Tools!Acted
    <3>5. (CHOOSE n \in {"content"} : n \in DOMAIN input) = "content"
      BY <2>3
    <3>6. Tools!Field(input, Tools!Acted(tool)) = input.content
      BY <3>4, <3>5 DEF Tools!Field
    <3> QED  BY <3>3, <3>6 DEF Tools!NoSource
  <2>4. CASE tool \in Tools!WriteTools \cup Tools!EditTools /\ ~(tool \in Tools!WriteTools /\ "content" \in DOMAIN input)
    <3>1. /\ Tools!Gives(input, Tools!Path) /\ Tools!EditShape(input)
          /\ tool \notin Tools!CommandTools /\ tool # "apply_patch"
      BY <1>4, <2>4, ToolsAre DEF Tools!ValidInput
    <3>2. source' = [kind |-> "edit", path |-> Tools!Field(input, Tools!Path),
                     text |-> Tools!Field(input, Tools!New)]
      BY <2>1, <2>4, <3>1 DEF Tools!Classified
    <3>3. /\ source'.kind = "edit" /\ source'.text = Tools!Field(input, Tools!New)
          /\ source'.path = Tools!Field(input, Tools!Path)
      BY <3>2
    <3>4. Tools!Acted(tool) = Tools!New
      BY <2>4, <3>1 DEF Tools!Acted
    <3> QED  BY <3>3, <3>4 DEF Tools!NoSource
  <2> QED  BY <1>4, <2>2, <2>3, <2>4
<1>5. stage' = "judge" => Found'
  <2>1. /\ (Tools!Tool(payload))' = tool
        /\ (Tools!Acted(Tools!Tool(payload)))' = Tools!Acted(tool)
    BY <1>1 DEF Tools!Tool, Tools!Acted
  <2> QED  BY <1>1, <1>4, <2>1 DEF Found
<1> QED  BY <1>3, <1>5

(* A call before it is judged, while its patch is read, and from then on.  *)
SeenInv ==
    /\ stage = "read" => begun = FALSE /\ current = <<>> /\ files = <<>>
    /\ stage = "patch" /\ Tools!Unmistaken(payload.input.command) => PatchIsRead(payload.input.command)
    /\ Tools!CallsAreJudged

(* What was judged stays judged.                                           *)
LEMMA JudgedStays ==
    ASSUME Tools!CallsAreJudged, UNCHANGED <<payload, source>>,
           stage \in {"judge", "render", "act", "done"} \/ stage' \notin {"judge", "render", "act", "done"}
    PROVE  Tools!CallsAreJudged'
<1>1. Tools!PatchIsCovered(payload.input.command) => Tools!PatchIsCovered(payload.input.command)'
  BY DEF Tools!PatchIsCovered
<1>2. (Tools!Acted(Tools!Tool(payload)))' = Tools!Acted(Tools!Tool(payload))
  BY DEF Tools!Acted
<1> QED  BY <1>1, <1>2 DEF Tools!CallsAreJudged

(* The patch that a call holds.                                            *)
LEMMA PatchHeld ==
    ASSUME CallsInv, part = "calls", payload.parses, "command" \in DOMAIN payload.input
    PROVE  payload.input.command \in Seq(Tools!ToSet(payload.input.command))
  BY PayloadsAssumption DEF CallsInv, Tools!IsCall

(* Each step of a call keeps that.                                         *)
LEMMA SeenKeep ==
    ASSUME CallsInv, SeenInv, part = "calls", Tools!PayloadNext
    PROVE  SeenInv'
<1> DEFINE text == payload.input.command
<1>1. CASE Tools!Admit
  <2>1. /\ stage = "read" /\ UNCHANGED <<payload, begun, current, files, decision, response, executed>>
        /\ begun = FALSE /\ current = <<>> /\ files = <<>>
    BY <1>1 DEF Tools!Admit, SeenInv
  <2>2. CASE stage' = "patch"
    <3>1. payload.parses /\ "command" \in DOMAIN payload.input /\ unread' = text
      BY <1>1, <2>2, ClassifiedFits
    <3>2. text \in Seq(Tools!ToSet(text))
      BY <3>1, PatchHeld
    <3>3. ASSUME Tools!Unmistaken(text)' PROVE PatchIsRead(text)'
      <4>1. PICK t : t = text
        OBVIOUS
      <4>2. text' = t
        BY <2>1, <4>1
      <4>3. unread' = t /\ t \in Seq(Tools!ToSet(t)) /\ Tools!Unmistaken(t)
        BY <3>1, <3>2, <3>3, <4>1, <4>2 DEF Tools!Unmistaken
      <4> HIDE DEF text
      <4>4. begun' = FALSE /\ current' = <<>> /\ files' = <<>>
        BY <2>1
      <4>5. PatchIsRead(t)'
        BY <4>3, <4>4, PatchStarts
      <4> QED  BY <4>2, <4>5 DEF PatchIsRead
    <3>4. Tools!CallsAreJudged'
      BY <2>2 DEF Tools!CallsAreJudged
    <3> QED  BY <2>2, <3>3, <3>4 DEF SeenInv
  <2>3. CASE stage' = "judge"
    <3>1. payload.parses => /\ Found'
                            /\ ~(Tools!Tool(payload) = "apply_patch" /\ Tools!NonBlank(payload.input, "command"))
      BY <1>1, <2>3, AdmitFinds
    <3>2. payload' = payload
      BY <2>1
    <3>3. ~(Tools!Tool(payload) = "apply_patch" /\ Tools!NonBlank(payload.input, "command")) =>
          ~(Tools!Tool(payload) = "apply_patch" /\ Tools!NonBlank(payload.input, "command"))'
      BY <3>2
    <3>4. Tools!CallsAreJudged'
      BY <3>1, <3>2, <3>3 DEF Tools!CallsAreJudged, Found
    <3> QED  BY <2>3, <3>4 DEF SeenInv
  <2> QED  BY <1>1, <2>2, <2>3, ClassifiedFits
<1>2. CASE stage = "patch"
  <2>1. /\ payload.parses /\ Tools!Tool(payload) = "apply_patch" /\ "command" \in DOMAIN payload.input
        /\ Tools!Unmistaken(text) => PatchIsRead(text)
    BY <1>2 DEF CallsInv, SeenInv
  <2>2. text \in Seq(Tools!ToSet(text))
    BY <2>1, PatchHeld
  <2>3. /\ UNCHANGED payload /\ stage' \in {"patch", "judge"}
        /\ Tools!Unmistaken(text) => IF stage' = "patch" THEN PatchIsRead(text)' ELSE Tools!PatchIsCovered(text)'
    <3>1. PICK t : t = text
      OBVIOUS
    <3>2. t \in Seq(Tools!ToSet(t)) /\ (Tools!Unmistaken(t) => PatchIsRead(t))
      BY <2>1, <2>2, <3>1
    <3> HIDE DEF text
    <3>3. UNCHANGED payload /\ stage' \in {"patch", "judge"}
      BY <1>2, PatchGoesOn
    <3>4. PatchIsRead(t) => IF stage' = "patch" THEN PatchIsRead(t)' ELSE Tools!PatchIsCovered(t)'
      BY <1>2, <3>2, PatchStep DEF Tools!PatchIsCovered
    <3>5. text' = t
      BY <3>1, <3>3 DEF text
    <3>6. /\ (stage' = "patch" => PatchIsRead(t)') => (stage' = "patch" => PatchIsRead(text)')
          /\ (stage' = "judge" => Tools!PatchIsCovered(t)') => (stage' = "judge" => Tools!PatchIsCovered(text)')
      BY <3>5 DEF PatchIsRead, Tools!PatchIsCovered
    <3>7. Tools!Unmistaken(text) => PatchIsRead(t)
      BY <3>1, <3>2
    <3> QED  BY <3>3, <3>4, <3>6, <3>7
  <2>4. /\ payload' = payload /\ (Tools!Tool(payload))' = "apply_patch"
        /\ Tools!Unmistaken(payload.input.command)' <=> Tools!Unmistaken(text)
    BY <2>1, <2>3 DEF Tools!Tool
  <2>5. CASE stage' = "patch"
    BY <2>3, <2>4, <2>5 DEF SeenInv, Tools!CallsAreJudged
  <2>6. CASE stage' = "judge"
    <3>1. Tools!CallsAreJudged'
      BY <2>3, <2>4, <2>6, ToolsAre DEF Tools!CallsAreJudged
    <3> QED  BY <2>6, <3>1 DEF SeenInv
  <2> QED  BY <2>3, <2>5, <2>6
<1>3. CASE Tools!Judge \/ Tools!Render \/ Tools!Act
  <2>1. /\ stage \in {"judge", "render", "act"} /\ stage' \in {"render", "act", "done"}
        /\ UNCHANGED <<payload, source>>
    BY <1>3 DEF Tools!Judge, Tools!Render, Tools!Act
  <2>2. Tools!CallsAreJudged'
    BY <2>1, JudgedStays DEF SeenInv
  <2> QED  BY <2>1, <2>2 DEF SeenInv
<1>4. Tools!Admit \/ stage = "patch" \/ Tools!Judge \/ Tools!Render \/ Tools!Act
  BY DEF Tools!PayloadNext, Tools!BeginMarker, Tools!EndOfPatch, Tools!Skip, Tools!FileHeader,
         Tools!MoveHeader, Tools!ContentLine, Tools!Reading
<1> QED  BY <1>1, <1>2, <1>3, <1>4

(* What is known of a call does not depend on the other readers.           *)
LEMMA SeenRest ==
    ASSUME SeenInv, UNCHANGED callsVars
    PROVE  SeenInv'
<1>1. UNCHANGED <<payload, stage, unread, begun, current, files, source>>
  BY DEF callsVars
<1>2. Tools!CallsAreJudged'
  BY <1>1, JudgedStays DEF SeenInv
<1>3. PatchIsRead(payload.input.command) => PatchIsRead(payload.input.command)'
  BY <1>1 DEF PatchIsRead, Tools!Flushed
<1> QED  BY <1>1, <1>2, <1>3 DEF SeenInv

(* Every reachable state satisfies SeenInv.                                *)
LEMMA SeenInvariant == ReadingSpec => []SeenInv
<1>1. ReadingInit => SeenInv
  BY DEF ReadingInit, Tools!PayloadInit, SeenInv, Tools!CallsAreJudged, Tools!NoFile
<1>2. CallsInv /\ SeenInv /\ [ReadingNext]_readingVars => SeenInv'
  <2> SUFFICES ASSUME CallsInv, SeenInv, [ReadingNext]_readingVars PROVE SeenInv'
    OBVIOUS
  <2>1. CASE UNCHANGED readingVars
    BY <2>1, SeenRest DEF readingVars
  <2>2. CASE UNCHANGED callsVars
    BY <2>2, SeenRest
  <2>3. CASE part = "calls" /\ Tools!PayloadNext
    BY <2>3, SeenKeep
  <2> QED  BY <2>1, <2>2, <2>3 DEF ReadingNext
<1> QED  BY <1>1, <1>2, CallsInvariant, PTL DEF ReadingSpec

(* For any payloads: a well-formed call of a known tool reaches the engine *)
(* with the text its tool acts with and the path it names, and a patch of  *)
(* any length, with one begin marker and no kept line that spells a marker,*)
(* as the files that its headers and moves name between its markers, each  *)
(* with the lines it adds before the next, in their order (engine.rs,      *)
(* normalize_apply_patch; adapter.rs).                                     *)
THEOREM CallsJudged == ReadingSpec => []CallsAreJudged
<1>1. SeenInv => CallsAreJudged
  BY DEF SeenInv, CallsAreJudged
<1> QED  BY <1>1, SeenInvariant, PTL
=============================================================================
