------------------------- MODULE PackReleasesProofs -------------------------
(***************************************************************************)
(* Proofs about the commands around a release, for any releases, override  *)
(* files, days, processes, sizes and numbers of steps: a hook honours an   *)
(* exemption only on a grant for its repository, release and day; a run of *)
(* releases that nobody had to justify loses no protection; and the        *)
(* telemetry document says what the saves it descends from have done.      *)
(***************************************************************************)
EXTENDS PackReleases, Integers, Sequences, FiniteSets, FiniteSetTheorems, SequenceTheorems, WellFoundedInduction, TLAPS

-----------------------------------------------------------------------------
(* The life of an override.                                                *)

(* A step of the commands is a step of an override's life or none.         *)
LEMMA OverrideStep ==
    ASSUME [ReleaseNext]_releaseVars
    PROVE  [Overrides!OverridesNext]_overrideVars
BY DEF ReleaseNext, releaseVars, evidenceVars, overrideVars

(* What is in a readable file was granted, on a day and until a day.       *)
FilesAreGranted ==
    /\ today \in Nat
    /\ \A g \in granted : g.justified \in Nat /\ g.expires \in Nat
    /\ \A p \in DOMAIN files : files[p].readable => files[p] \in granted

OverridesInv == FilesAreGranted /\ OverridesAreBound

(* Writing a file keeps the grants.                                        *)
LEMMA PutKeeps ==
    ASSUME FilesAreGranted, NEW place, NEW m, m.readable => m.justified \in Nat /\ m.expires \in Nat,
           Overrides!Put(place, m), today' = today
    PROVE  FilesAreGranted'
<1>1. /\ files' = [p \in DOMAIN files \cup {place} |-> IF p = place THEN m ELSE files[p]]
      /\ granted' = IF m.readable THEN granted \cup {m} ELSE granted
  BY DEF Overrides!Put
<1>2. \A g \in granted' : g.justified \in Nat /\ g.expires \in Nat
  BY <1>1 DEF FilesAreGranted
<1>3. \A p \in DOMAIN files' : files'[p].readable => files'[p] \in granted'
  BY <1>1 DEF FilesAreGranted
<1> QED
  BY <1>2, <1>3 DEF FilesAreGranted

LEMMA ApproveKeeps ==
    ASSUME FilesAreGranted, Overrides!Approve
    PROVE  FilesAreGranted' /\ honoured' = <<>>
<1>1. \E expires \in Expiries : \E ref, checked, place, named :
        Overrides!ApproveAs(ref, expires, checked, place, named)
  BY DEF Overrides!Approve
<1>2. PICK expires \in Expiries : \E ref, checked, place, named :
        Overrides!ApproveAs(ref, expires, checked, place, named)
  BY <1>1
<1>3. PICK ref, checked, place, named : Overrides!ApproveAs(ref, expires, checked, place, named)
  BY <1>2
<1> DEFINE repo == request[1].repo
           id == request[1].id
<1>4. PICK target : Overrides!Put(target, IF ref # Nil THEN Overrides!NewManifest(repo, ref, id, expires)
                                          ELSE Overrides!Unreadable)
  BY <1>3, Zenon DEF Overrides!ApproveAs
<1> HIDE DEF repo, id
<1>5. today' = today /\ honoured' = <<>>
  BY DEF Overrides!Approve
<1> DEFINE m == IF ref # Nil THEN Overrides!NewManifest(repo, ref, id, expires) ELSE Overrides!Unreadable
<1>6. m.readable => m.justified \in Nat /\ m.expires \in Nat
  BY DaysAssumption DEF Overrides!DaysAreNumbers, Overrides!NewManifest, Overrides!Unreadable, FilesAreGranted
<1> HIDE DEF m
<1>7. Overrides!Put(target, m)
  BY <1>4 DEF m
<1> QED
  BY <1>5, <1>6, <1>7, PutKeeps

(* A use that is not refused is bound.                                     *)
LEMMA UseIsBound ==
    ASSUME FilesAreGranted, NEW place \in DOMAIN files, NEW repo, NEW ref, NEW rules,
           Overrides!UseOverride(place, repo, ref, rules)
    PROVE  FilesAreGranted' /\ OverridesAreBound'
<1> DEFINE m == files[place]
           use == [place |-> place, repo |-> repo, ref |-> ref, rules |-> rules, ids |-> Overrides!ToSet(m.ids)]
<1>1. UNCHANGED <<today, pointer, request, files, granted, writes>>
  BY DEF Overrides!UseOverride
<1>2. FilesAreGranted'
  BY <1>1 DEF FilesAreGranted
<1>3. CASE honoured' = <<>>
  BY <1>2, <1>3 DEF OverridesAreBound, Overrides!OverridesAreBound, Overrides!ExemptionsAreGranted,
                    Overrides!HonouredIsListed
<1>4. CASE honoured' # <<>>
  <2>1. /\ honoured' = <<use>>
        /\ place.toml /\ place.dir \in Overrides!NamedOverrides
        /\ m.readable /\ Overrides!Valid(m, repo, ref, rules)
    BY <1>4 DEF Overrides!UseOverride
  <2>2. m \in granted /\ m.justified \in Nat /\ m.expires \in Nat /\ today \in Nat
    BY <2>1 DEF FilesAreGranted
  <2>3. /\ m.repository = repo /\ ref # "latest" /\ m.release_ref = ref
        /\ m.justified <= today /\ Overrides!Freshness(m) = "Fresh"
    BY <2>1 DEF Overrides!Valid, Overrides!ValidMetadata
  <2>4. today < m.expires /\ today \in m.justified..(m.justified + Cadence)
    <3>1. ~(m.expires <= today) /\ ~(today > m.justified + Cadence)
      BY <2>3 DEF Overrides!Freshness
    <3> QED
      BY <2>2, <2>3, <3>1, DaysAssumption DEF Overrides!DaysAreNumbers
  <2>5. ASSUME NEW id \in Overrides!ToSet(m.ids)
        PROVE  /\ Overrides!Cardinality({k \in DOMAIN rules : rules[k].id = id}) = 1
               /\ \E k \in DOMAIN rules : rules[k].id = id /\ rules[k].channel = "deny"
    <3>1. \E r \in Overrides!ToSet(rules) : r.id = id /\ r.channel = "deny"
      BY <2>1 DEF Overrides!Valid
    <3>2. PICK k \in DOMAIN rules : rules[k].id = id /\ rules[k].channel = "deny"
      BY <3>1 DEF Overrides!ToSet
    <3>3. \A i, j \in DOMAIN rules : rules[i].id = rules[j].id => i = j
      BY <2>1 DEF Overrides!Valid, Overrides!IsInjective
    <3>4. {i \in DOMAIN rules : rules[i].id = id} = {k}
      BY <3>2, <3>3
    <3>5. Overrides!Cardinality({k}) = 1
      <4>1. Overrides!Cardinality({k}) = Cardinality({k})
        BY DEF Overrides!Cardinality, Cardinality
      <4> QED
        BY <4>1, FS_Singleton
    <3> QED
      BY <3>2, <3>4, <3>5
  <2>6. Overrides!ExemptionsAreGranted'
    BY <1>1, <2>1, <2>2, <2>3, <2>4, <2>5 DEF Overrides!ExemptionsAreGranted
  <2>7. place \in Overrides!Listed(place.dir)
    BY <2>1, <2>3 DEF Overrides!Listed
  <2>8. Overrides!HonouredIsListed'
    BY <1>1, <2>1, <2>7 DEF Overrides!HonouredIsListed, Overrides!Listed, Overrides!Freshness
  <2> QED
    BY <1>2, <2>6, <2>8 DEF OverridesAreBound, Overrides!OverridesAreBound
<1> QED
  BY <1>3, <1>4

LEMMA OverridesKeep == OverridesInv /\ [Overrides!OverridesNext]_overrideVars => OverridesInv'
<1> SUFFICES ASSUME OverridesInv, [Overrides!OverridesNext]_overrideVars PROVE OverridesInv'
  OBVIOUS
<1>0. honoured' = <<>> => OverridesAreBound'
  BY DEF OverridesAreBound, Overrides!OverridesAreBound, Overrides!ExemptionsAreGranted,
         Overrides!HonouredIsListed
<1>1. ASSUME NEW repo, NEW id, Overrides!CreateRequest(repo, id) PROVE OverridesInv'
  BY <1>0, <1>1 DEF Overrides!CreateRequest, OverridesInv, FilesAreGranted
<1>2. CASE Overrides!Approve
  BY <1>0, <1>2, ApproveKeeps DEF OverridesInv
<1>3. ASSUME NEW place, NEW m \in HandWritten, Overrides!EditFile(place, m) PROVE OverridesInv'
  <2>1. Overrides!Put(place, m) /\ today' = today /\ honoured' = <<>>
    BY <1>3 DEF Overrides!EditFile
  <2>2. FilesAreGranted'
    BY <2>1, PutKeeps, DaysAssumption DEF OverridesInv, Overrides!DaysAreNumbers
  <2> QED
    BY <1>0, <2>1, <2>2 DEF OverridesInv
<1>4. ASSUME NEW place \in DOMAIN files, NEW repo, NEW ref, NEW rules,
             Overrides!UseOverride(place, repo, ref, rules)
      PROVE  OverridesInv'
  BY <1>4, UseIsBound DEF OverridesInv
<1>5. CASE Overrides!DayPasses
  BY <1>0, <1>5 DEF Overrides!DayPasses, OverridesInv, FilesAreGranted
<1>6. ASSUME NEW ref, Overrides!Adopt(ref) PROVE OverridesInv'
  BY <1>0, <1>6 DEF Overrides!Adopt, OverridesInv, FilesAreGranted
<1>7. CASE UNCHANGED overrideVars
  <2>1. /\ today' = today /\ files' = files /\ granted' = granted /\ honoured' = honoured
    BY <1>7 DEF overrideVars
  <2>2. FilesAreGranted'
    BY <2>1 DEF OverridesInv, FilesAreGranted
  <2>3. Overrides!ExemptionsAreGranted'
    BY <2>1 DEF OverridesInv, OverridesAreBound, Overrides!OverridesAreBound, Overrides!ExemptionsAreGranted
  <2>4. Overrides!HonouredIsListed'
    BY <2>1 DEF OverridesInv, OverridesAreBound, Overrides!OverridesAreBound,
                Overrides!HonouredIsListed, Overrides!Listed, Overrides!Freshness
  <2> QED
    BY <2>2, <2>3, <2>4 DEF OverridesInv, OverridesAreBound, Overrides!OverridesAreBound
<1> QED
  BY <1>1, <1>2, <1>3, <1>4, <1>5, <1>6, <1>7 DEF Overrides!OverridesNext

(* For any repositories, releases, rules and days, any files written by    *)
(* hand and any number of writes: a hook exempts a rule only on a grant    *)
(* that is its own and in force, and the operator's list shows it          *)
(* (overrides.rs, load_verified_override).                                 *)
THEOREM OverridesBound == ReleaseSpec => []OverridesAreBound
<1>1. ReleaseInit => OverridesInv
  BY DEF ReleaseInit, Overrides!OverridesInit, OverridesInv, FilesAreGranted, OverridesAreBound,
         Overrides!OverridesAreBound, Overrides!ExemptionsAreGranted, Overrides!HonouredIsListed
<1>2. OverridesInv /\ [ReleaseNext]_releaseVars => OverridesInv'
  BY OverrideStep, OverridesKeep
<1>3. OverridesInv => OverridesAreBound
  BY DEF OverridesInv
<1> QED
  BY <1>1, <1>2, <1>3, PTL DEF ReleaseSpec

-----------------------------------------------------------------------------
(* The gate of the releases.                                               *)

LEMMA GateStep ==
    ASSUME [ReleaseNext]_releaseVars
    PROVE  [Gates!GatesNext]_gatesVars
BY DEF ReleaseNext, releaseVars, evidenceVars, gatesVars

(* What can be published: a release, and one whose override has aged.      *)
Aged(r) ==
    [guarded |-> r.guarded, safe |-> r.safe,
     override |-> {[rules |-> o.rules, fresh |-> FALSE] : o \in r.override}]
Published == Releases \cup {Aged(r) : r \in Releases} \cup {NoRelease}

ChainIsPublished == chain \in Seq(Published) /\ chain # <<>>

GatesInv == ChainIsPublished /\ WeakeningIsReported

(* The counts of a text are numbers.                                       *)
LEMMA CountsAreNumbers ==
    ASSUME NEW check, Gates!IsFiniteSet(DOMAIN check)
    PROVE  Gates!Brackets(check) \in Nat /\ Gates!Anchors(check) \in Nat
<1>1. IsFiniteSet(DOMAIN check)
  BY DEF Gates!IsFiniteSet, IsFiniteSet
<1>2. \A S : Gates!Cardinality(S) = Cardinality(S)
  BY DEF Gates!Cardinality, Cardinality
<1>3. ASSUME NEW S \in SUBSET DOMAIN check PROVE Gates!Cardinality(S) \in Nat
  BY <1>1, <1>2, <1>3, FS_Subset, FS_CardinalityType
<1>4. Gates!Brackets(check) \in Nat
  <2> DEFINE S == {i \in DOMAIN check : check[i] \in Gates!Classes}
  <2>1. S \in SUBSET DOMAIN check
    OBVIOUS
  <2> QED
    BY <1>3, <2>1 DEF Gates!Brackets
<1>5. Gates!Anchors(check) \in Nat
  <2> DEFINE S == Gates!Places(check, "^") \cup Gates!Places(check, "$")
  <2>1. S \in SUBSET DOMAIN check
    BY DEF Gates!Places
  <2> QED
    BY <1>3, <2>1 DEF Gates!Anchors
<1> QED
  BY <1>4, <1>5

(* What is published is well formed.                                       *)
LEMMA PublishedIsWellFormed ==
    ASSUME NEW r \in Published
    PROVE  /\ \A id \in DOMAIN r.guarded : /\ Gates!Brackets(r.guarded[id].check) \in Nat
                                           /\ Gates!Anchors(r.guarded[id].check) \in Nat
           /\ \A o \in r.override :
                o.fresh => r \in Releases
<1>1. CASE r \in Releases
  BY <1>1, CountsAreNumbers, ReleasesAssumption DEF Gates!ReleasesAreWellFormed
<1>2. ASSUME NEW s \in Releases, r = Aged(s) PROVE r.guarded = s.guarded /\ \A o \in r.override : ~o.fresh
  BY <1>2 DEF Aged
<1>3. ASSUME NEW s \in Releases, r = Aged(s)
      PROVE  \A id \in DOMAIN r.guarded : /\ Gates!Brackets(r.guarded[id].check) \in Nat
                                          /\ Gates!Anchors(r.guarded[id].check) \in Nat
  BY <1>2, <1>3, CountsAreNumbers, ReleasesAssumption DEF Gates!ReleasesAreWellFormed
<1>4. CASE r = NoRelease
  BY <1>4 DEF NoRelease
<1> QED
  BY <1>1, <1>2, <1>3, <1>4 DEF Published

(* One release loses nothing of another: what the gate compares.           *)
GuardKept(first, last) ==
    /\ Gates!HasWildcard(first.check) => Gates!HasWildcard(last.check)
    /\ Gates!Brackets(last.check) <= Gates!Brackets(first.check)
    /\ Gates!Anchors(last.check) <= Gates!Anchors(first.check)
SafeKept(first, last) == Gates!HasWildcard(last) => Gates!HasWildcard(first)

(* The gate lets nothing go unjustified.                                   *)
LEMMA GateLosesNothing ==
    ASSUME NEW previous \in Published, NEW current \in Published,
           ~Gates!RulesRegress(previous, current), Gates!NewlyExempted(previous, current) = {}
    PROVE  /\ Gates!Protects(previous) \subseteq Gates!Protects(current)
           /\ \A id \in DOMAIN previous.guarded \cap DOMAIN current.guarded :
                previous.guarded[id].destructive /\ current.guarded[id].destructive =>
                    GuardKept(previous.guarded[id], current.guarded[id])
           /\ \A id \in DOMAIN previous.safe \cap DOMAIN current.safe :
                SafeKept(previous.safe[id], current.safe[id])
<1>1. /\ DOMAIN previous.guarded \subseteq DOMAIN current.guarded
      /\ \A id \in DOMAIN previous.guarded :
           previous.guarded[id].enabled => current.guarded[id].enabled
  BY DEF Gates!RulesRegress, Gates!Removed, Gates!Disabled, Gates!Both
<1>2. Gates!Exempt(current) \subseteq Gates!Exempt(previous)
  BY DEF Gates!NewlyExempted
<1>3. Gates!Protects(previous) \subseteq Gates!Protects(current)
  BY <1>1, <1>2 DEF Gates!Protects
<1>4. ASSUME NEW id \in DOMAIN previous.guarded \cap DOMAIN current.guarded,
             previous.guarded[id].destructive, current.guarded[id].destructive
      PROVE  GuardKept(previous.guarded[id], current.guarded[id])
  <2>1. ~Gates!IsPatternNarrowed(previous.guarded[id].check, current.guarded[id].check)
    BY <1>4 DEF Gates!RulesRegress, Gates!Narrowed, Gates!Both
  <2>2. /\ ~(Gates!HasWildcard(previous.guarded[id].check) /\ ~Gates!HasWildcard(current.guarded[id].check))
        /\ ~(Gates!Brackets(current.guarded[id].check) > Gates!Brackets(previous.guarded[id].check))
        /\ ~(Gates!Anchors(current.guarded[id].check) > Gates!Anchors(previous.guarded[id].check))
    BY <2>1 DEF Gates!IsPatternNarrowed
  <2> QED
    BY <2>2, PublishedIsWellFormed DEF GuardKept
<1>5. ASSUME NEW id \in DOMAIN previous.safe \cap DOMAIN current.safe
      PROVE  SafeKept(previous.safe[id], current.safe[id])
  <2>1. ~Gates!IsPatternWidened(previous.safe[id], current.safe[id])
    BY <1>5 DEF Gates!RulesRegress, Gates!Widened, Gates!Both
  <2> QED
    BY <2>1 DEF Gates!IsPatternWidened, SafeKept
<1> QED
  BY <1>3, <1>4, <1>5

(* What a run keeps from its i-th release to its j-th one, by places.      *)
KeptFromTo(c, i, j) ==
    /\ Gates!Protects(c[i]) \subseteq Gates!Protects(c[j])
    /\ \A id \in DOMAIN c[i].guarded :
         (\A k \in i..j : id \in DOMAIN c[k].guarded /\ c[k].guarded[id].destructive) =>
             GuardKept(c[i].guarded[id], c[j].guarded[id])
    /\ \A id \in DOMAIN c[i].safe :
         (\A k \in i..j : id \in DOMAIN c[k].safe) => SafeKept(c[i].safe[id], c[j].safe[id])

RunKeeps(c) == \A j \in DOMAIN c : \A i \in 1..j : KeptFromTo(c, i, j)

LEMMA RunIsKept == RunKeeps(chain) <=> Gates!NothingIsLostUnjustified
BY DEF RunKeeps, KeptFromTo, GuardKept, SafeKept, Gates!NothingIsLostUnjustified, Gates!Between

LEMMA NextRunIsKept == RunKeeps(chain') <=> Gates!NothingIsLostUnjustified'
BY DEF RunKeeps, KeptFromTo, GuardKept, SafeKept, Gates!NothingIsLostUnjustified, Gates!Between

(* A run of one release keeps everything.                                  *)
LEMMA OneIsKept ==
    ASSUME NEW c \in Seq(Published), NEW i \in DOMAIN c
    PROVE  KeptFromTo(c, i, i)
<1>1. c[i] \in Published
  OBVIOUS
<1>2. \A id \in DOMAIN c[i].guarded : GuardKept(c[i].guarded[id], c[i].guarded[id])
  <2> TAKE id \in DOMAIN c[i].guarded
  <2>1. Gates!Brackets(c[i].guarded[id].check) \in Nat /\ Gates!Anchors(c[i].guarded[id].check) \in Nat
    BY <1>1, PublishedIsWellFormed
  <2> QED
    BY <2>1 DEF GuardKept
<1> QED
  BY <1>2 DEF KeptFromTo, SafeKept

(* What is let through without a justification prolongs the run.           *)
LEMMA RunGrows ==
    ASSUME NEW c \in Seq(Published), c # <<>>, NEW candidate \in Published, RunKeeps(c),
           ~Gates!RulesRegress(c[Len(c)], candidate),
           Gates!NewlyExempted(c[Len(c)], candidate) = {}
    PROVE  RunKeeps(Append(c, candidate))
<1> DEFINE n == Len(c)
           d == Append(c, candidate)
<1>1. /\ n \in Nat \ {0} /\ DOMAIN c = 1..n /\ DOMAIN d = 1..(n + 1) /\ d \in Seq(Published)
      /\ d[n + 1] = candidate /\ \A k \in 1..n : d[k] = c[k]
  OBVIOUS
<1> HIDE DEF n, d
<1>2. ASSUME NEW j \in 1..n, NEW i \in 1..j PROVE KeptFromTo(d, i, j)
  <2>1. KeptFromTo(c, i, j)
    BY <1>1 DEF RunKeeps
  <2>2. i \in 1..n /\ i..j \subseteq 1..n
    BY <1>1
  <2>3. d[i] = c[i] /\ d[j] = c[j] /\ \A k \in i..j : d[k] = c[k]
    BY <1>1, <2>2
  <2> QED
    BY <2>1, <2>3 DEF KeptFromTo
<1>3. KeptFromTo(d, n + 1, n + 1)
  BY <1>1, OneIsKept
<1>4. ASSUME NEW i \in 1..n PROVE KeptFromTo(d, i, n + 1)
  <2>0. d[n] \in Published /\ d[n] = c[n] /\ d[i] = c[i] /\ c[i] \in Published
    BY <1>1
  <2>1. KeptFromTo(d, i, n) /\ n \in i..(n + 1) /\ n + 1 \in i..(n + 1) /\ i..n \subseteq i..(n + 1)
    BY <1>1, <1>2
  <2>2. /\ Gates!Protects(d[n]) \subseteq Gates!Protects(candidate)
        /\ \A id \in DOMAIN d[n].guarded \cap DOMAIN candidate.guarded :
             d[n].guarded[id].destructive /\ candidate.guarded[id].destructive =>
                 GuardKept(d[n].guarded[id], candidate.guarded[id])
        /\ \A id \in DOMAIN d[n].safe \cap DOMAIN candidate.safe :
             SafeKept(d[n].safe[id], candidate.safe[id])
    BY <2>0, GateLosesNothing DEF n
  <2>3. Gates!Protects(d[i]) \subseteq Gates!Protects(d[n + 1])
    BY <1>1, <2>1, <2>2 DEF KeptFromTo
  <2>4. ASSUME NEW id \in DOMAIN d[i].guarded,
               \A k \in i..(n + 1) : id \in DOMAIN d[k].guarded /\ d[k].guarded[id].destructive
        PROVE  GuardKept(d[i].guarded[id], d[n + 1].guarded[id])
    <3>1. /\ id \in DOMAIN d[n].guarded /\ d[n].guarded[id].destructive
          /\ id \in DOMAIN candidate.guarded /\ candidate.guarded[id].destructive
      BY <1>1, <2>1, <2>4
    <3>2. GuardKept(d[n].guarded[id], candidate.guarded[id])
      BY <2>2, <3>1
    <3>3. GuardKept(d[i].guarded[id], d[n].guarded[id])
      BY <2>1, <2>4 DEF KeptFromTo
    <3>4. /\ Gates!Brackets(d[i].guarded[id].check) \in Nat
          /\ Gates!Anchors(d[i].guarded[id].check) \in Nat
          /\ Gates!Brackets(d[n].guarded[id].check) \in Nat
          /\ Gates!Anchors(d[n].guarded[id].check) \in Nat
          /\ Gates!Brackets(candidate.guarded[id].check) \in Nat
          /\ Gates!Anchors(candidate.guarded[id].check) \in Nat
      BY <2>0, <2>4, <3>1, PublishedIsWellFormed
    <3> QED
      BY <1>1, <3>2, <3>3, <3>4 DEF GuardKept
  <2>5. ASSUME NEW id \in DOMAIN d[i].safe, \A k \in i..(n + 1) : id \in DOMAIN d[k].safe
        PROVE  SafeKept(d[i].safe[id], d[n + 1].safe[id])
    <3>1. id \in DOMAIN d[n].safe /\ id \in DOMAIN candidate.safe
      BY <1>1, <2>1, <2>5
    <3>2. SafeKept(d[n].safe[id], candidate.safe[id])
      BY <2>2, <3>1
    <3>3. SafeKept(d[i].safe[id], d[n].safe[id])
      BY <2>1, <2>5 DEF KeptFromTo
    <3> QED
      BY <1>1, <3>2, <3>3 DEF SafeKept
  <2> QED
    BY <2>3, <2>4, <2>5 DEF KeptFromTo
<1>5. ASSUME NEW j \in DOMAIN d, NEW i \in 1..j PROVE KeptFromTo(d, i, j)
  <2>1. CASE j \in 1..n
    BY <1>2, <2>1
  <2>2. CASE j = n + 1 /\ i = n + 1
    BY <1>3, <2>2
  <2>3. CASE j = n + 1 /\ i \in 1..n
    BY <1>4, <2>3
  <2> QED
    BY <1>1, <2>1, <2>2, <2>3
<1> QED
  BY <1>5 DEF RunKeeps, d

(* What a run keeps is a matter of its patterns and exemptions.            *)
LEMMA RunAges ==
    ASSUME NEW c, NEW d, DOMAIN d = DOMAIN c, RunKeeps(c),
           \A j \in DOMAIN c : 1..j \subseteq DOMAIN c,
           \A k \in DOMAIN c : /\ d[k].guarded = c[k].guarded /\ d[k].safe = c[k].safe
                               /\ Gates!Exempt(d[k]) = Gates!Exempt(c[k])
    PROVE  RunKeeps(d)
<1> SUFFICES ASSUME NEW j \in DOMAIN d, NEW i \in 1..j PROVE KeptFromTo(d, i, j)
  BY DEF RunKeeps
<1>1. KeptFromTo(c, i, j)
  BY DEF RunKeeps
<1>2. i \in DOMAIN c /\ i..j \subseteq DOMAIN c
  <2>1. 1..j \subseteq DOMAIN c
    OBVIOUS
  <2>2. i..j \subseteq 1..j
    OBVIOUS
  <2> QED
    BY <2>1, <2>2
<1>3. Gates!Protects(d[i]) = Gates!Protects(c[i]) /\ Gates!Protects(d[j]) = Gates!Protects(c[j])
  BY <1>2 DEF Gates!Protects
<1> QED
  BY <1>1, <1>2, <1>3 DEF KeptFromTo

(* The report asks for what the gate asks for.                             *)
ReportFits(outcome, report) ==
    /\ outcome = "blocked" <=> report.justification = "REQUIRED"
    /\ report.status = "no_regressions" <=> report.action = "none"
    /\ report.justification = "not required" => report.status = "no_regressions"
    /\ report.justification = "REQUIRED" => report.action = "justify"

LEMMA RulesReportFits ==
    ASSUME NEW regress \in BOOLEAN, NEW justification
    PROVE  ReportFits(Gates!Outcome(regress, justification), Gates!RulesReport(regress, justification))
BY DEF ReportFits, Gates!Outcome, Gates!RulesReport, Gates!Explicit

LEMMA IntegrityReportFits ==
    ASSUME NEW regress \in BOOLEAN, NEW exempts \in BOOLEAN, NEW justification
    PROVE  ReportFits(Gates!Outcome(regress \/ exempts, justification),
                      Gates!IntegrityReport(regress, exempts, justification))
<1>1. CASE ~exempts
  <2>1. Gates!IntegrityReport(regress, exempts, justification) = Gates!RulesReport(regress, justification)
    BY <1>1 DEF Gates!IntegrityReport
  <2>2. (regress \/ exempts) = regress
    BY <1>1
  <2> QED
    BY <2>1, <2>2, RulesReportFits
<1>2. CASE exempts /\ regress
  BY <1>2 DEF ReportFits, Gates!Outcome, Gates!RulesReport, Gates!IntegrityReport, Gates!Explicit
<1>3. CASE exempts /\ ~regress
  BY <1>3 DEF ReportFits, Gates!Outcome, Gates!RulesReport, Gates!IntegrityReport, Gates!Explicit
<1> QED
  BY <1>1, <1>2, <1>3

(* What a run of the gate comes to.                                        *)
LEMMA GateRuns ==
    ASSUME NEW candidate, NEW justification, Gates!RunGate(candidate, justification)
    PROVE  /\ gate'.outcome \in {"blocked", "passed"} => ReportFits(gate'.outcome, gate'.report)
           /\ gate'.outcome = "passed" /\ justification # "given" =>
                /\ ~Gates!RulesRegress(chain[Len(chain)], candidate)
                /\ Gates!NewlyExempted(chain[Len(chain)], candidate) = {}
<1> DEFINE previous == chain[Len(chain)]
           rules == Gates!RulesRegress(previous, candidate)
           withOverride == previous.override \cup candidate.override # {}
           exempts == withOverride /\ Gates!NewlyExempted(previous, candidate) # {}
<1>1. gate' = IF withOverride /\ ~(Gates!OverrideIsValid(previous) /\ Gates!OverrideIsValid(candidate))
              THEN [outcome |-> "error", report |-> Gates!NoReport]
              ELSE [outcome |-> Gates!Outcome(rules \/ exempts, justification),
                    report |-> IF withOverride THEN Gates!IntegrityReport(rules, exempts, justification)
                               ELSE Gates!RulesReport(rules, justification)]
  BY DEF Gates!RunGate
<1>2. rules \in BOOLEAN /\ withOverride \in BOOLEAN /\ exempts \in BOOLEAN
  BY DEF Gates!RulesRegress
<1>3. ~withOverride => ~exempts /\ Gates!NewlyExempted(previous, candidate) = {}
  BY DEF Gates!NewlyExempted, Gates!Exempt
<1>4. exempts <=> Gates!NewlyExempted(previous, candidate) # {}
  BY <1>3
<1> HIDE DEF previous, rules, withOverride, exempts
<1>5. CASE gate' = [outcome |-> "error", report |-> Gates!NoReport]
  BY <1>5
<1>6. CASE /\ gate'.outcome = Gates!Outcome(rules \/ exempts, justification)
           /\ gate'.report = IF withOverride THEN Gates!IntegrityReport(rules, exempts, justification)
                             ELSE Gates!RulesReport(rules, justification)
  <2>1. ReportFits(gate'.outcome, gate'.report)
    <3>1. CASE withOverride
      BY <1>2, <1>6, <3>1, IntegrityReportFits
    <3>2. CASE ~withOverride
      <4>1. (rules \/ exempts) = rules
        BY <1>2, <1>3, <3>2
      <4> QED
        BY <1>2, <1>6, <3>2, <4>1, RulesReportFits
    <3> QED
      BY <3>1, <3>2
  <2>2. gate'.outcome = "passed" /\ justification # "given" => ~rules /\ ~exempts
    BY <1>2, <1>6 DEF Gates!Outcome, Gates!Explicit
  <2> QED
    BY <1>4, <2>1, <2>2 DEF rules, previous
<1> QED
  BY <1>1, <1>5, <1>6

(* A release is proposed.                                                  *)
LEMMA ProposeKeeps ==
    ASSUME GatesInv, Gates!Propose
    PROVE  GatesInv'
<1>1. PICK candidate \in Releases, justification \in {"none", "blank", "given"} :
        /\ Gates!RunGate(candidate, justification)
        /\ chain' = IF gate'.outcome # "passed" THEN chain
                    ELSE IF justification = "given" THEN <<candidate>>
                    ELSE Append(chain, candidate)
  BY DEF Gates!Propose
<1>2. Gates!ReportMatchesGate'
  BY <1>1, GateRuns DEF Gates!ReportMatchesGate, ReportFits
<1>3. candidate \in Published /\ chain \in Seq(Published) /\ chain # <<>> /\ RunKeeps(chain)
  BY RunIsKept DEF Published, GatesInv, ChainIsPublished, WeakeningIsReported, Gates!WeakeningIsReported
<1>4. chain' \in Seq(Published) /\ chain' # <<>> /\ RunKeeps(chain')
  <2>1. CASE gate'.outcome # "passed"
    BY <1>1, <1>3, <2>1
  <2>2. CASE chain' = <<candidate>>
    <3>1. <<candidate>> \in Seq(Published) /\ DOMAIN <<candidate>> = {1}
      BY <1>3
    <3>2. KeptFromTo(<<candidate>>, 1, 1)
      BY <3>1, OneIsKept
    <3>3. \A j \in DOMAIN <<candidate>> : \A i \in 1..j : i = 1 /\ j = 1
      BY <3>1
    <3> QED
      BY <2>2, <3>1, <3>2, <3>3 DEF RunKeeps
  <2>3. CASE gate'.outcome = "passed" /\ justification # "given"
    <3>1. /\ ~Gates!RulesRegress(chain[Len(chain)], candidate)
          /\ Gates!NewlyExempted(chain[Len(chain)], candidate) = {}
      BY <1>1, <2>3, GateRuns
    <3>2. RunKeeps(Append(chain, candidate))
      BY <1>3, <3>1, RunGrows
    <3> QED
      BY <1>1, <1>3, <2>3, <3>2
  <2> QED
    BY <1>1, <2>1, <2>2, <2>3
<1> QED
  BY <1>2, <1>4, NextRunIsKept
     DEF GatesInv, ChainIsPublished, WeakeningIsReported, Gates!WeakeningIsReported

(* The override of the last release grows old.                             *)
LEMMA TimePassesKeeps ==
    ASSUME GatesInv, Gates!TimePasses
    PROVE  GatesInv'
<1> DEFINE n == Len(chain)
<1>1. PICK o \in chain[n].override :
        /\ o.fresh
        /\ chain' = [chain EXCEPT ![n].override = {[o EXCEPT !.fresh = FALSE]}]
  BY DEF Gates!TimePasses
<1>2. gate' = [outcome |-> "none", report |-> Gates!NoReport]
  BY DEF Gates!TimePasses
<1>3. /\ chain \in Seq(Published) /\ chain # <<>> /\ RunKeeps(chain)
      /\ n \in Nat \ {0} /\ DOMAIN chain = 1..n /\ chain[n] \in Published
  BY RunIsKept DEF GatesInv, ChainIsPublished, WeakeningIsReported, Gates!WeakeningIsReported
<1> DEFINE old == chain[n]
           fresh == {[o EXCEPT !.fresh = FALSE]}
           new == [old EXCEPT !.override = fresh]
<1>4. chain' = [chain EXCEPT ![n] = new]
  BY <1>1
<1>5. old \in Releases
  BY <1>1, <1>3, PublishedIsWellFormed
<1>6. /\ old = [guarded |-> old.guarded, safe |-> old.safe, override |-> old.override]
      /\ old.override = {o} /\ o = [rules |-> o.rules, fresh |-> o.fresh]
  BY <1>1, <1>5, ReleasesAssumption DEF Gates!ReleasesAreWellFormed
<1>7. fresh = {[rules |-> o.rules, fresh |-> FALSE]}
  <2>1. [o EXCEPT !.fresh = FALSE] = [rules |-> o.rules, fresh |-> FALSE]
    <3> DEFINE rules == o.rules
               was == o.fresh
               aged == FALSE
    <3>1. o = [rules |-> rules, fresh |-> was]
      BY <1>6
    <3> HIDE DEF rules, was, aged
    <3>2. [o EXCEPT !.fresh = aged] = [rules |-> rules, fresh |-> aged]
      BY <3>1
    <3> QED
      BY <3>2 DEF rules, aged
  <2> QED
    BY <2>1
<1>8. new = [guarded |-> old.guarded, safe |-> old.safe, override |-> fresh]
  <2> DEFINE g == old.guarded
             f == old.safe
             v == old.override
  <2>1. old = [guarded |-> g, safe |-> f, override |-> v]
    BY <1>6
  <2> HIDE DEF old, fresh, g, f, v
  <2>2. new = [guarded |-> g, safe |-> f, override |-> fresh]
    BY <2>1
  <2> QED
    BY <2>2 DEF g, f
<1> HIDE DEF n, old, new, fresh
<1>9. /\ new \in Published /\ new.guarded = old.guarded /\ new.safe = old.safe
      /\ Gates!Exempt(new) = Gates!Exempt(old)
  <2>1. {[rules |-> p.rules, fresh |-> FALSE] : p \in old.override} = fresh
    BY <1>6, <1>7
  <2>2. new = Aged(old)
    BY <1>8, <2>1 DEF Aged
  <2>3. new \in Published /\ new.guarded = old.guarded /\ new.safe = old.safe
    BY <1>5, <1>8, <2>2 DEF Published
  <2>4. new.override = {[rules |-> o.rules, fresh |-> FALSE]}
    BY <1>8, <1>7
  <2>5. Gates!Exempt(new) = o.rules
    BY <2>4 DEF Gates!Exempt
  <2>6. Gates!Exempt(old) = o.rules
    BY <1>6 DEF Gates!Exempt
  <2> QED
    BY <2>3, <2>5, <2>6
<1>10. chain' \in Seq(Published) /\ chain' # <<>> /\ RunKeeps(chain')
  <2>1. /\ chain' \in Seq(Published) /\ DOMAIN chain' = DOMAIN chain /\ chain' # <<>>
        /\ \A k \in DOMAIN chain : chain'[k] = IF k = n THEN new ELSE chain[k]
    BY <1>3, <1>9, <1>4
  <2>2. \A k \in DOMAIN chain : /\ chain'[k].guarded = chain[k].guarded /\ chain'[k].safe = chain[k].safe
                                /\ Gates!Exempt(chain'[k]) = Gates!Exempt(chain[k])
    BY <1>9, <2>1 DEF old
  <2>3. \A j \in DOMAIN chain : 1..j \subseteq DOMAIN chain
    BY <1>3
  <2> QED
    BY <1>3, <2>1, <2>2, <2>3, RunAges
<1>11. Gates!ReportMatchesGate'
  BY <1>2 DEF Gates!ReportMatchesGate
<1> QED
  BY <1>10, <1>11, NextRunIsKept
     DEF GatesInv, ChainIsPublished, WeakeningIsReported, Gates!WeakeningIsReported

LEMMA GatesKeep == GatesInv /\ [Gates!GatesNext]_gatesVars => GatesInv'
<1> SUFFICES ASSUME GatesInv, [Gates!GatesNext]_gatesVars PROVE GatesInv'
  OBVIOUS
<1>1. CASE Gates!Propose
  BY <1>1, ProposeKeeps
<1>2. CASE Gates!TimePasses
  BY <1>2, TimePassesKeeps
<1>3. CASE UNCHANGED gatesVars
  <2>1. chain' = chain /\ gate' = gate
    BY <1>3 DEF gatesVars
  <2>2. chain' \in Seq(Published) /\ chain' # <<>> /\ RunKeeps(chain')
    BY <2>1, RunIsKept DEF GatesInv, ChainIsPublished, WeakeningIsReported, Gates!WeakeningIsReported
  <2>3. Gates!ReportMatchesGate'
    BY <2>1 DEF GatesInv, WeakeningIsReported, Gates!WeakeningIsReported, Gates!ReportMatchesGate
  <2> QED
    BY <2>2, <2>3, NextRunIsKept DEF GatesInv, ChainIsPublished, WeakeningIsReported, Gates!WeakeningIsReported
<1> QED
  BY <1>1, <1>2, <1>3 DEF Gates!GatesNext

(* For any releases and any number of them: over a run of releases that    *)
(* nobody had to justify no rule is lost, weakened or newly exempted, and  *)
(* the report asks for a justification exactly when the gate does          *)
(* (coverage.rs, main.rs CoverageDiff).                                    *)
THEOREM WeakeningReported == ReleaseSpec => []WeakeningIsReported
<1>1. ReleaseInit => GatesInv
  <2> SUFFICES ASSUME ReleaseInit PROVE GatesInv
    OBVIOUS
  <2>1. PICK release \in Published : chain = <<release>>
    BY DEF ReleaseInit, Gates!GatesInit, Published
  <2>2. gate = [outcome |-> "none", report |-> Gates!NoReport]
    BY DEF ReleaseInit, Gates!GatesInit
  <2>3. chain \in Seq(Published) /\ chain # <<>> /\ DOMAIN chain = {1}
    BY <2>1
  <2>4. RunKeeps(chain)
    <3>1. KeptFromTo(chain, 1, 1)
      BY <2>3, OneIsKept
    <3>2. \A j \in DOMAIN chain : \A i \in 1..j : i = 1 /\ j = 1
      BY <2>3
    <3> QED
      BY <3>1, <3>2 DEF RunKeeps
  <2>5. Gates!ReportMatchesGate
    BY <2>2 DEF Gates!ReportMatchesGate
  <2> QED
    BY <2>3, <2>4, <2>5, RunIsKept
       DEF GatesInv, ChainIsPublished, WeakeningIsReported, Gates!WeakeningIsReported
<1>2. GatesInv /\ [ReleaseNext]_releaseVars => GatesInv'
  BY GateStep, GatesKeep
<1>3. GatesInv => WeakeningIsReported
  BY DEF GatesInv
<1> QED
  BY <1>1, <1>2, <1>3, PTL DEF ReleaseSpec

-----------------------------------------------------------------------------
(* The telemetry document.                                                 *)

(* A step of the commands is a step of the telemetry or none.              *)
LEMMA TelemetryStep ==
    ASSUME [ReleaseNext]_releaseVars
    PROVE  [Telemetry!TelemetryNext]_telemetryVars
BY DEF ReleaseNext, releaseVars, evidenceVars, telemetryVars

(* Sets of numbers have a least and, if bounded, a greatest element.       *)
LEMMA LeastIs ==
    ASSUME NEW S \in SUBSET Nat, S # {}
    PROVE  Telemetry!Min(S) \in S /\ \A m \in S : Telemetry!Min(S) <= m
<1>1. IsWellFoundedOn(OpToRel(<, Nat), Nat)
  BY NatLessThanWellFounded
<1>2. PICK n \in S : \A m \in S : ~ (<<m, n>> \in OpToRel(<, Nat))
  BY <1>1, WFMin
<1>3. \A m \in S : ~ (m < n)
  BY <1>2 DEF OpToRel
<1>4. \A m \in S : n <= m
  BY <1>3
<1> QED
  BY <1>4 DEF Telemetry!Min

(* A lower bound in a set is its least element.                            *)
LEMMA MinIs ==
    ASSUME NEW S \in SUBSET Nat, NEW n \in S, \A m \in S : n <= m
    PROVE  Telemetry!Min(S) = n
<1> DEFINE least == Telemetry!Min(S)
<1>1. least \in S /\ \A m \in S : least <= m
  BY LeastIs
<1> HIDE DEF least
<1>2. least \in Nat /\ n \in Nat /\ least <= n /\ n <= least
  BY <1>1
<1>3. least = n
  BY <1>2
<1> QED
  BY <1>3 DEF least

(* The greatest element of a bounded set of numbers.                       *)
LEMMA GreatestIs ==
    ASSUME NEW S \in SUBSET Nat, S # {}, NEW b \in Nat, \A m \in S : m <= b
    PROVE  Telemetry!Max(S) \in S /\ \A m \in S : m <= Telemetry!Max(S)
<1> DEFINE bounds == {n \in Nat : \A m \in S : m <= n}
           top == Telemetry!Min(bounds)
<1>1. top \in bounds /\ \A n \in bounds : top <= n
  <2>1. bounds \in SUBSET Nat /\ b \in bounds
    OBVIOUS
  <2> QED
    BY <2>1, LeastIs
<1> HIDE DEF top
<1>2. top \in S
  <2> SUFFICES ASSUME top \notin S PROVE FALSE
    OBVIOUS
  <2>1. \A m \in S : m < top
    BY <1>1
  <2>2. PICK x \in S : TRUE
    OBVIOUS
  <2>3. top \in Nat /\ top # 0
    BY <1>1, <2>1, <2>2
  <2>4. \A m \in S : m <= top - 1
    BY <2>1, <2>3
  <2>5. top - 1 \in bounds
    BY <2>3, <2>4
  <2> QED
    BY <1>1, <2>3, <2>5
<1>3. top \in S /\ \A m \in S : top >= m
  BY <1>1, <1>2
<1> QED
  BY <1>3 DEF Telemetry!Max

(* An upper bound in a set is its greatest element.                        *)
LEMMA MaxIs ==
    ASSUME NEW S \in SUBSET Nat, NEW n \in S, \A m \in S : m <= n
    PROVE  Telemetry!Max(S) = n
<1> DEFINE most == Telemetry!Max(S)
<1>1. most \in S /\ \A m \in S : m <= most
  BY GreatestIs
<1> HIDE DEF most
<1>2. most \in Nat /\ n \in Nat /\ most <= n /\ n <= most
  BY <1>1
<1>3. most = n
  BY <1>2
<1> QED
  BY <1>3 DEF most

(* Counting the places of a trail.                                         *)
LEMMA CountIs ==
    ASSUME NEW n \in Nat, NEW S \in SUBSET (1..n)
    PROVE  /\ Telemetry!Cardinality(S) \in Nat
           /\ Telemetry!Cardinality(S) = 0 <=> S = {}
           /\ Telemetry!Cardinality(S \cup {n + 1}) = Telemetry!Cardinality(S) + 1
<1>1. \A T : Telemetry!Cardinality(T) = Cardinality(T)
  BY DEF Telemetry!Cardinality, Cardinality
<1>2. IsFiniteSet(1..n)
  BY FS_Interval
<1>3. IsFiniteSet(S)
  BY <1>2, FS_Subset
<1>4. n + 1 \notin S
  OBVIOUS
<1> QED
  BY <1>1, <1>3, <1>4, FS_CardinalityType, FS_EmptySet, FS_AddElement

(* Events and trails.                                                      *)
EventKinds == {"hook", "evaluation", "bypass", "health", "reset", "configure"}
Events == [kind : EventKinds, run : Nat, size : Nat, matched : BOOLEAN]

(* The places of a kind of event.                                          *)
LEMMA OfIs ==
    ASSUME NEW t \in Seq(Events), NEW e \in Events, NEW kind
    PROVE  /\ Telemetry!Of(t, kind) \in SUBSET (1..Len(t))
           /\ Telemetry!Of(Append(t, e), kind) =
                IF e.kind = kind THEN Telemetry!Of(t, kind) \cup {Len(t) + 1} ELSE Telemetry!Of(t, kind)
BY DEF Telemetry!Of

(* The place of the last event of a kind.                                  *)
LEMMA LastOfIs ==
    ASSUME NEW t \in Seq(Events), NEW e \in Events, NEW kind
    PROVE  /\ Telemetry!LastOf(t, kind) \in 0..Len(t)
           /\ \A i \in Telemetry!Of(t, kind) : i <= Telemetry!LastOf(t, kind)
           /\ Telemetry!LastOf(Append(t, e), kind) =
                IF e.kind = kind THEN Len(t) + 1 ELSE Telemetry!LastOf(t, kind)
<1> DEFINE S == {0} \cup Telemetry!Of(t, kind)
           n == Len(t)
<1>1. n \in Nat /\ S \in SUBSET Nat /\ S # {} /\ \A m \in S : m <= n
  BY OfIs
<1>2. Telemetry!Max(S) \in S /\ \A m \in S : m <= Telemetry!Max(S)
  BY <1>1, GreatestIs
<1>3. Telemetry!LastOf(t, kind) = Telemetry!Max(S)
  BY DEF Telemetry!LastOf
<1>4. Telemetry!LastOf(t, kind) \in 0..n /\ \A i \in Telemetry!Of(t, kind) : i <= Telemetry!LastOf(t, kind)
  <2> DEFINE most == Telemetry!Max(S)
  <2>1. most \in S /\ \A m \in S : m <= most
    BY <1>2
  <2> HIDE DEF most
  <2>2. most \in 0..n /\ \A i \in Telemetry!Of(t, kind) : i <= most
    BY <1>1, <2>1
  <2> QED
    BY <1>3, <2>2 DEF most
<1>5. CASE e.kind = kind
  <2>1. Telemetry!Of(Append(t, e), kind) = Telemetry!Of(t, kind) \cup {n + 1}
    BY <1>5, OfIs
  <2> DEFINE U == {0} \cup Telemetry!Of(Append(t, e), kind)
  <2>2. U \in SUBSET Nat /\ n + 1 \in U /\ \A m \in U : m <= n + 1
    BY <1>1, <2>1
  <2>3. Telemetry!Max(U) = n + 1
    BY <2>2, MaxIs
  <2> QED
    BY <1>5, <1>4, <2>3 DEF Telemetry!LastOf
<1>6. CASE e.kind # kind
  <2>1. Telemetry!Of(Append(t, e), kind) = Telemetry!Of(t, kind)
    BY <1>6, OfIs
  <2> QED
    BY <1>6, <1>4, <2>1 DEF Telemetry!LastOf
<1> QED
  BY <1>5, <1>6

(* The places since the last event of another kind.                        *)
LEMMA SinceIs ==
    ASSUME NEW t \in Seq(Events), NEW e \in Events, NEW kind, NEW ended, kind # ended
    PROVE  /\ Telemetry!Since(t, kind, ended) \in SUBSET (1..Len(t))
           /\ Telemetry!Since(Append(t, e), kind, ended) =
                IF e.kind = ended THEN {}
                ELSE IF e.kind = kind THEN Telemetry!Since(t, kind, ended) \cup {Len(t) + 1}
                ELSE Telemetry!Since(t, kind, ended)
<1> DEFINE n == Len(t)
<1>1. n \in Nat /\ Telemetry!LastOf(t, ended) \in 0..n /\ Telemetry!Of(t, kind) \in SUBSET (1..n)
  BY OfIs, LastOfIs
<1>2. CASE e.kind = ended
  <2>1. Telemetry!LastOf(Append(t, e), ended) = n + 1
    BY <1>2, LastOfIs
  <2>2. Telemetry!Of(Append(t, e), kind) = Telemetry!Of(t, kind)
    BY <1>2, OfIs
  <2> QED
    BY <1>1, <1>2, <2>1, <2>2 DEF Telemetry!Since
<1>3. CASE e.kind # ended
  <2>1. Telemetry!LastOf(Append(t, e), ended) = Telemetry!LastOf(t, ended)
    BY <1>3, LastOfIs
  <2>2. Telemetry!Of(Append(t, e), kind) =
          IF e.kind = kind THEN Telemetry!Of(t, kind) \cup {n + 1} ELSE Telemetry!Of(t, kind)
    BY OfIs
  <2> QED
    BY <1>1, <1>3, <2>1, <2>2 DEF Telemetry!Since
<1> QED
  BY <1>2, <1>3
(* The configured size at a place of the trail.                            *)
LEMMA SizeAtIs ==
    ASSUME NEW t \in Seq(Events), NEW e \in Events, NEW k \in Nat
    PROVE  /\ Telemetry!SizeAt(t, k) \in Nat
           /\ k <= Len(t) => Telemetry!SizeAt(Append(t, e), k) = Telemetry!SizeAt(t, k)
           /\ Telemetry!SizeAt(Append(t, e), Len(t) + 1) =
                IF e.kind = "configure" THEN e.size ELSE Telemetry!SizeAt(t, Len(t))
<1> DEFINE n == Len(t)
           u == Append(t, e)
           Set(s, m) == {i \in Telemetry!Of(s, "configure") : i <= m}
<1>1. /\ n \in Nat /\ u[n + 1] = e /\ \A i \in 1..n : u[i] = t[i] /\ t[i] \in Events
  OBVIOUS
<1>2. /\ Telemetry!Of(t, "configure") \in SUBSET (1..n)
      /\ Telemetry!Of(u, "configure") =
           IF e.kind = "configure" THEN Telemetry!Of(t, "configure") \cup {n + 1}
           ELSE Telemetry!Of(t, "configure")
  BY OfIs
<1>3. \A s, m : Telemetry!SizeAt(s, m) = IF Set(s, m) = {} THEN DefaultSize ELSE s[Telemetry!Max(Set(s, m))].size
  BY DEF Telemetry!SizeAt
<1> HIDE DEF u, n
<1>4. ASSUME NEW m \in Nat, Set(t, m) # {} PROVE Telemetry!Max(Set(t, m)) \in 1..n
  <2> DEFINE S == Set(t, m)
  <2>1. S \in SUBSET Nat /\ S \in SUBSET (1..n) /\ \A i \in S : i <= m
    BY <1>1, <1>2
  <2>2. Telemetry!Max(S) \in S
    <3> HIDE DEF S
    <3> QED
      BY <1>4, <2>1, GreatestIs DEF S
  <2> QED
    BY <2>1, <2>2
<1>5. Telemetry!SizeAt(t, k) \in Nat
  BY <1>1, <1>3, <1>4, LimitsAssumption DEF Telemetry!LimitsAreNumbers, Events
<1>6. ASSUME k <= n PROVE Telemetry!SizeAt(u, k) = Telemetry!SizeAt(t, k)
  <2>1. Set(u, k) = Set(t, k)
    BY <1>1, <1>2, <1>6
  <2> HIDE DEF Set
  <2> QED
    BY <1>1, <1>3, <1>4, <2>1
<1>7. CASE e.kind = "configure"
  <2> DEFINE S == Set(u, n + 1)
  <2>1. S \in SUBSET Nat /\ n + 1 \in S /\ \A i \in S : i <= n + 1
    BY <1>1, <1>2, <1>7
  <2>2. Telemetry!Max(S) = n + 1 /\ S # {}
    <3> HIDE DEF S
    <3> QED
      BY <2>1, MaxIs
  <2>3. Telemetry!SizeAt(u, n + 1) = e.size
    BY <1>1, <1>3, <2>2
  <2> QED
    BY <1>5, <1>6, <1>7, <2>3 DEF u, n
<1>8. CASE e.kind # "configure"
  <2>1. Set(u, n + 1) = Set(t, n)
    BY <1>1, <1>2, <1>8
  <2>2. Telemetry!SizeAt(u, n + 1) = Telemetry!SizeAt(t, n)
    <3> HIDE DEF Set
    <3> QED
      BY <1>1, <1>3, <1>4, <2>1
  <2> QED
    BY <1>5, <1>6, <1>8, <2>2 DEF u, n
<1> QED
  BY <1>7, <1>8

(* The evaluations after a place.                                          *)
After(t, k) == {i \in Telemetry!Of(t, "evaluation") : i > k}

(* How many evaluations come after a place.                                *)
LEMMA AfterIs ==
    ASSUME NEW t \in Seq(Events), NEW e \in Events, NEW k \in Nat
    PROVE  /\ Telemetry!Cardinality(After(t, k)) \in Nat
           /\ k >= Len(t) => Telemetry!Cardinality(After(t, k)) = 0
           /\ k <= Len(t) => Telemetry!Cardinality(After(Append(t, e), k)) =
                IF e.kind = "evaluation" THEN Telemetry!Cardinality(After(t, k)) + 1
                ELSE Telemetry!Cardinality(After(t, k))
<1> DEFINE n == Len(t)
<1>1. n \in Nat /\ Telemetry!Of(t, "evaluation") \in SUBSET (1..n) /\ After(t, k) \in SUBSET (1..n)
  BY OfIs DEF After
<1>2. k >= n => After(t, k) = {}
  BY <1>1 DEF After
<1>3. k <= n => After(Append(t, e), k) = IF e.kind = "evaluation" THEN After(t, k) \cup {n + 1} ELSE After(t, k)
  BY <1>1, OfIs DEF After
<1>4. /\ Telemetry!Cardinality(After(t, k)) \in Nat
      /\ Telemetry!Cardinality(After(t, k)) = 0 <=> After(t, k) = {}
      /\ Telemetry!Cardinality(After(t, k) \cup {n + 1}) = Telemetry!Cardinality(After(t, k)) + 1
  BY <1>1, CountIs
<1>5. CASE e.kind = "evaluation"
  BY <1>2, <1>3, <1>4, <1>5
<1>6. CASE e.kind # "evaluation"
  BY <1>2, <1>3, <1>4, <1>6
<1> QED
  BY <1>5, <1>6

(* What a window may hold at most, and why.                                *)
Bounds(t) ==
    {Telemetry!Cardinality(After(t, Telemetry!LastOf(t, "reset")))}
        \cup {Telemetry!SizeAt(t, k) + Telemetry!Cardinality(After(t, k)) : k \in Telemetry!LastOf(t, "reset")..Len(t)}

(* The length of a window is the least of its bounds.                      *)
LEMMA LengthIs ==
    ASSUME NEW t \in Seq(Events)
    PROVE  /\ Bounds(t) \in SUBSET Nat
           /\ Telemetry!Length(t) \in Bounds(t) /\ \A b \in Bounds(t) : Telemetry!Length(t) <= b
           /\ \A n \in Bounds(t) : (\A b \in Bounds(t) : n <= b) => Telemetry!Length(t) = n
<1>1. Telemetry!Length(t) = Telemetry!Min(Bounds(t))
  BY DEF Telemetry!Length, Bounds, After
<1>2. PICK e \in Events : TRUE
  <2>1. [kind |-> "hook", run |-> 0, size |-> 0, matched |-> FALSE] \in Events
    BY DEF Events, EventKinds
  <2> QED
    BY <2>1
<1>3. Telemetry!LastOf(t, "reset") \in Nat /\ Len(t) \in Nat
  BY LastOfIs
<1>4. \A k \in Nat : Telemetry!SizeAt(t, k) \in Nat /\ Telemetry!Cardinality(After(t, k)) \in Nat
  BY <1>2, SizeAtIs, AfterIs
<1>5. \A k \in Telemetry!LastOf(t, "reset")..Len(t) :
         Telemetry!SizeAt(t, k) + Telemetry!Cardinality(After(t, k)) \in Nat
  <2> TAKE k \in Telemetry!LastOf(t, "reset")..Len(t)
  <2>1. k \in Nat
    BY <1>3
  <2>2. Telemetry!SizeAt(t, k) \in Nat /\ Telemetry!Cardinality(After(t, k)) \in Nat
    BY <1>4, <2>1
  <2> QED
    BY <2>2
<1>6. Bounds(t) \in SUBSET Nat
  <2>1. Telemetry!Cardinality(After(t, Telemetry!LastOf(t, "reset"))) \in Nat
    BY <1>3, <1>4
  <2> QED
    BY <1>5, <2>1 DEF Bounds
<1>7. Bounds(t) # {}
  BY DEF Bounds
<1> QED
  BY <1>1, <1>6, <1>7, LeastIs, MinIs

(* The end of a trail.                                                     *)
LEMMA EndIs ==
    ASSUME NEW t \in Seq(Events)
    PROVE  /\ Telemetry!Cardinality(After(t, Len(t))) = 0
           /\ Telemetry!SizeAt(t, Len(t)) \in Nat
<1>1. PICK e \in Events : TRUE
  <2>1. [kind |-> "hook", run |-> 0, size |-> 0, matched |-> FALSE] \in Events
    BY DEF Events, EventKinds
  <2> QED
    BY <2>1
<1>2. Len(t) \in Nat /\ Len(t) >= Len(t)
  OBVIOUS
<1>3. Telemetry!Cardinality(After(t, Len(t))) = 0
  BY <1>2, AfterIs
<1>4. Telemetry!SizeAt(t, Len(t)) \in Nat
  BY <1>2, SizeAtIs
<1> QED
  BY <1>3, <1>4

(* The smaller of two numbers.                                             *)
Smaller(a, b) == IF a <= b THEN a ELSE b

(* What an event does to the bounds of the window.                         *)
LEMMA BoundsGrow ==
    ASSUME NEW t \in Seq(Events), NEW e \in Events, e.kind # "reset"
    PROVE  \A b : b \in Bounds(Append(t, e)) <=>
             \/ \E a \in Bounds(t) : b = a + (IF e.kind = "evaluation" THEN 1 ELSE 0)
             \/ b = Telemetry!SizeAt(Append(t, e), Len(t) + 1)
<1> DEFINE n == Len(t)
           u == Append(t, e)
           r == Telemetry!LastOf(t, "reset")
           d == IF e.kind = "evaluation" THEN 1 ELSE 0
           A(s, k) == Telemetry!Cardinality(After(s, k))
           Z(s, k) == Telemetry!SizeAt(s, k)
<1>1. n \in Nat /\ Len(u) = n + 1 /\ u \in Seq(Events) /\ d \in Nat
  OBVIOUS
<1>2. r \in 0..n /\ Telemetry!LastOf(u, "reset") = r
  BY LastOfIs
<1>3. \A k \in 0..n : /\ A(u, k) = A(t, k) + d /\ A(t, k) \in Nat
                      /\ Z(u, k) = Z(t, k) /\ Z(t, k) \in Nat
  <2> TAKE k \in 0..n
  <2>1. k \in Nat /\ k <= n
    BY <1>1
  <2>2. A(t, k) \in Nat /\ A(u, k) = A(t, k) + d
    BY <2>1, AfterIs
  <2>3. Z(u, k) = Z(t, k) /\ Z(t, k) \in Nat
    BY <2>1, SizeAtIs
  <2> QED
    BY <2>2, <2>3
<1>4. A(u, n + 1) = 0 /\ Z(u, n + 1) \in Nat
  <2> HIDE DEF u
  <2>1. Telemetry!Cardinality(After(u, Len(u))) = 0 /\ Telemetry!SizeAt(u, Len(u)) \in Nat
    BY <1>1, EndIs
  <2> QED
    BY <1>1, <2>1
<1>5. /\ Bounds(t) = {A(t, r)} \cup {Z(t, k) + A(t, k) : k \in r..n}
      /\ Bounds(u) = {A(u, r)} \cup {Z(u, k) + A(u, k) : k \in r..(n + 1)}
  BY <1>1, <1>2 DEF Bounds
<1> HIDE DEF n, u, r, d, A, Z
<1>6. ASSUME NEW a \in Bounds(t) PROVE a + d \in Bounds(u)
  <2>1. CASE a = A(t, r)
    <3>1. a + d = A(u, r)
      BY <1>2, <1>3, <2>1
    <3> QED
      BY <1>5, <3>1
  <2>2. ASSUME NEW k \in r..n, a = Z(t, k) + A(t, k) PROVE a + d \in Bounds(u)
    <3>1. k \in 0..n /\ k \in r..(n + 1)
      BY <1>1, <1>2
    <3>2. a + d = Z(u, k) + A(u, k)
      BY <1>1, <1>3, <2>2, <3>1
    <3> QED
      BY <1>5, <3>1, <3>2
  <2> QED
    BY <1>5, <2>1, <2>2
<1>7. Z(u, n + 1) \in Bounds(u)
  <2>1. n + 1 \in r..(n + 1) /\ Z(u, n + 1) = Z(u, n + 1) + A(u, n + 1)
    BY <1>1, <1>2, <1>4
  <2> QED
    BY <1>5, <2>1
<1>8. ASSUME NEW b \in Bounds(u) PROVE (\E a \in Bounds(t) : b = a + d) \/ b = Z(u, n + 1)
  <2>1. CASE b = A(u, r)
    <3>1. b = A(t, r) + d
      BY <1>2, <1>3, <2>1
    <3> QED
      BY <1>5, <3>1
  <2>2. ASSUME NEW k \in r..(n + 1), b = Z(u, k) + A(u, k)
        PROVE  (\E a \in Bounds(t) : b = a + d) \/ b = Z(u, n + 1)
    <3>1. CASE k = n + 1
      BY <1>4, <2>2, <3>1
    <3>2. CASE k # n + 1
      <4>1. k \in r..n /\ k \in 0..n
        BY <1>1, <1>2, <3>2
      <4>2. b = (Z(t, k) + A(t, k)) + d
        BY <1>1, <1>3, <2>2, <4>1
      <4>3. Z(t, k) + A(t, k) \in Bounds(t)
        BY <1>5, <4>1
      <4> QED
        BY <4>2, <4>3
    <3> QED
      BY <3>1, <3>2
  <2> QED
    BY <1>5, <2>1, <2>2
<1> QED
  BY <1>6, <1>7, <1>8 DEF d, u, n, Z

(* How long the window is.                                                 *)
LEMMA LengthGrows ==
    ASSUME NEW t \in Seq(Events), NEW e \in Events
    PROVE  /\ Telemetry!Length(t) \in Nat /\ Telemetry!Length(t) <= Telemetry!SizeOf(t)
           /\ Telemetry!Length(Append(t, e)) =
                CASE e.kind = "reset" -> 0
                  [] e.kind = "configure" -> Smaller(Telemetry!Length(t), e.size)
                  [] e.kind = "evaluation" -> Smaller(Telemetry!Length(t) + 1, Telemetry!SizeOf(t))
                  [] OTHER -> Telemetry!Length(t)
<1> DEFINE n == Len(t)
           u == Append(t, e)
           old == Telemetry!Length(t)
           size == Telemetry!SizeAt(t, n)
           new == Telemetry!SizeAt(u, n + 1)
<1>1. n \in Nat /\ Len(u) = n + 1 /\ u \in Seq(Events)
  OBVIOUS
<1>2. /\ Bounds(t) \in SUBSET Nat /\ old \in Bounds(t) /\ (\A b \in Bounds(t) : old <= b)
      /\ Bounds(u) \in SUBSET Nat
      /\ \A m \in Bounds(u) : (\A b \in Bounds(u) : m <= b) => Telemetry!Length(u) = m
  BY <1>1, LengthIs
<1>3. size \in Bounds(t) /\ size \in Nat /\ size = Telemetry!SizeOf(t)
  <2>1. n \in Telemetry!LastOf(t, "reset")..n
    BY <1>1, LastOfIs
  <2>2. Telemetry!Cardinality(After(t, n)) = 0 /\ size \in Nat
    BY <1>1, AfterIs, SizeAtIs
  <2>3. size = size + Telemetry!Cardinality(After(t, n))
    BY <2>2
  <2> QED
    BY <2>1, <2>2, <2>3 DEF Bounds, Telemetry!SizeOf
<1>4. new = (IF e.kind = "configure" THEN e.size ELSE size) /\ e.size \in Nat
  BY SizeAtIs DEF Events
<1>5. old \in Nat /\ old <= size
  BY <1>2, <1>3
<1>6. e.kind # "reset" =>
        \A b : b \in Bounds(u) <=> \/ \E a \in Bounds(t) : b = a + (IF e.kind = "evaluation" THEN 1 ELSE 0)
                                  \/ b = new
  BY BoundsGrow
<1>7. CASE e.kind = "reset"
  <2>1. Telemetry!LastOf(u, "reset") = n + 1
    BY <1>7, LastOfIs
  <2>2. Telemetry!Cardinality(After(u, n + 1)) = 0
    <3> HIDE DEF u
    <3>1. Telemetry!Cardinality(After(u, Len(u))) = 0
      BY <1>1, EndIs
    <3> QED
      BY <1>1, <3>1
  <2>3. 0 \in Bounds(u)
    BY <2>1, <2>2 DEF Bounds
  <2>4. Telemetry!Length(u) = 0
    BY <1>2, <2>3
  <2> QED
    BY <1>3, <1>5, <1>7, <2>4
<1> HIDE DEF n, u, old, size, new
<1>8. CASE e.kind = "configure"
  <2>1. \A b : b \in Bounds(u) <=> b \in Bounds(t) \/ b = e.size
    BY <1>2, <1>4, <1>6, <1>8
  <2>2. Smaller(old, e.size) \in Bounds(u) /\ \A b \in Bounds(u) : Smaller(old, e.size) <= b
    BY <1>2, <1>4, <1>5, <2>1 DEF Smaller
  <2>3. Telemetry!Length(u) = Smaller(old, e.size)
    BY <1>2, <2>2
  <2> QED
    BY <1>3, <1>5, <1>8, <2>3 DEF old, u
<1>9. CASE e.kind = "evaluation"
  <2>1. \A b : b \in Bounds(u) <=> (\E a \in Bounds(t) : b = a + 1) \/ b = size
    BY <1>4, <1>6, <1>9
  <2>2. Smaller(old + 1, size) \in Bounds(u) /\ \A b \in Bounds(u) : Smaller(old + 1, size) <= b
    <3>1. old + 1 \in Bounds(u) /\ size \in Bounds(u)
      BY <1>2, <2>1
    <3>2. ASSUME NEW b \in Bounds(u) PROVE Smaller(old + 1, size) <= b
      <4>1. CASE b = size
        BY <1>3, <1>5, <4>1 DEF Smaller
      <4>2. ASSUME NEW a \in Bounds(t), b = a + 1 PROVE old + 1 <= b
        BY <1>2, <1>5, <4>2
      <4> QED
        BY <1>2, <1>3, <1>5, <2>1, <4>1, <4>2 DEF Smaller
    <3> QED
      BY <3>1, <3>2 DEF Smaller
  <2>3. Telemetry!Length(u) = Smaller(old + 1, size)
    BY <1>2, <2>2
  <2> QED
    BY <1>3, <1>5, <1>9, <2>3 DEF old, u
<1>10. CASE e.kind \notin {"reset", "configure", "evaluation"}
  <2>1. \A b : b \in Bounds(u) <=> b \in Bounds(t)
    BY <1>2, <1>3, <1>4, <1>6, <1>10
  <2>2. Telemetry!Length(u) = old
    BY <1>2, <2>1
  <2> QED
    BY <1>3, <1>5, <1>10, <2>2 DEF old, u
<1> QED
  BY <1>7, <1>8, <1>9, <1>10 DEF old, u

(* A list that tells some events still tells them when another happens,    *)
(* tells that one too when its run is put at the end, and may lose its     *)
(* oldest entries.                                                         *)
LEMMA TellsStill ==
    ASSUME NEW t \in Seq(Events), NEW e \in Events, NEW list, NEW P \in SUBSET (1..Len(t)),
           Telemetry!Tells(list, t, P)
    PROVE  Telemetry!Tells(list, Append(t, e), P)
<1>1. \A i \in P : Append(t, e)[i] = t[i]
  OBVIOUS
<1> QED
  BY <1>1 DEF Telemetry!Tells

(* How many of some events are later than one.                             *)
LEMMA LaterIs ==
    ASSUME NEW n \in Nat, NEW P \in SUBSET (1..n), NEW i \in P
    PROVE  /\ Telemetry!Cardinality({k \in P : k > i}) \in Nat
           /\ Telemetry!Cardinality({k \in P \cup {n + 1} : k > i}) =
                Telemetry!Cardinality({k \in P : k > i}) + 1
<1> DEFINE L == {k \in P : k > i}
<1>1. {k \in P \cup {n + 1} : k > i} = L \cup {n + 1}
  OBVIOUS
<1>2. L \in SUBSET (1..n)
  OBVIOUS
<1> HIDE DEF L
<1>3. Telemetry!Cardinality(L) \in Nat /\ Telemetry!Cardinality(L \cup {n + 1}) = Telemetry!Cardinality(L) + 1
  BY <1>2, CountIs
<1> QED
  BY <1>1, <1>3 DEF L

(* One more event, told at the end of the list.                            *)
LEMMA TellsMore ==
    ASSUME NEW t \in Seq(Events), NEW e \in Events, NEW list \in Seq(Nat), NEW P \in SUBSET (1..Len(t)),
           Telemetry!Tells(list, t, P)
    PROVE  Telemetry!Tells(Append(list, e.run), Append(t, e), P \cup {Len(t) + 1})
<1> DEFINE n == Len(t)
           u == Append(t, e)
           more == Append(list, e.run)
           Q == P \cup {n + 1}
           L(S, i) == Telemetry!Cardinality({k \in S : k > i})
<1>1. n \in Nat /\ u[n + 1] = e /\ \A i \in P : u[i] = t[i] /\ i \in 1..n
  OBVIOUS
<1>2. Len(more) = Len(list) + 1 /\ more[Len(list) + 1] = e.run /\ \A j \in 1..Len(list) : more[j] = list[j]
  BY DEF Events
<1>3. Telemetry!Cardinality(P) \in Nat /\ Telemetry!Cardinality(Q) = Telemetry!Cardinality(P) + 1
  BY <1>1, CountIs
<1>4. \A i \in P : L(P, i) \in Nat /\ L(Q, i) = L(P, i) + 1
  BY <1>1, LaterIs
<1>5. L(Q, n + 1) = 0
  <2>1. {k \in Q : k > n + 1} = {}
    <3>1. \A k \in Q : ~ (k > n + 1)
      <4> HIDE DEF n
      <4> QED
        BY <1>1
    <3> QED
      BY <3>1
  <2>2. Telemetry!Cardinality({}) = 0
    BY CountIs, <1>1
  <2> QED
    BY <2>1, <2>2
<1>6. /\ Len(list) <= Telemetry!Cardinality(P)
      /\ \A i \in P : L(P, i) < Len(list) => list[Len(list) - L(P, i)] = t[i].run
  BY DEF Telemetry!Tells
<1>7. Len(list) \in Nat
  OBVIOUS
<1> HIDE DEF n, u, more, L
<1>8. \A i \in P : L(Q, i) < Len(more) => more[Len(more) - L(Q, i)] = u[i].run
  <2> SUFFICES ASSUME NEW i \in P, L(Q, i) < Len(more) PROVE more[Len(more) - L(Q, i)] = u[i].run
    OBVIOUS
  <2> DEFINE later == L(P, i)
  <2>1. later \in Nat /\ L(Q, i) = later + 1 /\ later < Len(list)
    <3>1. later \in Nat /\ L(Q, i) = later + 1
      BY <1>4
    <3> HIDE DEF later, Q
    <3> QED
      BY <1>2, <1>7, <3>1
  <2>2. list[Len(list) - later] = t[i].run
    BY <1>6, <2>1
  <2> HIDE DEF later
  <2>3. Len(more) - L(Q, i) = Len(list) - later /\ Len(list) - later \in 1..Len(list)
    BY <1>2, <1>7, <2>1
  <2> QED
    BY <1>1, <1>2, <2>2, <2>3
<1>9. more[Len(more) - L(Q, n + 1)] = u[n + 1].run
  BY <1>1, <1>2, <1>5, <1>7
<1>10. Len(more) <= Telemetry!Cardinality(Q)
  BY <1>2, <1>3, <1>6, <1>7
<1>11. Telemetry!Tells(more, u, Q)
  BY <1>8, <1>9, <1>10 DEF Telemetry!Tells, L
<1> QED
  BY <1>11 DEF more, u, n

(* A list is the end of another.                                           *)
Ends(s, list) ==
    /\ s \in Seq(Nat) /\ Len(s) <= Len(list)
    /\ \A j \in 1..Len(s) : s[j] = list[(Len(list) - Len(s)) + j]

(* The end of a list tells what the list tells.                            *)
LEMMA TellsLess ==
    ASSUME NEW n \in Nat, NEW t, NEW list \in Seq(Nat), NEW s, NEW P \in SUBSET (1..n),
           Ends(s, list), Telemetry!Tells(list, t, P)
    PROVE  Telemetry!Tells(s, t, P)
<1> DEFINE L(i) == Telemetry!Cardinality({k \in P : k > i})
<1>1. Len(list) \in Nat /\ Len(s) \in Nat /\ Len(s) <= Len(list)
  BY DEF Ends
<1>2. \A j \in 1..Len(s) : s[j] = list[(Len(list) - Len(s)) + j]
  BY DEF Ends
<1>3. Telemetry!Cardinality(P) \in Nat /\ Len(list) <= Telemetry!Cardinality(P)
  BY CountIs DEF Telemetry!Tells
<1>4. \A i \in P : L(i) \in Nat /\ (L(i) < Len(list) => list[Len(list) - L(i)] = t[i].run)
  BY LaterIs DEF Telemetry!Tells
<1> HIDE DEF L
<1>5. \A i \in P : L(i) < Len(s) => s[Len(s) - L(i)] = t[i].run
  <2> SUFFICES ASSUME NEW i \in P, L(i) < Len(s) PROVE s[Len(s) - L(i)] = t[i].run
    OBVIOUS
  <2>1. L(i) \in Nat /\ list[Len(list) - L(i)] = t[i].run
    BY <1>1, <1>4
  <2>2. Len(s) - L(i) \in 1..Len(s) /\ (Len(list) - Len(s)) + (Len(s) - L(i)) = Len(list) - L(i)
    BY <1>1, <2>1
  <2>3. s[Len(s) - L(i)] = list[(Len(list) - Len(s)) + (Len(s) - L(i))]
    BY <1>2, <2>2
  <2> QED
    BY <2>1, <2>2, <2>3
<1>6. Len(s) <= Telemetry!Cardinality(P)
  BY <1>1, <1>3
<1> QED
  BY <1>5, <1>6 DEF Telemetry!Tells, L

(* The empty list, before any event.                                       *)
LEMMA TellsNothing ==
    ASSUME NEW t
    PROVE  Telemetry!Tells(<<>>, t, {}) /\ Telemetry!Cardinality({}) = 0
<1>1. Telemetry!Cardinality({}) = 0
  <2>1. {} \in SUBSET (1..0) /\ 0 \in Nat
    OBVIOUS
  <2> QED
    BY <2>1, CountIs
<1> QED
  BY <1>1 DEF Telemetry!Tells

(* The newest entries of a list, and all but the first.                    *)
LEMMA NewestIs ==
    ASSUME NEW list \in Seq(Nat), NEW n \in Nat
    PROVE  Ends(Telemetry!Newest(list, n), list) /\ Len(Telemetry!Newest(list, n)) = Smaller(Len(list), n)
<1> DEFINE len == Len(list)
           first == (IF len > n THEN len - n ELSE 0) + 1
           s == SubSeq(list, first, len)
<1>1. len \in Nat /\ first \in 1..(len + 1) /\ len - first + 1 = Smaller(len, n)
  <2>1. len \in Nat
    OBVIOUS
  <2> HIDE DEF len
  <2>2. CASE len > n
    BY <2>1, <2>2 DEF Smaller
  <2>3. CASE ~ (len > n)
    BY <2>1, <2>3 DEF Smaller
  <2> QED
    BY <2>1, <2>2, <2>3
<1>2. \A i \in 1..len : list[i] \in Nat
  OBVIOUS
<1>3. s = Telemetry!Newest(list, n)
  BY DEF Telemetry!Newest
<1> HIDE DEF first, len
<1>4. len \in Int /\ first \in Int /\ \A i \in first..len : list[i] \in Nat
  BY <1>1, <1>2
<1>5. /\ s \in Seq(Nat)
      /\ Len(s) = IF first <= len THEN len - first + 1 ELSE 0
      /\ \A j \in 1..(len - first + 1) : s[j] = list[first + j - 1]
  BY <1>4, SubSeqProperties
<1> HIDE DEF s
<1>6. Len(s) = len - first + 1
  BY <1>1, <1>5
<1>7. \A j \in 1..Len(s) : s[j] = list[(len - Len(s)) + j]
  <2> TAKE j \in 1..Len(s)
  <2>1. first + j - 1 = (len - Len(s)) + j
    BY <1>1, <1>6
  <2> QED
    BY <1>5, <1>6, <2>1
<1>8. Len(s) <= len
  BY <1>1, <1>6
<1>9. Ends(s, list)
  BY <1>5, <1>7, <1>8 DEF Ends, len
<1> QED
  BY <1>1, <1>3, <1>6, <1>9 DEF len

(* A list without its first entry.                                         *)
LEMMA TailIs ==
    ASSUME NEW list \in Seq(Nat), list # <<>>
    PROVE  Ends(Tail(list), list) /\ Len(Tail(list)) = Len(list) - 1 /\ Len(list) > 0
BY DEF Ends

(* What the parts of a document say of its trail: the window, the counters *)
(* of the rules, the audit of the bypasses.                                *)
WindowSays(list, t) ==
    Telemetry!Tells(list, t, Telemetry!Since(t, "evaluation", "reset")) /\ Len(list) = Telemetry!Length(t)
MatchesSay(matches, t) ==
    matches = Telemetry!Cardinality({i \in Telemetry!Since(t, "evaluation", "reset") : t[i].matched})
BypassesSay(list, t) ==
    /\ Telemetry!Tells(list, t, Telemetry!Since(t, "bypass", "reset"))
    /\ Len(list) = Telemetry!Min({Telemetry!Cardinality(Telemetry!Since(t, "bypass", "reset")), BypassLimit})

(* The window after an event.                                              *)
LEMMA WindowKept ==
    ASSUME NEW t \in Seq(Events), NEW e \in Events, NEW list \in Seq(Nat), NEW new,
           WindowSays(list, t),
           \/ e.kind = "reset" /\ new = <<>>
           \/ e.kind = "configure" /\ Ends(new, list) /\ Len(new) = Smaller(Len(list), e.size)
           \/ /\ e.kind = "evaluation"
              /\ \E s : /\ Ends(s, list) /\ new = Append(s, e.run)
                        /\ Len(s) + 1 = Smaller(Len(list) + 1, Telemetry!SizeOf(t))
           \/ e.kind \notin {"reset", "configure", "evaluation"} /\ new = list
    PROVE  WindowSays(new, Append(t, e))
<1> DEFINE n == Len(t)
           u == Append(t, e)
           P == Telemetry!Since(t, "evaluation", "reset")
           Q == Telemetry!Since(u, "evaluation", "reset")
<1>1. n \in Nat /\ P \in SUBSET (1..n)
  BY SinceIs
<1>2. Q = IF e.kind = "reset" THEN {} ELSE IF e.kind = "evaluation" THEN P \cup {n + 1} ELSE P
  BY SinceIs
<1>3. Telemetry!Tells(list, t, P) /\ Len(list) = Telemetry!Length(t)
  BY DEF WindowSays
<1>4. Telemetry!Length(u) =
        CASE e.kind = "reset" -> 0
          [] e.kind = "configure" -> Smaller(Len(list), e.size)
          [] e.kind = "evaluation" -> Smaller(Len(list) + 1, Telemetry!SizeOf(t))
          [] OTHER -> Len(list)
  BY <1>3, LengthGrows
<1>5. CASE e.kind = "reset" /\ new = <<>>
  <2>1. Telemetry!Tells(new, u, Q) /\ Len(new) = Telemetry!Length(u)
    BY <1>2, <1>4, <1>5, TellsNothing
  <2> QED
    BY <2>1 DEF WindowSays
<1>6. CASE e.kind = "configure" /\ Ends(new, list) /\ Len(new) = Smaller(Len(list), e.size)
  <2>1. Telemetry!Tells(new, t, P)
    BY <1>1, <1>3, <1>6, TellsLess
  <2>2. Telemetry!Tells(new, u, P)
    BY <1>1, <2>1, TellsStill
  <2>3. Q = P /\ Len(new) = Telemetry!Length(u)
    BY <1>2, <1>4, <1>6
  <2> QED
    BY <2>2, <2>3 DEF WindowSays
<1>7. ASSUME e.kind = "evaluation",
             NEW s, Ends(s, list), new = Append(s, e.run), Len(s) + 1 = Smaller(Len(list) + 1, Telemetry!SizeOf(t))
      PROVE  WindowSays(new, u)
  <2>1. Telemetry!Tells(s, t, P)
    BY <1>1, <1>3, <1>7, TellsLess
  <2>2. s \in Seq(Nat)
    BY <1>7 DEF Ends
  <2>3. Telemetry!Tells(new, u, P \cup {n + 1})
    BY <1>1, <1>7, <2>1, <2>2, TellsMore
  <2>4. Q = P \cup {n + 1} /\ Telemetry!Length(u) = Smaller(Len(list) + 1, Telemetry!SizeOf(t))
    BY <1>2, <1>4, <1>7
  <2>5. Len(new) = Len(s) + 1
    BY <1>7, <2>2 DEF Events
  <2> QED
    BY <1>7, <2>3, <2>4, <2>5 DEF WindowSays
<1>8. CASE e.kind \notin {"reset", "configure", "evaluation"} /\ new = list
  <2>1. Telemetry!Tells(new, u, P)
    BY <1>1, <1>3, <1>8, TellsStill
  <2>2. Q = P /\ Len(new) = Telemetry!Length(u)
    BY <1>2, <1>4, <1>8
  <2> QED
    BY <2>1, <2>2 DEF WindowSays
<1> QED
  BY <1>5, <1>6, <1>7, <1>8

(* The counters of the rules after an event.                               *)
LEMMA MatchesKept ==
    ASSUME NEW t \in Seq(Events), NEW e \in Events, NEW matches, NEW new,
           MatchesSay(matches, t),
           \/ e.kind = "reset" /\ new = 0
           \/ e.kind = "evaluation" /\ new = matches + (IF e.matched THEN 1 ELSE 0)
           \/ e.kind \notin {"reset", "evaluation"} /\ new = matches
    PROVE  MatchesSay(new, Append(t, e))
<1> DEFINE n == Len(t)
           u == Append(t, e)
           P == Telemetry!Since(t, "evaluation", "reset")
           Q == Telemetry!Since(u, "evaluation", "reset")
           M == {i \in P : t[i].matched}
           N == {i \in Q : u[i].matched}
<1>1. n \in Nat /\ P \in SUBSET (1..n) /\ M \in SUBSET (1..n)
  BY SinceIs
<1>2. Q = IF e.kind = "reset" THEN {} ELSE IF e.kind = "evaluation" THEN P \cup {n + 1} ELSE P
  BY SinceIs
<1>3. u[n + 1] = e /\ \A i \in 1..n : u[i] = t[i]
  OBVIOUS
<1>4. matches = Telemetry!Cardinality(M)
  BY DEF MatchesSay
<1>5. Telemetry!Cardinality(M) \in Nat /\ Telemetry!Cardinality(M \cup {n + 1}) = Telemetry!Cardinality(M) + 1
  BY <1>1, CountIs
<1>6. new = Telemetry!Cardinality(N)
  <2>1. CASE e.kind = "reset"
    <3>1. N = {}
      BY <1>2, <2>1
    <3> QED
      BY <2>1, <3>1, TellsNothing
  <2>2. CASE e.kind = "evaluation" /\ e.matched
    <3>1. N = M \cup {n + 1}
      BY <1>1, <1>2, <1>3, <2>2
    <3> QED
      BY <1>4, <1>5, <2>2, <3>1
  <2>3. CASE e.kind = "evaluation" /\ ~ e.matched
    <3>1. N = M
      BY <1>1, <1>2, <1>3, <2>3
    <3> HIDE DEF M, N
    <3>2. matches \in Nat /\ new = matches
      BY <1>4, <1>5, <2>3
    <3> QED
      BY <1>4, <3>1, <3>2
  <2>4. CASE e.kind \notin {"reset", "evaluation"}
    <3>1. N = M
      BY <1>1, <1>2, <1>3, <2>4
    <3> QED
      BY <1>4, <2>4, <3>1
  <2> QED
    BY <2>1, <2>2, <2>3, <2>4
<1> QED
  BY <1>6 DEF MatchesSay

(* It is the least of the two.                                             *)
LEMMA SmallerIs ==
    ASSUME NEW a \in Nat, NEW b \in Nat
    PROVE  Telemetry!Min({a, b}) = Smaller(a, b)
<1>1. {a, b} \in SUBSET Nat /\ Smaller(a, b) \in {a, b} /\ \A m \in {a, b} : Smaller(a, b) <= m
  BY DEF Smaller
<1> QED
  BY <1>1, MinIs

(* The audit of the bypasses after an event.                               *)
LEMMA BypassesKept ==
    ASSUME NEW t \in Seq(Events), NEW e \in Events, NEW list \in Seq(Nat), NEW new,
           BypassesSay(list, t),
           \/ e.kind = "reset" /\ new = <<>>
           \/ /\ e.kind = "bypass"
              /\ \E s : /\ Ends(s, list) /\ new = Append(s, e.run)
                        /\ Len(s) = Smaller(Len(list), BypassLimit - 1)
           \/ e.kind \notin {"reset", "bypass"} /\ Ends(new, list) /\ Len(new) = Smaller(Len(list), BypassLimit)
    PROVE  BypassesSay(new, Append(t, e))
<1> DEFINE n == Len(t)
           u == Append(t, e)
           P == Telemetry!Since(t, "bypass", "reset")
           Q == Telemetry!Since(u, "bypass", "reset")
           c == Telemetry!Cardinality(P)
<1>1. n \in Nat /\ P \in SUBSET (1..n)
  BY SinceIs
<1>2. Q = IF e.kind = "reset" THEN {} ELSE IF e.kind = "bypass" THEN P \cup {n + 1} ELSE P
  BY SinceIs
<1>3. BypassLimit \in Nat \ {0}
  BY LimitsAssumption DEF Telemetry!LimitsAreNumbers
<1>4. c \in Nat /\ Telemetry!Cardinality(P \cup {n + 1}) = c + 1
  BY <1>1, CountIs
<1>5. Telemetry!Tells(list, t, P) /\ Len(list) = Smaller(c, BypassLimit)
  BY <1>3, <1>4, SmallerIs DEF BypassesSay
<1>6. CASE e.kind = "reset" /\ new = <<>>
  <2>1. Telemetry!Tells(new, u, Q) /\ Telemetry!Cardinality(Q) = 0
    BY <1>2, <1>6, TellsNothing
  <2>2. Telemetry!Min({0, BypassLimit}) = Smaller(0, BypassLimit)
    BY <1>3, SmallerIs
  <2>3. Len(new) = Smaller(0, BypassLimit)
    BY <1>3, <1>6 DEF Smaller
  <2> QED
    BY <2>1, <2>2, <2>3 DEF BypassesSay
<1>7. ASSUME e.kind = "bypass",
             NEW s, Ends(s, list), new = Append(s, e.run), Len(s) = Smaller(Len(list), BypassLimit - 1)
      PROVE  BypassesSay(new, u)
  <2>1. Telemetry!Tells(s, t, P) /\ s \in Seq(Nat)
    BY <1>1, <1>5, <1>7, TellsLess DEF Ends
  <2>2. Telemetry!Tells(new, u, P \cup {n + 1})
    BY <1>1, <1>7, <2>1, TellsMore
  <2>3. Q = P \cup {n + 1} /\ Telemetry!Cardinality(Q) = c + 1
    BY <1>2, <1>4, <1>7
  <2>4. Len(new) = Len(s) + 1
    BY <1>7, <2>1 DEF Events
  <2>5. Telemetry!Min({c + 1, BypassLimit}) = Smaller(c + 1, BypassLimit)
    BY <1>3, <1>4, SmallerIs
  <2> HIDE DEF c
  <2>6. Len(new) = Smaller(c + 1, BypassLimit)
    BY <1>3, <1>4, <1>5, <1>7, <2>4 DEF Smaller
  <2> QED
    BY <2>2, <2>3, <2>5, <2>6 DEF BypassesSay
<1>8. CASE e.kind \notin {"reset", "bypass"} /\ Ends(new, list) /\ Len(new) = Smaller(Len(list), BypassLimit)
  <2>1. Telemetry!Tells(new, t, P)
    BY <1>1, <1>5, <1>8, TellsLess
  <2>2. Telemetry!Tells(new, u, P)
    BY <1>1, <2>1, TellsStill
  <2>3. Q = P
    BY <1>2, <1>8
  <2>4. Len(new) = Len(list)
    <3> HIDE DEF c
    <3> QED
      BY <1>3, <1>4, <1>5, <1>8 DEF Smaller
  <2>5. Len(list) = Telemetry!Min({c, BypassLimit})
    BY DEF BypassesSay
  <2> QED
    BY <2>2, <2>3, <2>4, <2>5 DEF BypassesSay
<1> QED
  BY <1>6, <1>7, <1>8

(* The configuration and the health copy.                                  *)
ConfigurationSays(settings, health, capacity, size, t) ==
    /\ settings = Telemetry!LastRun(t, Telemetry!Of(t, "configure"))
    /\ health = Telemetry!LastRun(t, Telemetry!Since(t, "health", "configure"))
    /\ capacity = Telemetry!SizeOf(t) /\ size = capacity

(* The run of the last of some events.                                     *)
LEMMA LastRunIs ==
    ASSUME NEW t \in Seq(Events), NEW e \in Events, NEW P \in SUBSET (1..Len(t))
    PROVE  /\ Telemetry!LastRun(Append(t, e), P) = Telemetry!LastRun(t, P)
           /\ Telemetry!LastRun(Append(t, e), P \cup {Len(t) + 1}) = e.run
<1> DEFINE n == Len(t)
           u == Append(t, e)
           Q == P \cup {n + 1}
<1>1. n \in Nat /\ P \in SUBSET (1..n) /\ u[n + 1] = e /\ \A i \in 1..n : u[i] = t[i]
  OBVIOUS
<1>2. P # {} => Telemetry!Max(P) \in P
  <2>1. P \in SUBSET Nat /\ \A m \in P : m <= n
    BY <1>1
  <2> QED
    BY <1>1, <2>1, GreatestIs
<1>3. Telemetry!LastRun(u, P) = Telemetry!LastRun(t, P)
  BY <1>1, <1>2 DEF Telemetry!LastRun
<1>4. Telemetry!Max(Q) = n + 1
  <2>1. Q \in SUBSET Nat /\ n + 1 \in Q /\ \A m \in Q : m <= n + 1
    <3> HIDE DEF n
    <3> QED
      BY <1>1
  <2> QED
    BY <2>1, MaxIs
<1>5. Telemetry!LastRun(u, Q) = e.run
  BY <1>1, <1>4 DEF Telemetry!LastRun
<1> QED
  BY <1>3, <1>5

(* The configuration and the health copy after an event.                   *)
LEMMA ConfigurationKept ==
    ASSUME NEW t \in Seq(Events), NEW e \in Events,
           NEW settings, NEW health, NEW capacity, NEW size,
           NEW newSettings, NEW newHealth, NEW newCapacity, NEW newSize,
           ConfigurationSays(settings, health, capacity, size, t),
           \/ /\ e.kind = "configure" /\ newSettings = e.run /\ newHealth = 0
              /\ newCapacity = e.size /\ newSize = e.size
           \/ /\ e.kind = "health" /\ newSettings = settings /\ newHealth = e.run
              /\ newCapacity = capacity /\ newSize = size
           \/ /\ e.kind \notin {"configure", "health"} /\ newSettings = settings /\ newHealth = health
              /\ newCapacity = capacity /\ newSize = size
    PROVE  ConfigurationSays(newSettings, newHealth, newCapacity, newSize, Append(t, e))
<1> DEFINE n == Len(t)
           u == Append(t, e)
           P == Telemetry!Of(t, "configure")
           H == Telemetry!Since(t, "health", "configure")
<1>1. n \in Nat /\ Len(u) = n + 1 /\ P \in SUBSET (1..n) /\ H \in SUBSET (1..n)
  BY OfIs, SinceIs
<1>2. Telemetry!Of(u, "configure") = IF e.kind = "configure" THEN P \cup {n + 1} ELSE P
  BY OfIs
<1>3. Telemetry!Since(u, "health", "configure") =
        IF e.kind = "configure" THEN {} ELSE IF e.kind = "health" THEN H \cup {n + 1} ELSE H
  BY SinceIs
<1>4. Telemetry!SizeOf(u) = IF e.kind = "configure" THEN e.size ELSE Telemetry!SizeOf(t)
  <2>1. Telemetry!SizeAt(u, n + 1) = IF e.kind = "configure" THEN e.size ELSE Telemetry!SizeAt(t, n)
    BY <1>1, SizeAtIs
  <2> QED
    BY <1>1, <2>1 DEF Telemetry!SizeOf
<1>5. /\ Telemetry!LastRun(u, P) = Telemetry!LastRun(t, P) /\ Telemetry!LastRun(u, P \cup {n + 1}) = e.run
      /\ Telemetry!LastRun(u, H) = Telemetry!LastRun(t, H) /\ Telemetry!LastRun(u, H \cup {n + 1}) = e.run
  BY <1>1, LastRunIs
<1>6. Telemetry!LastRun(u, {}) = 0
  BY DEF Telemetry!LastRun
<1>7. /\ settings = Telemetry!LastRun(t, P) /\ health = Telemetry!LastRun(t, H)
      /\ capacity = Telemetry!SizeOf(t) /\ size = capacity
  BY DEF ConfigurationSays
<1>8. /\ newSettings = Telemetry!LastRun(u, Telemetry!Of(u, "configure"))
      /\ newHealth = Telemetry!LastRun(u, Telemetry!Since(u, "health", "configure"))
      /\ newCapacity = Telemetry!SizeOf(u) /\ newSize = newCapacity
  <2> HIDE DEF u, n, P, H
  <2>1. CASE e.kind = "configure"
    BY <1>2, <1>3, <1>4, <1>5, <1>6, <2>1
  <2>2. CASE e.kind = "health"
    BY <1>2, <1>3, <1>4, <1>5, <1>7, <2>2
  <2>3. CASE e.kind \notin {"configure", "health"}
    BY <1>2, <1>3, <1>4, <1>5, <1>7, <2>3
  <2> QED
    BY <2>1, <2>2, <2>3
<1> QED
  BY <1>8 DEF ConfigurationSays

(* The documents, and those that say what their trail does.                *)
Documents ==
    [window : Seq(Nat), capacity : Nat, size : Nat, settings : Nat, matches : Nat,
     bypasses : Seq(Nat), health : Nat, trail : Seq(Events)]
TrueDocuments == {doc \in Documents : Telemetry!IsItsTrail(doc)}

(* A true document, part by part.                                          *)
LEMMA TrueIs ==
    ASSUME NEW doc \in Documents
    PROVE  doc \in TrueDocuments <=>
                            /\ WindowSays(doc.window, doc.trail) /\ MatchesSay(doc.matches, doc.trail)
                            /\ BypassesSay(doc.bypasses, doc.trail)
                            /\ ConfigurationSays(doc.settings, doc.health, doc.capacity, doc.size, doc.trail)
BY DEF TrueDocuments, Telemetry!IsItsTrail, WindowSays, MatchesSay, BypassesSay, ConfigurationSays

(* The default document is true, of an empty trail.                        *)
LEMMA NewIs ==
    Telemetry!New(DefaultSize, 0) \in TrueDocuments
<1> DEFINE doc == Telemetry!New(DefaultSize, 0)
<1>1. /\ doc.window = <<>> /\ doc.matches = 0 /\ doc.bypasses = <<>> /\ doc.trail = <<>>
      /\ doc.settings = 0 /\ doc.health = 0 /\ doc.capacity = DefaultSize /\ doc.size = DefaultSize
  BY DEF Telemetry!New
<1>2. <<>> \in Seq(Nat) /\ <<>> \in Seq(Events) /\ Len(<<>>) = 0
  OBVIOUS
<1>3. DefaultSize \in Nat /\ BypassLimit \in Nat
  BY LimitsAssumption DEF Telemetry!LimitsAreNumbers
<1>4. doc \in Documents
  BY <1>2, <1>3 DEF Documents, Telemetry!New
<1>5. \A kind, ended : Telemetry!Of(<<>>, kind) = {} /\ Telemetry!Since(<<>>, kind, ended) = {}
  BY DEF Telemetry!Of, Telemetry!Since
<1>6. Telemetry!Tells(<<>>, <<>>, {}) /\ Telemetry!Cardinality({}) = 0
  BY TellsNothing
<1>7. Telemetry!Length(<<>>) = 0
  <2>1. Telemetry!LastOf(<<>>, "reset") = 0
    <3>1. {0} \in SUBSET Nat /\ 0 \in {0} /\ \A m \in {0} : m <= 0
      OBVIOUS
    <3>2. Telemetry!Max({0}) = 0
      BY <3>1, MaxIs
    <3>3. {0} \cup Telemetry!Of(<<>>, "reset") = {0}
      BY <1>5
    <3> QED
      BY <3>2, <3>3 DEF Telemetry!LastOf
  <2>2. After(<<>>, 0) = {}
    BY <1>5 DEF After
  <2>3. 0 \in Bounds(<<>>)
    BY <1>6, <2>1, <2>2 DEF Bounds
  <2>4. /\ Bounds(<<>>) \in SUBSET Nat
        /\ \A n \in Bounds(<<>>) : (\A b \in Bounds(<<>>) : n <= b) => Telemetry!Length(<<>>) = n
    BY <1>2, LengthIs
  <2>5. \A b \in Bounds(<<>>) : 0 <= b
    BY <2>4
  <2> QED
    BY <2>3, <2>4, <2>5
<1>8. Telemetry!SizeOf(<<>>) = DefaultSize
  <2>1. {i \in Telemetry!Of(<<>>, "configure") : i <= 0} = {}
    BY <1>5
  <2> QED
    BY <1>2, <2>1 DEF Telemetry!SizeOf, Telemetry!SizeAt
<1>9. Telemetry!Min({0, BypassLimit}) = 0
  BY <1>3, SmallerIs DEF Smaller
<1>10. WindowSays(<<>>, <<>>)
  BY <1>2, <1>5, <1>6, <1>7 DEF WindowSays
<1>11. MatchesSay(0, <<>>)
  BY <1>5, <1>6 DEF MatchesSay
<1>12. BypassesSay(<<>>, <<>>)
  BY <1>2, <1>5, <1>6, <1>9 DEF BypassesSay
<1>13. ConfigurationSays(0, 0, DefaultSize, DefaultSize, <<>>)
  BY <1>5, <1>8 DEF ConfigurationSays, Telemetry!LastRun
<1> QED
  BY <1>1, <1>4, <1>10, <1>11, <1>12, <1>13, TrueIs

(* A true document stays true when what an event does to it is what its    *)
(* trail tells of the event.                                               *)
LEMMA TrueKept ==
    ASSUME NEW doc \in TrueDocuments, NEW e \in Events, NEW new \in Documents,
           new.trail = Append(doc.trail, e),
           \/ e.kind = "reset" /\ new.window = <<>>
           \/ e.kind = "configure" /\ Ends(new.window, doc.window) /\ Len(new.window) = Smaller(Len(doc.window), e.size)
           \/ /\ e.kind = "evaluation"
              /\ \E s : /\ Ends(s, doc.window) /\ new.window = Append(s, e.run)
                        /\ Len(s) + 1 = Smaller(Len(doc.window) + 1, Telemetry!SizeOf(doc.trail))
           \/ e.kind \notin {"reset", "configure", "evaluation"} /\ new.window = doc.window,
           \/ e.kind = "reset" /\ new.matches = 0
           \/ e.kind = "evaluation" /\ new.matches = doc.matches + (IF e.matched THEN 1 ELSE 0)
           \/ e.kind \notin {"reset", "evaluation"} /\ new.matches = doc.matches,
           \/ e.kind = "reset" /\ new.bypasses = <<>>
           \/ /\ e.kind = "bypass"
              /\ \E s : /\ Ends(s, doc.bypasses) /\ new.bypasses = Append(s, e.run)
                        /\ Len(s) = Smaller(Len(doc.bypasses), BypassLimit - 1)
           \/ e.kind = "configure" /\ new.bypasses = Telemetry!Newest(doc.bypasses, BypassLimit)
           \/ e.kind \notin {"reset", "bypass", "configure"} /\ new.bypasses = doc.bypasses,
           \/ /\ e.kind = "configure" /\ new.settings = e.run /\ new.health = 0
              /\ new.capacity = e.size /\ new.size = e.size
           \/ /\ e.kind = "health" /\ new.settings = doc.settings /\ new.health = e.run
              /\ new.capacity = doc.capacity /\ new.size = doc.size
           \/ /\ e.kind \notin {"configure", "health"} /\ new.settings = doc.settings /\ new.health = doc.health
              /\ new.capacity = doc.capacity /\ new.size = doc.size
    PROVE  new \in TrueDocuments /\ new.trail # <<>>
<1>1. doc \in Documents /\ doc.trail \in Seq(Events) /\ doc.window \in Seq(Nat) /\ doc.bypasses \in Seq(Nat)
  BY DEF TrueDocuments, Documents
<1>2. /\ WindowSays(doc.window, doc.trail) /\ MatchesSay(doc.matches, doc.trail)
      /\ BypassesSay(doc.bypasses, doc.trail)
      /\ ConfigurationSays(doc.settings, doc.health, doc.capacity, doc.size, doc.trail)
  BY <1>1, TrueIs
<1>3. WindowSays(new.window, new.trail)
  BY <1>1, <1>2, WindowKept
<1>4. MatchesSay(new.matches, new.trail)
  BY <1>1, <1>2, MatchesKept
<1>5. BypassesSay(new.bypasses, new.trail)
  <2>1. Len(doc.bypasses) \in Nat /\ Len(doc.bypasses) <= BypassLimit /\ BypassLimit \in Nat
    <3>1. BypassLimit \in Nat
      BY LimitsAssumption DEF Telemetry!LimitsAreNumbers
    <3> DEFINE c == Telemetry!Cardinality(Telemetry!Since(doc.trail, "bypass", "reset"))
    <3>2. c \in Nat
      <4>1. Telemetry!Since(doc.trail, "bypass", "reset") \in SUBSET (1..Len(doc.trail)) /\ Len(doc.trail) \in Nat
        BY <1>1, SinceIs
      <4> QED
        BY <4>1, CountIs
    <3>3. Len(doc.bypasses) = Telemetry!Min({c, BypassLimit})
      BY <1>2 DEF BypassesSay
    <3> HIDE DEF c
    <3> QED
      BY <3>1, <3>2, <3>3, SmallerIs DEF Smaller
  <2>2. /\ Ends(Telemetry!Newest(doc.bypasses, BypassLimit), doc.bypasses)
        /\ Len(Telemetry!Newest(doc.bypasses, BypassLimit)) = Smaller(Len(doc.bypasses), BypassLimit)
    BY <1>1, <2>1, NewestIs
  <2>3. Ends(doc.bypasses, doc.bypasses) /\ Len(doc.bypasses) = Smaller(Len(doc.bypasses), BypassLimit)
    BY <1>1, <2>1 DEF Ends, Smaller
  <2>4. CASE e.kind \notin {"reset", "bypass"}
    <3>1. Ends(new.bypasses, doc.bypasses) /\ Len(new.bypasses) = Smaller(Len(doc.bypasses), BypassLimit)
      BY <2>2, <2>3, <2>4
    <3> QED
      BY <1>1, <1>2, <2>4, <3>1, BypassesKept
  <2>5. CASE e.kind \in {"reset", "bypass"}
    BY <1>1, <1>2, <2>5, BypassesKept
  <2> QED
    BY <2>4, <2>5
<1>6. ConfigurationSays(new.settings, new.health, new.capacity, new.size, new.trail)
  BY <1>1, <1>2, ConfigurationKept
<1>7. new.trail # <<>>
  BY <1>1
<1> QED
  BY <1>3, <1>4, <1>5, <1>6, <1>7, TrueIs

(* The operations on a document.                                           *)
Noted(doc, e) == [doc EXCEPT !.trail = Append(@, e)]

(* To note an event changes the trail only.                                *)
LEMMA NotedIs ==
    ASSUME NEW doc \in Documents, NEW e \in Events
    PROVE  /\ Noted(doc, e) \in Documents /\ Noted(doc, e).trail = Append(doc.trail, e)
           /\ Noted(doc, e).window = doc.window /\ Noted(doc, e).matches = doc.matches
           /\ Noted(doc, e).bypasses = doc.bypasses
           /\ Noted(doc, e).settings = doc.settings /\ Noted(doc, e).health = doc.health
           /\ Noted(doc, e).capacity = doc.capacity /\ Noted(doc, e).size = doc.size
<1> DEFINE trail == Append(doc.trail, e)
<1>1. doc.trail \in Seq(Events)
  BY DEF Documents
<1>2. trail \in Seq(Events)
  BY <1>1
<1>3. Noted(doc, e) = [doc EXCEPT !.trail = trail]
  BY DEF Noted
<1> HIDE DEF trail
<1>4. [doc EXCEPT !.trail = trail] \in Documents
  BY <1>2 DEF Documents
<1>5. /\ [doc EXCEPT !.trail = trail].trail = trail
      /\ [doc EXCEPT !.trail = trail].window = doc.window
      /\ [doc EXCEPT !.trail = trail].matches = doc.matches
      /\ [doc EXCEPT !.trail = trail].bypasses = doc.bypasses
      /\ [doc EXCEPT !.trail = trail].settings = doc.settings
      /\ [doc EXCEPT !.trail = trail].health = doc.health
      /\ [doc EXCEPT !.trail = trail].capacity = doc.capacity
      /\ [doc EXCEPT !.trail = trail].size = doc.size
  BY DEF Documents
<1> QED
  BY <1>3, <1>4, <1>5 DEF trail

(* A hook begins.                                                          *)
LEMMA HookNoted ==
    ASSUME NEW doc \in TrueDocuments, NEW e \in Events, e.kind = "hook"
    PROVE  Noted(doc, e) \in TrueDocuments /\ Noted(doc, e).trail # <<>>
<1> DEFINE new == Noted(doc, e)
<1>1. doc \in Documents
  BY DEF TrueDocuments
<1>2. /\ new \in Documents /\ new.trail = Append(doc.trail, e)
      /\ new.window = doc.window /\ new.matches = doc.matches /\ new.bypasses = doc.bypasses
      /\ new.settings = doc.settings /\ new.health = doc.health
      /\ new.capacity = doc.capacity /\ new.size = doc.size
  BY <1>1, NotedIs
<1> HIDE DEF new
<1> QED
  BY <1>2, TrueKept DEF new

(* A bypass goes to the end of the audit, of which the oldest may go.      *)
LEMMA BypassNoted ==
    ASSUME NEW doc \in TrueDocuments, NEW e \in Events, e.kind = "bypass"
    PROVE  LET new == Noted([doc EXCEPT !.bypasses = Append(Telemetry!Newest(@, BypassLimit - 1), e.run)], e)
           IN new \in TrueDocuments /\ new.trail # <<>>
<1> DEFINE kept == Telemetry!Newest(doc.bypasses, BypassLimit - 1)
           list == Append(kept, e.run)
           put == [doc EXCEPT !.bypasses = list]
           new == Noted(put, e)
<1>1. doc \in Documents /\ doc.bypasses \in Seq(Nat)
  BY DEF TrueDocuments, Documents
<1>2. BypassLimit - 1 \in Nat
  BY LimitsAssumption DEF Telemetry!LimitsAreNumbers
<1>3. Ends(kept, doc.bypasses) /\ Len(kept) = Smaller(Len(doc.bypasses), BypassLimit - 1)
  BY <1>1, <1>2, NewestIs
<1>4. list \in Seq(Nat)
  <2>1. kept \in Seq(Nat) /\ e.run \in Nat
    BY <1>3 DEF Ends, Events
  <2> HIDE DEF kept
  <2> QED
    BY <2>1
<1> HIDE DEF list
<1>5. /\ put \in Documents /\ put.trail = doc.trail
      /\ put.window = doc.window /\ put.matches = doc.matches /\ put.bypasses = list
      /\ put.settings = doc.settings /\ put.health = doc.health
      /\ put.capacity = doc.capacity /\ put.size = doc.size
  BY <1>1, <1>4 DEF Documents
<1> HIDE DEF put
<1>6. /\ new \in Documents /\ new.trail = Append(doc.trail, e)
      /\ new.window = doc.window /\ new.matches = doc.matches /\ new.bypasses = list
      /\ new.settings = doc.settings /\ new.health = doc.health
      /\ new.capacity = doc.capacity /\ new.size = doc.size
  BY <1>5, NotedIs
<1>7. new \in TrueDocuments /\ new.trail # <<>>
  <2> HIDE DEF new, kept
  <2> QED
    BY <1>3, <1>6, TrueKept DEF list
<1> QED
  BY <1>7 DEF put, list

(* The health tracker writes its copy.                                     *)
LEMMA HealthNoted ==
    ASSUME NEW doc \in TrueDocuments, NEW e \in Events, e.kind = "health"
    PROVE  LET new == Noted([doc EXCEPT !.health = e.run], e)
           IN new \in TrueDocuments /\ new.trail # <<>>
<1> DEFINE put == [doc EXCEPT !.health = e.run]
           new == Noted(put, e)
<1>1. doc \in Documents /\ e.run \in Nat
  BY DEF TrueDocuments, Events
<1>2. /\ put \in Documents /\ put.trail = doc.trail
      /\ put.window = doc.window /\ put.matches = doc.matches /\ put.bypasses = doc.bypasses
      /\ put.settings = doc.settings /\ put.health = e.run
      /\ put.capacity = doc.capacity /\ put.size = doc.size
  BY <1>1 DEF Documents
<1> HIDE DEF put
<1>3. /\ new \in Documents /\ new.trail = Append(doc.trail, e)
      /\ new.window = doc.window /\ new.matches = doc.matches /\ new.bypasses = doc.bypasses
      /\ new.settings = doc.settings /\ new.health = e.run
      /\ new.capacity = doc.capacity /\ new.size = doc.size
  BY <1>2, NotedIs
<1>4. new \in TrueDocuments /\ new.trail # <<>>
  <2> HIDE DEF new
  <2> QED
    BY <1>3, TrueKept
<1> QED
  BY <1>4 DEF put

(* A reset empties what it counts.                                         *)
LEMMA ResetNoted ==
    ASSUME NEW doc \in TrueDocuments, NEW e \in Events, e.kind = "reset"
    PROVE  LET new == Noted([doc EXCEPT !.window = <<>>, !.matches = 0, !.bypasses = <<>>], e)
           IN new \in TrueDocuments /\ new.trail # <<>>
<1> DEFINE empty == <<>>
           put == [doc EXCEPT !.window = empty, !.matches = 0, !.bypasses = empty]
           new == Noted(put, e)
<1>1. doc \in Documents /\ empty \in Seq(Nat)
  BY DEF TrueDocuments
<1> HIDE DEF empty
<1>2. /\ put \in Documents /\ put.trail = doc.trail
      /\ put.window = empty /\ put.matches = 0 /\ put.bypasses = empty
      /\ put.settings = doc.settings /\ put.health = doc.health
      /\ put.capacity = doc.capacity /\ put.size = doc.size
  BY <1>1 DEF Documents
<1> HIDE DEF put
<1>3. /\ new \in Documents /\ new.trail = Append(doc.trail, e)
      /\ new.window = empty /\ new.matches = 0 /\ new.bypasses = empty
      /\ new.settings = doc.settings /\ new.health = doc.health
      /\ new.capacity = doc.capacity /\ new.size = doc.size
  BY <1>2, NotedIs
<1>4. new \in TrueDocuments /\ new.trail # <<>>
  <2> HIDE DEF new
  <2> QED
    BY <1>3, TrueKept DEF empty
<1> QED
  BY <1>4 DEF put, empty

(* A configuration rebuilds the document.                                  *)
LEMMA ConfigureNoted ==
    ASSUME NEW doc \in TrueDocuments, NEW e \in Events, e.kind = "configure"
    PROVE  LET new == Noted(Telemetry!Rebuilt(doc, e.size, e.run), e)
           IN new \in TrueDocuments /\ new.trail # <<>>
<1> DEFINE new == Noted(Telemetry!Rebuilt(doc, e.size, e.run), e)
           window == Telemetry!Newest(doc.window, e.size)
           bypasses == Telemetry!Newest(doc.bypasses, BypassLimit)
<1>1. /\ doc \in Documents /\ doc.bypasses \in Seq(Nat) /\ doc.window \in Seq(Nat)
      /\ doc.matches \in Nat /\ doc.trail \in Seq(Events) /\ e.size \in Nat /\ e.run \in Nat
  BY DEF TrueDocuments, Documents, Events
<1>2. BypassLimit \in Nat
  BY LimitsAssumption DEF Telemetry!LimitsAreNumbers
<1>3. /\ Ends(window, doc.window) /\ Len(window) = Smaller(Len(doc.window), e.size)
      /\ window \in Seq(Nat) /\ bypasses \in Seq(Nat)
  BY <1>1, <1>2, NewestIs DEF Ends
<1> DEFINE matches == doc.matches
           trail == Append(doc.trail, e)
           old == doc.trail
           size == e.size
           run == e.run
<1>4. new = [window |-> window, capacity |-> size, size |-> size, settings |-> run, matches |-> matches,
             bypasses |-> bypasses, health |-> 0, trail |-> trail]
  <2>1. Telemetry!Rebuilt(doc, size, run) =
          [[window |-> <<>>, capacity |-> size, size |-> size, settings |-> run, matches |-> 0,
            bypasses |-> <<>>, health |-> 0, trail |-> <<>>]
           EXCEPT !.window = window, !.matches = matches, !.bypasses = bypasses, !.trail = old]
    BY DEF Telemetry!Rebuilt, Telemetry!New
  <2> HIDE DEF window, bypasses, matches, old, size, run
  <2>2. Telemetry!Rebuilt(doc, size, run) =
          [window |-> window, capacity |-> size, size |-> size, settings |-> run, matches |-> matches,
           bypasses |-> bypasses, health |-> 0, trail |-> old]
    BY <2>1
  <2> QED
    BY <2>2 DEF Noted, old, size, run
<1> HIDE DEF new, window, bypasses, matches, size, run
<1>5. trail \in Seq(Events)
  BY <1>1
<1> HIDE DEF trail
<1>6. new \in Documents
  BY <1>1, <1>3, <1>4, <1>5 DEF Documents, matches, size, run
<1>7. /\ new.trail = trail /\ new.window = window /\ new.matches = matches /\ new.bypasses = bypasses
      /\ new.settings = run /\ new.health = 0 /\ new.capacity = size /\ new.size = size
  BY <1>4
<1> QED
  BY <1>3, <1>6, <1>7, TrueKept DEF new, trail, bypasses, matches, size, run

(* An evaluation goes to the end of the window.                            *)
LEMMA EvaluationNoted ==
    ASSUME NEW doc \in TrueDocuments, NEW e \in Events, e.kind = "evaluation", ~ Telemetry!PushPanics(doc)
    PROVE  LET new == [Telemetry!Push(doc, e.run) EXCEPT !.matches = @ + (IF e.matched THEN 1 ELSE 0),
                                                         !.trail = Append(@, e)]
           IN new \in TrueDocuments /\ new.trail # <<>>
<1> DEFINE rest == IF Len(doc.window) = doc.capacity THEN Tail(doc.window) ELSE doc.window
           list == Append(rest, e.run)
           more == doc.matches + (IF e.matched THEN 1 ELSE 0)
           trail == Append(doc.trail, e)
           new == [Telemetry!Push(doc, e.run) EXCEPT !.matches = @ + (IF e.matched THEN 1 ELSE 0),
                                                     !.trail = Append(@, e)]
<1>1. /\ doc \in Documents /\ doc.window \in Seq(Nat) /\ doc.trail \in Seq(Events)
      /\ doc.matches \in Nat /\ doc.capacity \in Nat /\ e.run \in Nat
  BY DEF TrueDocuments, Documents, Events
<1>2. WindowSays(doc.window, doc.trail) /\ doc.capacity = Telemetry!SizeOf(doc.trail)
  BY <1>1, TrueIs DEF ConfigurationSays
<1>3. Len(doc.window) \in Nat /\ Len(doc.window) <= doc.capacity
  BY <1>1, <1>2, LengthGrows DEF WindowSays
<1>4. Ends(rest, doc.window) /\ Len(rest) + 1 = Smaller(Len(doc.window) + 1, doc.capacity)
  <2>1. CASE Len(doc.window) = doc.capacity
    <3>1. doc.window # <<>>
      BY <1>1, <2>1 DEF Telemetry!PushPanics
    <3>2. rest = Tail(doc.window)
      BY <2>1
    <3>3. Ends(rest, doc.window) /\ Len(rest) = Len(doc.window) - 1
      BY <1>1, <3>1, <3>2, TailIs
    <3> HIDE DEF rest
    <3> QED
      BY <1>3, <2>1, <3>3 DEF Smaller
  <2>2. CASE Len(doc.window) # doc.capacity
    <3>1. rest = doc.window
      BY <2>2
    <3>2. Ends(doc.window, doc.window)
      BY <1>1, <1>3 DEF Ends
    <3>3. Ends(rest, doc.window)
      BY <3>1, <3>2
    <3> HIDE DEF rest
    <3> QED
      BY <1>1, <1>3, <2>2, <3>1, <3>3 DEF Smaller
  <2> QED
    BY <2>1, <2>2
<1>5. list \in Seq(Nat)
  <2>1. rest \in Seq(Nat)
    BY <1>4 DEF Ends
  <2> HIDE DEF rest
  <2> QED
    BY <1>1, <2>1
<1>6. trail \in Seq(Events) /\ more \in Nat
  BY <1>1
<1>7. new = [[doc EXCEPT !.window = list] EXCEPT !.matches = more, !.trail = trail]
  <2>1. Telemetry!Push(doc, e.run) = [doc EXCEPT !.window = list]
    BY DEF Telemetry!Push
  <2> HIDE DEF list
  <2>2. [doc EXCEPT !.window = list].matches = doc.matches /\ [doc EXCEPT !.window = list].trail = doc.trail
    BY <1>1 DEF Documents
  <2> QED
    BY <2>1, <2>2
<1> HIDE DEF new, list, more, trail
<1>8. new = [doc EXCEPT !.window = list, !.matches = more, !.trail = trail]
  BY <1>7
<1>9. /\ new \in Documents /\ new.trail = trail
      /\ new.window = list /\ new.matches = more /\ new.bypasses = doc.bypasses
      /\ new.settings = doc.settings /\ new.health = doc.health
      /\ new.capacity = doc.capacity /\ new.size = doc.size
  BY <1>1, <1>5, <1>6, <1>8 DEF Documents
<1>10. new \in TrueDocuments /\ new.trail # <<>>
  <2>1. /\ Ends(rest, doc.window) /\ new.window = Append(rest, e.run)
        /\ Len(rest) + 1 = Smaller(Len(doc.window) + 1, Telemetry!SizeOf(doc.trail))
    BY <1>2, <1>4, <1>9 DEF list
  <2>2. new.matches = doc.matches + (IF e.matched THEN 1 ELSE 0) /\ new.trail = Append(doc.trail, e)
    BY <1>9 DEF more, trail
  <2> HIDE DEF rest
  <2> QED
    BY <1>9, <2>1, <2>2, TrueKept
<1> QED
  BY <1>10 DEF new

(* A push into a window of no size comes after an operator chose one.      *)
LEMMA PanicIsConfigured ==
    ASSUME NEW doc \in TrueDocuments, Telemetry!PushPanics(doc)
    PROVE  \E i \in Telemetry!Of(doc.trail, "configure") : doc.trail[i].size = 0 /\ Telemetry!SizeOf(doc.trail) = 0
<1> DEFINE t == doc.trail
           S == {i \in Telemetry!Of(t, "configure") : i <= Len(t)}
<1>1. doc \in Documents /\ t \in Seq(Events)
  BY DEF TrueDocuments, Documents
<1>2. Telemetry!SizeOf(t) = 0
  BY <1>1, TrueIs DEF ConfigurationSays, Telemetry!PushPanics
<1>3. Telemetry!SizeOf(t) = IF S = {} THEN DefaultSize ELSE t[Telemetry!Max(S)].size
  BY DEF Telemetry!SizeOf, Telemetry!SizeAt
<1>4. DefaultSize # 0
  BY LimitsAssumption DEF Telemetry!LimitsAreNumbers
<1>5. S # {} /\ t[Telemetry!Max(S)].size = 0
  BY <1>2, <1>3, <1>4
<1>6. S \in SUBSET Nat /\ Len(t) \in Nat /\ \A m \in S : m <= Len(t)
  BY <1>1 DEF Telemetry!Of
<1>7. Telemetry!Max(S) \in S
  <2> HIDE DEF S
  <2> QED
    BY <1>5, <1>6, GreatestIs
<1> QED
  BY <1>2, <1>5, <1>7

(* The inductive invariant: every document, on disk or in a memory, is     *)
(* true, and one in a memory has begun its trail.                          *)
Holdings == {<<>>} \cup {<<doc>> : doc \in {d \in TrueDocuments : d.trail # <<>>}}
TelemetryInvariant ==
    /\ runs \in Nat
    /\ file \in {<<>>} \cup {<<doc>> : doc \in TrueDocuments}
    /\ held \in [Processes -> Holdings]
    /\ Telemetry!PanicsAreConfigured

(* At the start there are no documents.                                    *)
LEMMA TelemetryStarts ==
    ReleaseInit => TelemetryInvariant
<1> SUFFICES ASSUME Telemetry!TelemetryInit PROVE TelemetryInvariant
  BY DEF ReleaseInit
<1>1. held = [p \in Processes |-> <<>>] /\ <<>> \in Holdings
  BY DEF Telemetry!TelemetryInit, Holdings
<1>2. held \in [Processes -> Holdings]
  BY <1>1
<1>3. runs \in Nat /\ file = <<>> /\ panics = {}
  BY DEF Telemetry!TelemetryInit
<1> QED
  BY <1>2, <1>3 DEF TelemetryInvariant, Telemetry!PanicsAreConfigured

(* What an invocation loads or holds is true.                              *)
LEMMA HoldsTrue ==
    ASSUME TelemetryInvariant
    PROVE  /\ Telemetry!Current \in TrueDocuments
           /\ \A p \in Processes : held[p] # <<>> =>
                held[p][1] \in TrueDocuments /\ held[p][1].trail # <<>> /\ held[p] = <<held[p][1]>>
<1>1. Telemetry!Current \in TrueDocuments
  <2>1. CASE file = <<>>
    <3>1. Telemetry!Current = Telemetry!New(DefaultSize, 0)
      BY <2>1 DEF Telemetry!Current
    <3> QED
      BY <3>1, NewIs
  <2>2. CASE file # <<>>
    <3>1. PICK doc \in TrueDocuments : file = <<doc>>
      BY <2>2 DEF TelemetryInvariant
    <3>2. Telemetry!Current = file[1]
      BY <2>2 DEF Telemetry!Current
    <3> QED
      BY <3>1, <3>2
  <2> QED
    BY <2>1, <2>2
<1>2. ASSUME NEW p \in Processes, held[p] # <<>>
      PROVE  held[p][1] \in TrueDocuments /\ held[p][1].trail # <<>> /\ held[p] = <<held[p][1]>>
  <2>1. held[p] \in Holdings
    BY DEF TelemetryInvariant
  <2>2. PICK doc \in {d \in TrueDocuments : d.trail # <<>>} : held[p] = <<doc>>
    BY <1>2, <2>1 DEF Holdings
  <2> QED
    BY <2>2
<1> QED
  BY <1>1, <1>2

(* An invocation begins with a true document.                              *)
LEMMA HeldStaysTrue ==
    ASSUME TelemetryInvariant, NEW p \in Processes, NEW doc \in TrueDocuments, doc.trail # <<>>,
           held' = [held EXCEPT ![p] = <<doc>>], UNCHANGED <<file, panics>>, runs' \in Nat
    PROVE  TelemetryInvariant'
<1>1. <<doc>> \in Holdings
  BY DEF Holdings
<1>2. held' \in [Processes -> Holdings]
  BY <1>1 DEF TelemetryInvariant
<1>3. Telemetry!PanicsAreConfigured'
  BY DEF TelemetryInvariant, Telemetry!PanicsAreConfigured
<1> QED
  BY <1>2, <1>3 DEF TelemetryInvariant

(* An invocation ends.                                                     *)
LEMMA HeldStopsTrue ==
    ASSUME TelemetryInvariant, NEW p \in Processes,
           held' = [held EXCEPT ![p] = <<>>], file' \in {<<>>} \cup {<<doc>> : doc \in TrueDocuments},
           Telemetry!PanicsAreConfigured', runs' = runs
    PROVE  TelemetryInvariant'
<1>1. <<>> \in Holdings
  BY DEF Holdings
<1>2. held' \in [Processes -> Holdings]
  BY <1>1 DEF TelemetryInvariant
<1> QED
  BY <1>2 DEF TelemetryInvariant

(* An event is what it is made of.                                         *)
LEMMA EventIs ==
    ASSUME NEW kind \in EventKinds, NEW run \in Nat, NEW size \in Nat, NEW matched \in BOOLEAN
    PROVE  /\ Telemetry!Event(kind, run, size, matched) \in Events
           /\ Telemetry!Event(kind, run, size, matched).kind = kind
           /\ Telemetry!Event(kind, run, size, matched).run = run
           /\ Telemetry!Event(kind, run, size, matched).size = size
           /\ Telemetry!Event(kind, run, size, matched).matched = matched
BY DEF Telemetry!Event, Events

(* An invocation that notes its event in a true document holds one.        *)
LEMMA BeginKeeps ==
    ASSUME TelemetryInvariant, NEW p \in Processes, NEW kind \in EventKinds, NEW size \in Nat, NEW doc,
           Telemetry!Begin(p), Telemetry!Hold(p, kind, size, doc),
           /\ Noted(doc, Telemetry!Event(kind, runs + 1, size, FALSE)) \in TrueDocuments
           /\ Noted(doc, Telemetry!Event(kind, runs + 1, size, FALSE)).trail # <<>>
    PROVE  TelemetryInvariant'
<1> DEFINE new == Noted(doc, Telemetry!Event(kind, runs + 1, size, FALSE))
<1>1. runs \in Nat /\ runs' = runs + 1 /\ UNCHANGED <<file, panics>>
  BY DEF TelemetryInvariant, Telemetry!Begin, Telemetry!Hold
<1>2. held' = [held EXCEPT ![p] = <<new>>]
  BY DEF Telemetry!Hold, Noted
<1> HIDE DEF new
<1>3. new \in TrueDocuments /\ new.trail # <<>>
  BY DEF new
<1>4. runs' \in Nat
  BY <1>1
<1> QED
  BY <1>1, <1>2, <1>3, <1>4, HeldStaysTrue

(* Each operation keeps the documents true.                                *)
LEMMA StartHookTrue ==
    ASSUME TelemetryInvariant, NEW p \in Processes, Telemetry!StartHook(p)
    PROVE  TelemetryInvariant'
<1> DEFINE doc == IF torn THEN Telemetry!New(DefaultSize, 0) ELSE Telemetry!Current
           e == Telemetry!Event("hook", runs + 1, 0, FALSE)
<1>1. Telemetry!Begin(p) /\ Telemetry!Hold(p, "hook", 0, doc)
  BY DEF Telemetry!StartHook
<1>2. doc \in TrueDocuments
  BY NewIs, HoldsTrue
<1>3. runs + 1 \in Nat /\ 0 \in Nat /\ "hook" \in EventKinds /\ FALSE \in BOOLEAN
  BY DEF TelemetryInvariant, EventKinds
<1>4. e \in Events /\ e.kind = "hook"
  BY <1>3, EventIs
<1> HIDE DEF doc, e
<1>5. Noted(doc, e) \in TrueDocuments /\ Noted(doc, e).trail # <<>>
  BY <1>2, <1>4, HookNoted
<1> QED
  BY <1>1, <1>3, <1>5, BeginKeeps DEF e

LEMMA RecordBypassTrue ==
    ASSUME TelemetryInvariant, NEW p \in Processes, Telemetry!RecordBypass(p)
    PROVE  TelemetryInvariant'
<1> DEFINE old == Telemetry!Current
           run == runs + 1
           e == Telemetry!Event("bypass", run, 0, FALSE)
           doc == [old EXCEPT !.bypasses = Append(Telemetry!Newest(@, BypassLimit - 1), run)]
<1>1. Telemetry!Begin(p) /\ Telemetry!Hold(p, "bypass", 0, doc)
  BY DEF Telemetry!RecordBypass
<1>2. old \in TrueDocuments
  BY HoldsTrue
<1>3. run \in Nat /\ 0 \in Nat /\ "bypass" \in EventKinds /\ FALSE \in BOOLEAN
  BY DEF TelemetryInvariant, EventKinds
<1> HIDE DEF old, run
<1>4. e \in Events /\ e.kind = "bypass" /\ e.run = run
  BY <1>3, EventIs
<1> HIDE DEF e
<1>5. Noted(doc, e) \in TrueDocuments /\ Noted(doc, e).trail # <<>>
  BY <1>2, <1>4, BypassNoted
<1> HIDE DEF doc
<1> QED
  BY <1>1, <1>3, <1>5, BeginKeeps DEF e, run

LEMMA SyncHealthTrue ==
    ASSUME TelemetryInvariant, NEW p \in Processes, Telemetry!SyncHealth(p)
    PROVE  TelemetryInvariant'
<1> DEFINE old == Telemetry!Current
           run == runs + 1
           e == Telemetry!Event("health", run, 0, FALSE)
           doc == [old EXCEPT !.health = run]
<1>1. Telemetry!Begin(p) /\ Telemetry!Hold(p, "health", 0, doc)
  BY DEF Telemetry!SyncHealth
<1>2. old \in TrueDocuments
  BY HoldsTrue
<1>3. run \in Nat /\ 0 \in Nat /\ "health" \in EventKinds /\ FALSE \in BOOLEAN
  BY DEF TelemetryInvariant, EventKinds
<1> HIDE DEF old, run
<1>4. e \in Events /\ e.kind = "health" /\ e.run = run
  BY <1>3, EventIs
<1> HIDE DEF e
<1>5. Noted(doc, e) \in TrueDocuments /\ Noted(doc, e).trail # <<>>
  BY <1>2, <1>4, HealthNoted
<1> HIDE DEF doc
<1> QED
  BY <1>1, <1>3, <1>5, BeginKeeps DEF e, run

LEMMA ResetTrue ==
    ASSUME TelemetryInvariant, NEW p \in Processes, Telemetry!Reset(p)
    PROVE  TelemetryInvariant'
<1> DEFINE old == Telemetry!Current
           e == Telemetry!Event("reset", runs + 1, 0, FALSE)
           doc == [old EXCEPT !.window = <<>>, !.matches = 0, !.bypasses = <<>>]
<1>1. Telemetry!Begin(p) /\ Telemetry!Hold(p, "reset", 0, doc)
  BY DEF Telemetry!Reset
<1>2. old \in TrueDocuments
  BY HoldsTrue
<1>3. runs + 1 \in Nat /\ 0 \in Nat /\ "reset" \in EventKinds /\ FALSE \in BOOLEAN
  BY DEF TelemetryInvariant, EventKinds
<1> HIDE DEF old
<1>4. e \in Events /\ e.kind = "reset"
  BY <1>3, EventIs
<1> HIDE DEF e
<1>5. Noted(doc, e) \in TrueDocuments /\ Noted(doc, e).trail # <<>>
  BY <1>2, <1>4, ResetNoted
<1> HIDE DEF doc
<1> QED
  BY <1>1, <1>3, <1>5, BeginKeeps DEF e

LEMMA ConfigureTrue ==
    ASSUME TelemetryInvariant, NEW p \in Processes,
           NEW size \in Sizes \cup {Telemetry!Current.size}, Telemetry!Configure(p, size)
    PROVE  TelemetryInvariant'
<1> DEFINE old == Telemetry!Current
           run == runs + 1
           e == Telemetry!Event("configure", run, size, FALSE)
           doc == Telemetry!Rebuilt(old, size, run)
<1>1. Telemetry!Begin(p) /\ Telemetry!Hold(p, "configure", size, doc)
  BY DEF Telemetry!Configure
<1>2. old \in TrueDocuments
  BY HoldsTrue
<1>3. run \in Nat /\ "configure" \in EventKinds /\ FALSE \in BOOLEAN
  BY DEF TelemetryInvariant, EventKinds
<1>4. size \in Nat
  BY <1>2, LimitsAssumption DEF Telemetry!LimitsAreNumbers, TrueDocuments, Documents
<1> HIDE DEF old, run
<1>5. e \in Events /\ e.kind = "configure" /\ e.run = run /\ e.size = size
  BY <1>3, <1>4 DEF Telemetry!Event, Events
<1> HIDE DEF e
<1>6. Noted(doc, e) \in TrueDocuments /\ Noted(doc, e).trail # <<>>
  BY <1>2, <1>5, ConfigureNoted
<1> HIDE DEF doc
<1> QED
  BY <1>1, <1>3, <1>4, <1>6, BeginKeeps DEF e, run

LEMMA EvaluateTrue ==
    ASSUME TelemetryInvariant, NEW p \in Processes, NEW matched \in BOOLEAN, Telemetry!Evaluate(p, matched)
    PROVE  TelemetryInvariant'
<1> DEFINE doc == held[p][1]
           run == Telemetry!Last(doc.trail).run
           e == Telemetry!Event("evaluation", run, 0, matched)
           new == [Telemetry!Push(doc, run) EXCEPT !.matches = @ + (IF matched THEN 1 ELSE 0), !.trail = Append(@, e)]
<1>1. held[p] # <<>> /\ UNCHANGED <<file, torn, runs>>
  BY DEF Telemetry!Evaluate
<1>2. IF Telemetry!PushPanics(doc)
      THEN held' = [held EXCEPT ![p] = <<>>] /\ panics' = panics \cup {doc}
      ELSE held' = [held EXCEPT ![p] = <<new>>] /\ UNCHANGED panics
  BY DEF Telemetry!Evaluate
<1>3. doc \in TrueDocuments /\ doc.trail # <<>>
  BY <1>1, HoldsTrue
<1>4. run \in Nat
  <2>1. doc.trail \in Seq(Events)
    BY <1>3 DEF TrueDocuments, Documents
  <2> DEFINE t == doc.trail
  <2>2. t[Len(t)] \in Events
    <3> HIDE DEF doc
    <3>1. t \in Seq(Events) /\ t # <<>>
      BY <1>3, <2>1
    <3> HIDE DEF t
    <3> QED
      BY <3>1
  <2> QED
    BY <2>2 DEF Telemetry!Last, Events
<1>5. "evaluation" \in EventKinds /\ 0 \in Nat /\ runs \in Nat
  BY DEF EventKinds, TelemetryInvariant
<1>6. file' \in {<<>>} \cup {<<d>> : d \in TrueDocuments}
  BY <1>1 DEF TelemetryInvariant
<1>7. Telemetry!PanicsAreConfigured
  BY DEF TelemetryInvariant
<1> HIDE DEF doc, run
<1>8. e \in Events /\ e.kind = "evaluation" /\ e.run = run /\ e.matched = matched
  BY <1>4, <1>5, EventIs
<1> HIDE DEF e
<1>9. CASE Telemetry!PushPanics(doc)
  <2>1. held' = [held EXCEPT ![p] = <<>>] /\ panics' = panics \cup {doc}
    BY <1>2, <1>9
  <2>2. Telemetry!PanicsAreConfigured'
    BY <1>3, <1>7, <1>9, <2>1, PanicIsConfigured DEF Telemetry!PanicsAreConfigured
  <2> QED
    BY <1>1, <1>6, <2>1, <2>2, HeldStopsTrue
<1>10. CASE ~ Telemetry!PushPanics(doc)
  <2>1. held' = [held EXCEPT ![p] = <<new>>] /\ UNCHANGED panics
    BY <1>2, <1>10
  <2>2. new \in TrueDocuments /\ new.trail # <<>>
    BY <1>3, <1>8, <1>10, EvaluationNoted
  <2> HIDE DEF new
  <2> QED
    BY <1>1, <1>5, <2>1, <2>2, HeldStaysTrue
<1> QED
  BY <1>9, <1>10

LEMMA SaveTrue ==
    ASSUME TelemetryInvariant, NEW p \in Processes, Telemetry!Save(p) \/ Telemetry!LeaveUnsaved(p)
    PROVE  TelemetryInvariant'
<1>1. held' = [held EXCEPT ![p] = <<>>] /\ runs' = runs /\ panics' = panics
  BY DEF Telemetry!Save, Telemetry!LeaveUnsaved
<1>2. file' \in {<<>>} \cup {<<doc>> : doc \in TrueDocuments}
  <2>1. CASE Telemetry!Save(p)
    <3>1. file' = held[p] /\ held[p] # <<>>
      BY <2>1 DEF Telemetry!Save
    <3>2. held[p][1] \in TrueDocuments /\ held[p] = <<held[p][1]>>
      BY <3>1, HoldsTrue
    <3> QED
      BY <3>1, <3>2
  <2>2. CASE Telemetry!LeaveUnsaved(p)
    BY <2>2 DEF Telemetry!LeaveUnsaved, TelemetryInvariant
  <2> QED
    BY <2>1, <2>2
<1>3. Telemetry!PanicsAreConfigured'
  BY <1>1 DEF TelemetryInvariant, Telemetry!PanicsAreConfigured
<1> QED
  BY <1>1, <1>2, <1>3, HeldStopsTrue

(* Every step keeps the documents true.                                    *)
LEMMA TelemetryStays ==
    TelemetryInvariant /\ [Telemetry!TelemetryNext]_telemetryVars => TelemetryInvariant'
<1> SUFFICES ASSUME TelemetryInvariant, [Telemetry!TelemetryNext]_telemetryVars
             PROVE  TelemetryInvariant'
  OBVIOUS
<1>1. CASE Telemetry!MachineStops
  <2>1. held' = [p \in Processes |-> <<>>] /\ UNCHANGED <<file, runs, panics>> /\ <<>> \in Holdings
    BY <1>1 DEF Telemetry!MachineStops, Holdings
  <2>2. held' \in [Processes -> Holdings]
    BY <2>1
  <2>3. Telemetry!PanicsAreConfigured'
    BY <2>1 DEF TelemetryInvariant, Telemetry!PanicsAreConfigured
  <2> QED
    BY <2>1, <2>2, <2>3 DEF TelemetryInvariant
<1>2. CASE UNCHANGED telemetryVars
  <2>1. UNCHANGED <<file, held, runs, panics>>
    BY <1>2 DEF telemetryVars
  <2>2. Telemetry!PanicsAreConfigured'
    BY <2>1 DEF TelemetryInvariant, Telemetry!PanicsAreConfigured
  <2> QED
    BY <2>1, <2>2 DEF TelemetryInvariant
<1>3. ASSUME NEW p \in Processes,
             \/ Telemetry!StartHook(p) \/ Telemetry!RecordBypass(p) \/ Telemetry!SyncHealth(p) \/ Telemetry!Reset(p)
             \/ \E matched \in BOOLEAN : Telemetry!Evaluate(p, matched)
             \/ \E size \in Sizes \cup {Telemetry!Current.size} : Telemetry!Configure(p, size)
             \/ Telemetry!Save(p)
             \/ Telemetry!LeaveUnsaved(p)
      PROVE  TelemetryInvariant'
  BY <1>3, StartHookTrue, RecordBypassTrue, SyncHealthTrue, ResetTrue, EvaluateTrue, ConfigureTrue, SaveTrue
<1> QED
  BY <1>1, <1>2, <1>3 DEF Telemetry!TelemetryNext

(* Whoever wrote the telemetry document last, and however often the        *)
(* machine stopped or a hook was killed, the document says what the runs   *)
(* it descends from have done, and a hook ends in it only where an         *)
(* operator has configured a window of no size (telemetry.rs, persist).    *)
THEOREM TelemetryTrue == ReleaseSpec => []TelemetryIsItsTrail
<1>1. ReleaseInit => TelemetryInvariant
  BY TelemetryStarts
<1>2. TelemetryInvariant /\ [ReleaseNext]_releaseVars => TelemetryInvariant'
  BY TelemetryStep, TelemetryStays
<1>3. TelemetryInvariant => TelemetryIsItsTrail
  <2> SUFFICES ASSUME TelemetryInvariant PROVE Telemetry!TelemetryIsItsTrail
    BY DEF TelemetryIsItsTrail
  <2>1. ASSUME file # <<>> PROVE Telemetry!IsItsTrail(file[1])
    <3>1. PICK doc \in TrueDocuments : file = <<doc>>
      BY <2>1 DEF TelemetryInvariant
    <3>2. file[1] = doc
      BY <3>1
    <3> QED
      BY <3>2 DEF TrueDocuments
  <2> QED
    BY <2>1 DEF TelemetryInvariant, Telemetry!TelemetryIsItsTrail
<1> QED
  BY <1>1, <1>2, <1>3, PTL DEF ReleaseSpec

-----------------------------------------------------------------------------
(* A number that does not have a property has a least one before it.       *)
LEMMA LeastOf ==
    ASSUME NEW n \in Nat, NEW bad, bad \subseteq 0..n, bad # {}
    PROVE  \E k \in bad : \A j \in bad : k <= j
<1> QED  BY LeastIs, bad \in SUBSET Nat

(* Partial sums exist, and only once.                                      *)
SumsOf(s, f, n) == s \in [0..n -> Int] /\ s[0] = 0 /\ \A i \in 1..n : s[i] = s[i - 1] + f[i]

(* There are partial sums of every sequence of numbers.                    *)
LEMMA SumsExist ==
    ASSUME NEW n \in Nat, NEW f \in [1..n -> Int]
    PROVE  \E s : SumsOf(s, f, n)
<1> DEFINE bad == {k \in 0..n : ~\E s : SumsOf(s, f, k)}
<1>1. SUFFICES bad = {}
  <2>1. ASSUME bad = {} PROVE n \notin bad
    BY <2>1
  <2>2. n \in 0..n
    OBVIOUS
  <2> QED  BY <2>1, <2>2
<1>2. SUFFICES ASSUME bad # {} PROVE FALSE
  OBVIOUS
<1>3. PICK k \in bad : \A j \in bad : k <= j
  BY <1>2, LeastOf, bad \subseteq 0..n
<1>4. k # 0
  <2>1. SumsOf([i \in 0..0 |-> 0], f, 0)
    BY DEF SumsOf
  <2> QED  BY <2>1
<1>5. k \in 1..n /\ k - 1 \in 0..n /\ k - 1 \notin bad
  BY <1>3, <1>4
<1>6. PICK s : SumsOf(s, f, k - 1)
  BY <1>5
<1> DEFINE t == [i \in 0..k |-> IF i = k THEN s[k - 1] + f[k] ELSE s[i]]
<1>7. SumsOf(t, f, k)
  BY <1>5, <1>6 DEF SumsOf
<1> QED  BY <1>7, <1>3

(* Partial sums of one sequence are the same.                              *)
LEMMA SumsAreOne ==
    ASSUME NEW n \in Nat, NEW f, NEW s, NEW t, SumsOf(s, f, n), SumsOf(t, f, n)
    PROVE  s = t
<1> DEFINE bad == {k \in 0..n : s[k] # t[k]}
<1>1. SUFFICES bad = {}
  <2>1. bad = {} => \A k \in 0..n : s[k] = t[k]
    OBVIOUS
  <2>2. s = [k \in 0..n |-> s[k]] /\ t = [k \in 0..n |-> t[k]]
    BY DEF SumsOf
  <2> QED  BY <2>1, <2>2
<1>2. SUFFICES ASSUME bad # {} PROVE FALSE
  OBVIOUS
<1>3. PICK k \in bad : \A j \in bad : k <= j
  BY <1>2, LeastOf, bad \subseteq 0..n
<1>4. k \in 1..n /\ k - 1 \in 0..n /\ k - 1 \notin bad
  BY <1>3 DEF SumsOf
<1> QED  BY <1>3, <1>4 DEF SumsOf

(* The total of a sequence of numbers is the last of its partial sums.     *)
LEMMA TotalIs ==
    ASSUME NEW n \in Nat, NEW f \in [1..n -> Int], NEW s, SumsOf(s, f, n)
    PROVE  Rates!Total(f) = s[n] /\ s[n] \in Int
<1>1. Len(f) = n
  OBVIOUS
<1> DEFINE Body(g) == [i \in 0..n |-> IF i = 0 THEN 0 ELSE g[i - 1] + f[i]]
<1> DEFINE sums == CHOOSE g : g = Body(g)
<1>2. s = Body(s)
  BY DEF SumsOf
<1>3. sums = Body(sums)
  BY <1>2
<1>4. Rates!Total(f) = sums[n]
  BY <1>1 DEF Rates!Total
<1> HIDE DEF sums
<1>5. SumsOf(sums, f, n)
  <2> DEFINE bad == {k \in 0..n : sums[k] \notin Int}
  <2>1. DOMAIN sums = 0..n /\ sums[0] = 0 /\ \A i \in 1..n : sums[i] = sums[i - 1] + f[i]
    BY <1>3
  <2>2. bad = {}
    <3>1. SUFFICES ASSUME bad # {} PROVE FALSE
      OBVIOUS
    <3>2. PICK k \in bad : \A j \in bad : k <= j
      BY <3>1, LeastOf, bad \subseteq 0..n
    <3>3. k \in 1..n /\ k - 1 \in 0..n /\ k - 1 \notin bad
      BY <3>2, <2>1
    <3> QED  BY <3>2, <3>3, <2>1
  <2>3. sums = [i \in 0..n |-> sums[i]]
    BY <1>3
  <2> QED  BY <2>1, <2>2, <2>3 DEF SumsOf
<1>6. sums = s
  BY <1>5, SumsAreOne
<1> QED  BY <1>4, <1>6 DEF SumsOf

(* Totals are numbers.                                                     *)
LEMMA TotalType ==
    ASSUME NEW n \in Nat, NEW f \in [1..n -> Int]
    PROVE  Rates!Total(f) \in Int
  BY SumsExist, TotalIs

(* A product distributes over a sum.                                       *)
LEMMA Distributes ==
    ASSUME NEW a \in Int, NEW b \in Int, NEW p \in Int, NEW q \in Int, NEW x \in Int, NEW y \in Int
    PROVE  a * (p + x) + b * (q + y) = (a * p + b * q) + (a * x + b * y)
  OBVIOUS

(* A combination of numbers is one.                                        *)
LEMMA CombinationsAreNumbers == \A a, b, p, q \in Int : a * p + b * q \in Int
  OBVIOUS

(* The total of a combination of two sequences combines their totals.      *)
Combines(h, n, a, f, b, g) ==
    /\ n \in Nat /\ a \in Int /\ b \in Int
    /\ f \in [1..n -> Int] /\ g \in [1..n -> Int] /\ h \in [1..n -> Int]
    /\ \A i \in 1..n : h[i] = a * f[i] + b * g[i]

(* The total is linear.                                                    *)
LEMMA TotalOfCombination ==
    ASSUME NEW n, NEW a, NEW b, NEW f, NEW g, NEW h, Combines(h, n, a, f, b, g)
    PROVE  Rates!Total(h) = a * Rates!Total(f) + b * Rates!Total(g)
<1>0. /\ n \in Nat /\ a \in Int /\ b \in Int
      /\ f \in [1..n -> Int] /\ g \in [1..n -> Int] /\ h \in [1..n -> Int]
      /\ \A i \in 1..n : h[i] = a * f[i] + b * g[i]
  BY DEF Combines
<1>1. PICK s : SumsOf(s, f, n)
  BY <1>0, SumsExist
<1>2. PICK t : SumsOf(t, g, n)
  BY <1>0, SumsExist
<1> DEFINE u == [i \in 0..n |-> a * s[i] + b * t[i]]
<1>3. h \in [1..n -> Int] /\ u \in [0..n -> Int]
  BY <1>0, <1>1, <1>2 DEF SumsOf
<1>4. u[0] = 0
  <2>1. s[0] = 0 /\ t[0] = 0
    BY <1>0, <1>1, <1>2 DEF SumsOf
  <2>2. u[0] = a * s[0] + b * t[0]
    BY <1>0
  <2>3. a * 0 + b * 0 = 0
    BY <1>0
  <2> QED  BY <2>1, <2>2, <2>3
<1>5. ASSUME NEW i \in 1..n PROVE u[i] = u[i - 1] + h[i]
  <2>1. i - 1 \in 0..n /\ i \in 0..n
    BY <1>0
  <2>2. s[i] = s[i - 1] + f[i] /\ t[i] = t[i - 1] + g[i]
    BY <1>0, <1>1, <1>2 DEF SumsOf
  <2>3. s[i - 1] \in Int /\ t[i - 1] \in Int /\ f[i] \in Int /\ g[i] \in Int
    BY <1>0, <1>1, <1>2, <2>1 DEF SumsOf
  <2>4. a \in Int /\ b \in Int
    BY <1>0
  <2>5. a * (s[i - 1] + f[i]) + b * (t[i - 1] + g[i])
          = (a * s[i - 1] + b * t[i - 1]) + (a * f[i] + b * g[i])
    BY <2>3, <2>4, Distributes
  <2>6. u[i] = a * s[i] + b * t[i] /\ u[i - 1] = a * s[i - 1] + b * t[i - 1]
    BY <2>1
  <2>7. h[i] = a * f[i] + b * g[i]
    BY <1>0
  <2> HIDE DEF u
  <2> QED  BY <2>2, <2>5, <2>6, <2>7
<1>6. SumsOf(u, h, n)
  BY <1>0, <1>3, <1>4, <1>5 DEF SumsOf
<1>7. Rates!Total(h) = u[n] /\ Rates!Total(f) = s[n] /\ Rates!Total(g) = t[n]
  BY <1>0, <1>1, <1>2, <1>3, <1>6, TotalIs
<1>8. u[n] = a * s[n] + b * t[n]
  BY <1>0
<1> QED  BY <1>3, <1>7, <1>8

(* What is not less at any place is not less in total.                     *)
LEMMA TotalIsMonotone ==
    ASSUME NEW n \in Nat, NEW f \in [1..n -> Int], NEW g \in [1..n -> Int],
           \A i \in 1..n : f[i] <= g[i]
    PROVE  Rates!Total(f) <= Rates!Total(g)
<1>1. PICK s : SumsOf(s, f, n)
  BY SumsExist
<1>2. PICK t : SumsOf(t, g, n)
  BY SumsExist
<1>3. s[n] <= t[n]
  <2> DEFINE bad == {k \in 0..n : ~(s[k] <= t[k])}
  <2>1. SUFFICES ASSUME bad # {} PROVE FALSE
    <3>1. n \in 0..n
      OBVIOUS
    <3> QED  BY <3>1
  <2>2. PICK k \in bad : \A j \in bad : k <= j
    BY <2>1, LeastOf, bad \subseteq 0..n
  <2>3. k \in 1..n /\ k - 1 \in 0..n /\ k - 1 \notin bad
    BY <1>1, <1>2, <2>2 DEF SumsOf
  <2>4. s[k - 1] <= t[k - 1] /\ s[k] = s[k - 1] + f[k] /\ t[k] = t[k - 1] + g[k]
    BY <1>1, <1>2, <2>3 DEF SumsOf
  <2>5. s[k - 1] \in Int /\ t[k - 1] \in Int /\ f[k] \in Int /\ g[k] \in Int
    BY <1>1, <1>2, <2>3 DEF SumsOf
  <2> QED  BY <2>2, <2>3, <2>4, <2>5
<1> QED  BY <1>1, <1>2, <1>3, TotalIs

(* The total of a sequence of zeros, ones, or with a single one.           *)
LEMMA TotalOfUnits ==
    ASSUME NEW n \in Nat, NEW o \in 1..n
    PROVE  /\ Rates!Total([i \in 1..n |-> 0]) = 0
           /\ Rates!Total([i \in 1..n |-> 1]) = n
           /\ Rates!Total([i \in 1..n |-> IF i = o THEN 1 ELSE 0]) = 1
<1>1. SumsOf([i \in 0..n |-> 0], [i \in 1..n |-> 0], n)
  BY DEF SumsOf
<1>2. SumsOf([i \in 0..n |-> i], [i \in 1..n |-> 1], n)
  BY DEF SumsOf
<1>3. SumsOf([i \in 0..n |-> IF i < o THEN 0 ELSE 1], [i \in 1..n |-> IF i = o THEN 1 ELSE 0], n)
  BY DEF SumsOf
<1>4. [i \in 1..n |-> 0] \in [1..n -> Int] /\ [i \in 1..n |-> 1] \in [1..n -> Int]
        /\ [i \in 1..n |-> IF i = o THEN 1 ELSE 0] \in [1..n -> Int]
  OBVIOUS
<1>5. Rates!Total([i \in 1..n |-> 0]) = [i \in 0..n |-> 0][n]
  BY <1>1, <1>4, TotalIs
<1>6. Rates!Total([i \in 1..n |-> 1]) = [i \in 0..n |-> i][n]
  BY <1>2, <1>4, TotalIs
<1>7. Rates!Total([i \in 1..n |-> IF i = o THEN 1 ELSE 0]) = [i \in 0..n |-> IF i < o THEN 0 ELSE 1][n]
  BY <1>3, <1>4, TotalIs
<1> QED  BY <1>5, <1>6, <1>7

(* A square is not negative, and neither is a quotient of two such.        *)
LEMMA SquaresArePositive == \A p \in Int : p * p >= 0
  OBVIOUS

(* The arithmetic of OutlierIsBound: what a place contributes.             *)
LEMMA OutlierPlaces ==
    ASSUME NEW n \in Int, NEW d \in Int, NEW c \in Int
    PROVE  /\ ((n - 1) * (n - 1)) * (c * c) + (2 * (n - 1) * c) * c + (c * c + (- (n * n * (c * c)))) = 0
           /\ ((n - 1) * (n - 1)) * (d * d) + (2 * (n - 1) * c) * d + (c * c)
                = ((n - 1) * d + c) * ((n - 1) * d + c)
<1>1. ((n - 1) * (n - 1)) * (c * c) + (2 * (n - 1) * c) * c + (c * c + (- (n * n * (c * c)))) = 0
  OBVIOUS
<1>2. ((n - 1) * (n - 1)) * (d * d) + (2 * (n - 1) * c) * d + (c * c)
                = ((n - 1) * d + c) * ((n - 1) * d + c)
  OBVIOUS
<1> QED  BY <1>1, <1>2

(* The arithmetic of OutlierIsBound: dividing by n - 1.                    *)
LEMMA OutlierQuotient ==
    ASSUME NEW n \in Nat, n > 1, NEW S \in Int, NEW C \in Int,
           ((n - 1) * (n - 1)) * S + (C * n + (- (n * n * C))) >= 0
    PROVE  n * C <= (n - 1) * S
<1>1. ((n - 1) * (n - 1)) * S + (C * n + (- (n * n * C))) = (n - 1) * ((n - 1) * S - n * C)
  OBVIOUS
<1> DEFINE p == (n - 1) * S - n * C
           m == n - 1
<1>2. m * p >= 0 /\ m > 0 /\ m \in Int /\ p \in Int
  BY <1>1
<1> HIDE DEF p, m
<1>3. p >= 0
  BY <1>2
<1> QED  BY <1>3 DEF p

(* A single one of n numbers is no further from their mean than n - 1      *)
(* standard deviations' square root allows.                                *)
LEMMA OutlierIsNear ==
    ASSUME NEW n \in Nat, NEW x \in [1..n -> Int], NEW D \in [1..n -> Int], NEW Q \in [1..n -> Int],
           \A i \in 1..n : D[i] = n * x[i] - Rates!Total(x) /\ Q[i] = D[i] * D[i],
           NEW o \in 1..n, NEW S, S = Rates!Total(Q)
    PROVE  /\ S \in Int /\ S >= 0
           /\ n * (D[o] * D[o]) <= (n - 1) * S
<1> DEFINE X == Rates!Total(x)
           one == [i \in 1..n |-> 1]
           unit == [i \in 1..n |-> IF i = o THEN 1 ELSE 0]
           zero == [i \in 1..n |-> 0]
           c == D[o]
<1>1. X \in Int
  BY TotalType
<1>2. /\ one \in [1..n -> Int] /\ unit \in [1..n -> Int] /\ zero \in [1..n -> Int]
      /\ \A i \in 1..n : one[i] = 1 /\ zero[i] = 0
      /\ unit[o] = 1 /\ \A i \in 1..n : i # o => unit[i] = 0
  OBVIOUS
<1>3. Rates!Total(one) = n /\ Rates!Total(unit) = 1 /\ Rates!Total(zero) = 0
  BY TotalOfUnits
<1> HIDE DEF X, one, unit, zero
<1>4. D \in [1..n -> Int] /\ \A i \in 1..n : D[i] = n * x[i] - X
  BY DEF X
<1>5. Q \in [1..n -> Int] /\ \A i \in 1..n : Q[i] = D[i] * D[i]
  BY <1>4
<1>6. S = Rates!Total(Q)
  OBVIOUS
<1>7. S \in Int
  BY <1>5, <1>6, TotalType
<1>8. S >= 0
  <2>1. \A i \in 1..n : zero[i] <= Q[i]
    BY <1>2, <1>4, <1>5, SquaresArePositive
  <2> QED  BY <2>1, <1>2, <1>3, <1>5, <1>6, TotalIsMonotone
<1>9. Rates!Total(D) = 0
  <2> DEFINE Y == -X
  <2>1. Y \in Int /\ n \in Int
    BY <1>1
  <2>2. ASSUME NEW i \in 1..n PROVE D[i] = n * x[i] + Y * one[i]
    BY <1>1, <1>2 DEF X
  <2> HIDE DEF Y
  <2>3. Combines(D, n, n, x, Y, one)
    BY <2>1, <2>2, <1>2, <1>4 DEF Combines
  <2>4. Rates!Total(D) = n * X + Y * n
    BY <2>3, <1>3, TotalOfCombination DEF X
  <2> QED  BY <2>4, <1>1 DEF Y
<1>10. c \in Int
  BY <1>4
<1> HIDE DEF c
<1>11. CASE n > 1
  <2> DEFINE A == (n - 1) * (n - 1)
             B == 2 * (n - 1) * c
             C == c * c
             E == -(n * n * (c * c))
             F == [i \in 1..n |-> A * Q[i] + B * D[i]]
             G == [i \in 1..n |-> C * one[i] + E * unit[i]]
             W == [i \in 1..n |-> 1 * F[i] + 1 * G[i]]
  <2>1. A \in Int /\ B \in Int /\ C \in Int /\ E \in Int
    BY <1>10
  <2>2. ((n - 1) * (n - 1)) * (c * c) + (2 * (n - 1) * c) * c + (c * c + (- (n * n * (c * c)))) = 0
    BY <1>10, OutlierPlaces
  <2>3. A * C + B * c + (C + E) = 0
    BY <2>2
  <2>4. ASSUME NEW i \in 1..n PROVE A * (D[i] * D[i]) + B * D[i] + C >= 0
    <3>1. D[i] \in Int /\ n \in Int
      BY <1>4
    <3> DEFINE y == (n - 1) * D[i] + c
    <3>2. ((n - 1) * (n - 1)) * (D[i] * D[i]) + (2 * (n - 1) * c) * D[i] + (c * c) = y * y
      BY <1>10, <3>1, OutlierPlaces
    <3>3. y \in Int
      BY <1>10, <3>1
    <3> HIDE DEF y
    <3>4. y * y >= 0
      BY <3>3, SquaresArePositive
    <3> QED  BY <3>2, <3>4
  <2> HIDE DEF A, B, C, E
  <2>5. Combines(F, n, A, Q, B, D) /\ Combines(G, n, C, one, E, unit)
    <3>1. ASSUME NEW i \in 1..n
          PROVE  A * Q[i] + B * D[i] \in Int /\ C * one[i] + E * unit[i] \in Int
      <4>1. Q[i] \in Int /\ D[i] \in Int /\ one[i] \in Int /\ unit[i] \in Int
        BY <1>2, <1>4, <1>5
      <4> QED  BY <4>1, <2>1, CombinationsAreNumbers
    <3>2. F \in [1..n -> Int] /\ G \in [1..n -> Int]
      BY <3>1
    <3>3. \A i \in 1..n : F[i] = A * Q[i] + B * D[i] /\ G[i] = C * one[i] + E * unit[i]
      OBVIOUS
    <3> HIDE DEF F, G
    <3> QED  BY <3>2, <3>3, <1>2, <1>4, <1>5, <2>1 DEF Combines
  <2> HIDE DEF F, G
  <2>9. Combines(W, n, 1, F, 1, G)
    <3>1. F \in [1..n -> Int] /\ G \in [1..n -> Int] /\ n \in Nat
      BY <2>5 DEF Combines
    <3>2. ASSUME NEW i \in 1..n PROVE 1 * F[i] + 1 * G[i] \in Int
      BY <3>1
    <3>3. W \in [1..n -> Int]
      BY <3>2
    <3>4. ASSUME NEW i \in 1..n PROVE W[i] = 1 * F[i] + 1 * G[i]
      <4>1. W[i] = F[i] + G[i] /\ F[i] \in Int /\ G[i] \in Int
        BY <3>1
      <4> HIDE DEF W
      <4> QED  BY <4>1
    <3> HIDE DEF W
    <3> QED  BY <3>1, <3>3, <3>4 DEF Combines
  <2> HIDE DEF W
  <2>6. Rates!Total(F) = A * S + B * 0
    BY <1>6, <1>9, <2>5, TotalOfCombination
  <2>7. Rates!Total(G) = C * n + E * 1
    BY <1>3, <2>5, TotalOfCombination
  <2>8. ASSUME NEW i \in 1..n PROVE W[i] >= 0
    <3>1. W[i] = (A * Q[i] + B * D[i]) + (C * one[i] + E * unit[i])
      <4>1. W[i] = 1 * F[i] + 1 * G[i]
        BY <2>9 DEF Combines
      <4>2. F[i] = A * Q[i] + B * D[i] /\ G[i] = C * one[i] + E * unit[i]
        BY <2>5 DEF Combines
      <4>3. F[i] \in Int /\ G[i] \in Int
        BY <2>5 DEF Combines
      <4> QED  BY <4>1, <4>2, <4>3
    <3>2. CASE i = o
      <4>1. Q[i] = C /\ D[i] = c /\ one[i] = 1 /\ unit[i] = 1
        BY <1>2, <1>5, <3>2 DEF c, C
      <4> QED  BY <3>1, <4>1, <2>1, <2>3, <1>10
    <3>3. CASE i # o
      <4>1. Q[i] = D[i] * D[i] /\ one[i] = 1 /\ unit[i] = 0
        BY <1>2, <1>5, <3>3
      <4>2. W[i] = A * (D[i] * D[i]) + B * D[i] + C
        BY <3>1, <4>1, <2>1, <1>4
      <4> QED  BY <4>2, <2>4
    <3> QED  BY <3>2, <3>3
  <2>10. 0 <= Rates!Total(W)
    <3>1. \A i \in 1..n : zero[i] <= W[i]
      BY <1>2, <2>9, <2>8 DEF Combines
    <3> QED  BY <3>1, <1>2, <1>3, <2>9, TotalIsMonotone DEF Combines
  <2>11. A * S + (C * n + E) >= 0
    <3> QED  BY <2>6, <2>7, <2>9, <2>10, <2>1, <1>7, TotalOfCombination
  <2>12. ((n - 1) * (n - 1)) * S + (C * n + (- (n * n * C))) >= 0
    BY <2>11 DEF A, C, E
  <2>13. n * C <= (n - 1) * S
    BY <2>12, <2>1, <1>7, <1>11, OutlierQuotient
  <2> QED  BY <2>13, <1>7, <1>8 DEF C, c
<1>12. CASE n = 1
  <2>1. ASSUME NEW i \in 1..n PROVE D[i] = c * one[i] + 0 * one[i]
    <3>1. i = o /\ one[i] = 1
      BY <1>2, <1>12
    <3> QED  BY <3>1, <1>10 DEF c
  <2>2. Rates!Total(D) = c * n + 0 * n
    <3>1. /\ n \in Nat /\ c \in Int /\ 0 \in Int
          /\ D \in [1..n -> Int] /\ one \in [1..n -> Int]
      BY <1>2, <1>4, <1>10
    <3>2. Combines(D, n, c, one, 0, one)
      <4> HIDE DEF one, c
      <4> QED  BY <2>1, <3>1 DEF Combines
    <3> QED  BY <3>2, <1>3, TotalOfCombination
  <2>3. c = 0
    BY <2>2, <1>9, <1>10, <1>12
  <2> QED  BY <2>3, <1>7, <1>8, <1>12 DEF c
<1>13. n > 1 \/ n = 1
  OBVIOUS
<1> QED  BY <1>11, <1>12, <1>13

(* The same of the deviations as a baseline has them.                      *)
Deviations(n, x, D, Q) ==
    /\ n \in Nat /\ x \in [1..n -> Int]
    /\ D = [i \in 1..n |-> n * x[i] - Rates!Total(x)]
    /\ Q = [i \in 1..n |-> D[i] * D[i]]

(* One deviation is no larger than the spread of all allows.               *)
LEMMA OutlierIsBound ==
    ASSUME NEW n, NEW x, NEW D, NEW Q, Deviations(n, x, D, Q), NEW o \in 1..n, NEW S, S = Rates!Total(Q)
    PROVE  /\ S \in Int /\ S >= 0
           /\ n * (D[o] * D[o]) <= (n - 1) * S
<1>1. /\ n \in Nat /\ x \in [1..n -> Int]
      /\ D = [i \in 1..n |-> n * x[i] - Rates!Total(x)]
      /\ Q = [i \in 1..n |-> D[i] * D[i]]
  BY DEF Deviations
<1>2. Rates!Total(x) \in Int
  BY <1>1, TotalType
<1>3. D \in [1..n -> Int] /\ \A i \in 1..n : D[i] = n * x[i] - Rates!Total(x)
  BY <1>1, <1>2
<1>4. Q \in [1..n -> Int] /\ \A i \in 1..n : Q[i] = D[i] * D[i]
  BY <1>1, <1>3
<1> QED  BY <1>1, <1>3, <1>4, OutlierIsNear

(* A divisor times the quotient is the number.                             *)
LEMMA QuotientIs ==
    ASSUME NEW a \in Nat, NEW n \in Nat \ {0}, NEW k \in Int
    PROVE  /\ a \div n \in Int
           /\ a % n = 0 => a = n * (a \div n)
           /\ a = n * k => a \div n = k
<1>1. a \div n \in Int /\ a = n * (a \div n) + (a % n) /\ a % n \in 0..n - 1
  OBVIOUS
<1>2. ASSUME a = n * k PROVE a \div n = k
  <2> DEFINE q == a \div n
             m == a % n
  <2>1. q \in Int /\ m \in 0..n - 1 /\ n * k = n * q + m
    BY <1>1, <1>2
  <2> HIDE DEF q, m
  <2>2. n * (k - q) = m
    BY <2>1
  <2>3. k - q < 1
    <3>1. SUFFICES ASSUME k - q >= 1 PROVE FALSE
      BY <2>1
    <3>2. n * (k - q) >= n
      BY <2>1, <3>1
    <3> QED  BY <2>1, <2>2, <3>2
  <2>4. k - q > -1
    <3>1. SUFFICES ASSUME k - q <= -1 PROVE FALSE
      BY <2>1
    <3>2. n * (k - q) <= -n
      BY <2>1, <3>1
    <3> QED  BY <2>1, <2>2, <3>2
  <2>5. k = q
    BY <2>1, <2>3, <2>4
  <2> QED  BY <2>5 DEF q
<1> QED  BY <1>1, <1>2

(* The counts of a release: at least one evaluation, so many that the rate *)
(* is whole after doubling them, too.                                      *)
LEMMA CountsAreWhole ==
    ASSUME NEW s \in Samples
    PROVE  /\ s.counts \in Seq([seen : Nat \ {0}, denied : Nat])
           /\ \A r \in DOMAIN s.counts :
                /\ s.counts[r] \in [seen : Nat \ {0}, denied : Nat]
                /\ Rates!Rate(s.counts[r]) \in Int
                /\ Rates!Rate(Rates!Twice(s.counts[r])) = Rates!Rate(s.counts[r])
           /\ Rates!PolicyOf(s).sigma \in Nat
           /\ Rates!PolicyOf(s).baseline \in Int
<1>1. /\ s.counts \in Seq([seen : Nat \ {0}, denied : Nat]) /\ RateUnit \in Nat
      /\ \A r \in DOMAIN s.counts : RateUnit % (2 * s.counts[r].seen) = 0
      /\ s.threshold \in Nat /\ s.samples \in Nat /\ MinReleases \in Nat /\ DefaultSigma \in Nat
  BY CountsAssumption DEF Rates!SamplesAreCounts
<1>2. ASSUME NEW r \in DOMAIN s.counts
      PROVE  /\ s.counts[r] \in [seen : Nat \ {0}, denied : Nat]
             /\ Rates!Rate(s.counts[r]) \in Int
             /\ Rates!Rate(Rates!Twice(s.counts[r])) = Rates!Rate(s.counts[r])
  <2> DEFINE rec == s.counts[r]
             n == rec.seen
             d == rec.denied
  <2>1. rec \in [seen : Nat \ {0}, denied : Nat]
    <3> DEFINE T == [seen : Nat \ {0}, denied : Nat]
               c == s.counts
    <3>1. c \in Seq(T) /\ r \in DOMAIN c
      BY <1>1
    <3> HIDE DEF T, c
    <3>2. c[r] \in T
      BY <3>1
    <3> QED  BY <3>2 DEF T, c
  <2>2. RateUnit % (2 * n) = 0 /\ n \in Nat \ {0} /\ d \in Nat
    BY <1>1, <2>1
  <2>3. /\ Rates!Rate(rec) = d * (RateUnit \div n)
        /\ Rates!Rate(Rates!Twice(rec)) = (2 * d) * (RateUnit \div (2 * n))
    BY DEF Rates!Rate, Rates!Twice
  <2> HIDE DEF rec, n, d
  <2>4. /\ RateUnit \div n \in Int /\ RateUnit \div (2 * n) \in Int
        /\ RateUnit \div n = 2 * (RateUnit \div (2 * n))
    <3> DEFINE k == RateUnit \div (2 * n)
    <3>1. k \in Int /\ RateUnit = (2 * n) * k
      <4> DEFINE p == 2 * n
      <4>1. p \in Nat \ {0}
        BY <2>2
      <4>2. RateUnit % p = 0 /\ k = RateUnit \div p
        BY <2>2
      <4> HIDE DEF p, k
      <4>3. k \in Int /\ RateUnit = p * k
        BY <4>1, <4>2, <1>1, QuotientIs
      <4> QED  BY <4>3 DEF p
    <3> HIDE DEF k
    <3>2. RateUnit = n * (2 * k)
      BY <3>1, <2>2
    <3>3. RateUnit \div n = 2 * k
      <4>1. 2 * k \in Int
        BY <3>1
      <4> QED  BY <4>1, <3>2, <2>2, <1>1, QuotientIs
    <3> QED  BY <3>1, <3>3 DEF k
  <2>5. Rates!Rate(rec) \in Int /\ Rates!Rate(Rates!Twice(rec)) = Rates!Rate(rec)
    BY <2>2, <2>3, <2>4
  <2> QED  BY <2>1, <2>5 DEF rec
<1>3. Rates!PolicyOf(s).sigma \in Nat /\ Rates!PolicyOf(s).baseline \in Int
  BY <1>1 DEF Rates!PolicyOf
<1> QED  BY <1>1, <1>2, <1>3

(* The other releases, one by one.                                         *)
AreOthers(T, counts, r, n, others) ==
    /\ n = Len(counts) - 1 /\ n \in Nat
    /\ others = Rates!OtherCounts(counts, r) /\ others \in [1..n -> T]
    /\ \A i \in 1..n : (i < r => others[i] = counts[i]) /\ (~(i < r) => others[i] = counts[i + 1])
    /\ \A o \in DOMAIN counts \ {r} : \E i \in 1..n : others[i] = counts[o]
    /\ \A i \in 1..n : \E o \in DOMAIN counts \ {r} : others[i] = counts[o]

(* What OtherCounts leaves is every release but one.                       *)
LEMMA OthersAre ==
    ASSUME NEW T, NEW counts \in Seq(T), NEW r \in DOMAIN counts
    PROVE  AreOthers(T, counts, r, Len(counts) - 1, Rates!OtherCounts(counts, r))
<1> DEFINE n == Len(counts) - 1
           others == Rates!OtherCounts(counts, r)
<1>1. n \in Nat /\ DOMAIN counts = 1..n + 1 /\ \A i \in 1..n + 1 : counts[i] \in T
  OBVIOUS
<1>2. others = [i \in 1..n |-> IF i < r THEN counts[i] ELSE counts[i + 1]]
  BY DEF Rates!OtherCounts
<1> HIDE DEF n, others
<1>3. \A i \in 1..n : others[i] = IF i < r THEN counts[i] ELSE counts[i + 1]
  BY <1>2
<1>4. others \in [1..n -> T]
  <2>1. ASSUME NEW i \in 1..n PROVE (IF i < r THEN counts[i] ELSE counts[i + 1]) \in T
    <3>1. i \in 1..n + 1 /\ i + 1 \in 1..n + 1
      BY <1>1
    <3> QED  BY <1>1, <3>1
  <2> QED  BY <2>1, <1>2
<1>5. Len(others) = n
  BY <1>1, <1>4
<1>6. ASSUME NEW o \in DOMAIN counts \ {r} PROVE \E i \in 1..n : others[i] = counts[o]
  <2>1. CASE o < r
    <3>1. o \in 1..n
      BY <1>1, <2>1
    <3> QED  BY <3>1, <2>1, <1>3
  <2>2. CASE ~(o < r)
    <3>1. o - 1 \in 1..n /\ ~(o - 1 < r) /\ (o - 1) + 1 = o
      BY <1>1, <2>2
    <3> QED  BY <3>1, <1>3
  <2> QED  BY <2>1, <2>2
<1>7. ASSUME NEW i \in 1..n PROVE \E o \in DOMAIN counts \ {r} : others[i] = counts[o]
  <2>1. CASE i < r
    <3>1. i \in DOMAIN counts \ {r}
      BY <1>1, <2>1
    <3> QED  BY <3>1, <2>1, <1>3
  <2>2. CASE ~(i < r)
    <3>1. i + 1 \in DOMAIN counts \ {r}
      BY <1>1, <2>2
    <3> QED  BY <3>1, <2>2, <1>3
  <2> QED  BY <2>1, <2>2
<1>8. n = Len(counts) - 1 /\ others = Rates!OtherCounts(counts, r)
  BY DEF n, others
<1>9. AreOthers(T, counts, r, n, others)
  BY <1>1, <1>3, <1>4, <1>6, <1>7, <1>8 DEF AreOthers
<1> QED  BY <1>8, <1>9

(* A product grows with its factor.                                        *)
LEMMA ProductsAreMonotone ==
    \A n \in Nat : \A p, q \in Int : n * p \in Int /\ (p >= q => n * p >= n * q)
  OBVIOUS

(* The arithmetic of HighestWins: a rate that is no lower cannot be among  *)
(* the others if what stands out does.                                     *)
LEMMA NoneIsAsHigh ==
    ASSUME NEW n \in Nat, NEW S \in Int, NEW sigma \in Nat, NEW d \in Int, NEW rise \in Int,
           S >= 0, n * (d * d) <= (n - 1) * S, n <= sigma * sigma + 1,
           d >= rise, rise > 0, rise * rise * n > sigma * sigma * S
    PROVE  FALSE
<1>1. rise * rise <= d * d
  <2>1. rise * rise <= rise * d
    OBVIOUS
  <2>2. rise * d <= d * d
    OBVIOUS
  <2>3. rise * rise \in Int /\ rise * d \in Int /\ d * d \in Int
    OBVIOUS
  <2> QED  BY <2>1, <2>2, <2>3
<1> DEFINE p == rise * rise
           q == d * d
           v == sigma * sigma
<1>2. p \in Int /\ q \in Int /\ v \in Int /\ p <= q /\ n <= v + 1 /\ n * q <= (n - 1) * S /\ p * n > v * S
  BY <1>1
<1> HIDE DEF p, q, v
<1>3. n * p <= n * q
  BY <1>2
<1>4. (n - 1) * S <= v * S
  <2> DEFINE m == n - 1
  <2>1. m \in Int /\ m <= v
    BY <1>2
  <2> HIDE DEF m
  <2>2. (v - m) * S >= 0
    BY <2>1, <1>2
  <2>3. m * S <= v * S
    BY <2>1, <2>2, <1>2
  <2> QED  BY <2>3 DEF m
<1> QED
  <2> DEFINE a == n * p
             b == n * q
             c == (n - 1) * S
             e == v * S
  <2>1. a \in Int /\ b \in Int /\ c \in Int /\ e \in Int /\ a <= b /\ b <= c /\ c <= e
    BY <1>2, <1>3, <1>4
  <2>2. a > e
    BY <1>2
  <2> HIDE DEF a, b, c, e
  <2> QED  BY <2>1, <2>2

(* The baseline is the total of the rates and of their squared distances.  *)
LEMMA BaselineIs ==
    ASSUME NEW n \in Nat, NEW others \in [1..n -> [seen : Nat \ {0}, denied : Nat]],
           \A i \in 1..n : Rates!Rate(others[i]) \in Int
    PROVE  LET x == [i \in 1..n |-> Rates!Rate(others[i])]
               D == [i \in 1..n |-> n * x[i] - Rates!Total(x)]
           IN /\ x \in [1..n -> Int]
              /\ Rates!Baseline(others).size = n
              /\ Rates!Baseline(others).seen = Rates!Total([i \in 1..n |-> others[i].seen])
              /\ Rates!Baseline(others).rates = Rates!Total(x)
              /\ Rates!Baseline(others).spread = Rates!Total([i \in 1..n |-> D[i] * D[i]])
<1> DEFINE x == [i \in 1..n |-> Rates!Rate(others[i])]
           X == Rates!Total(x)
           D == [i \in 1..n |-> n * x[i] - X]
           E == [i \in 1..n |-> Rates!Distance(others, X, i) * Rates!Distance(others, X, i)]
           Q == [i \in 1..n |-> D[i] * D[i]]
<1>1. Len(others) = n
  OBVIOUS
<1>2. x \in [1..n -> Int]
  OBVIOUS
<1>3. E = Q
  <2>1. ASSUME NEW i \in 1..n PROVE Rates!Distance(others, X, i) = D[i]
    <3>1. x[i] = Rates!Rate(others[i]) /\ D[i] = n * x[i] - X
      OBVIOUS
    <3> HIDE DEF D, x, X
    <3> QED  BY <1>1, <3>1 DEF Rates!Distance
  <2> HIDE DEF D
  <2> QED  BY <2>1
<1>4. Rates!Baseline(others) =
        [size |-> n, seen |-> Rates!Total([i \in 1..n |-> others[i].seen]), rates |-> X, spread |-> Rates!Total(E)]
  BY <1>1 DEF Rates!Baseline, Rates!Seen, Rates!Spread
<1> HIDE DEF E, X, x, D, Q
<1>5. /\ Rates!Baseline(others).size = n
      /\ Rates!Baseline(others).seen = Rates!Total([i \in 1..n |-> others[i].seen])
      /\ Rates!Baseline(others).rates = X
      /\ Rates!Baseline(others).spread = Rates!Total(E)
  BY <1>4
<1> QED  BY <1>2, <1>3, <1>5 DEF X, Q, D, x

(* Whatever is condemned denies more often than every other of few.        *)
LEMMA HighestWins ==
    ASSUME NEW s \in Samples, NEW r \in Rates!Judged(s.counts, s), NEW o \in DOMAIN s.counts \ {r},
           Len(s.counts) - 1 <= Rates!PolicyOf(s).sigma * Rates!PolicyOf(s).sigma + 1
    PROVE  Rates!Rate(s.counts[o]) < Rates!Rate(s.counts[r])
<1> DEFINE T == [seen : Nat \ {0}, denied : Nat]
           counts == s.counts
           n == Len(counts) - 1
           others == Rates!OtherCounts(counts, r)
           sigma == Rates!PolicyOf(s).sigma
           x == [i \in 1..n |-> Rates!Rate(others[i])]
           X == Rates!Total(x)
           D == [i \in 1..n |-> n * x[i] - X]
           S == Rates!Total([i \in 1..n |-> D[i] * D[i]])
           R == Rates!Rate(counts[r])
           rise == n * R - X
<1>1. r \in DOMAIN counts /\ Rates!Concerning(counts, s, r)
  BY DEF Rates!Judged
<1>2. /\ counts \in Seq(T) /\ sigma \in Nat /\ R \in Int /\ Rates!Rate(counts[o]) \in Int
      /\ \A i \in DOMAIN counts : Rates!Rate(counts[i]) \in Int
  BY <1>1, CountsAreWhole
<1>3. /\ n \in Nat /\ others \in [1..n -> T]
      /\ \E j \in 1..n : others[j] = counts[o]
      /\ \A i \in 1..n : \E p \in DOMAIN counts \ {r} : others[i] = counts[p]
  <2>1. counts \in Seq(T) /\ r \in DOMAIN counts /\ o \in DOMAIN counts \ {r}
    BY <1>1, <1>2
  <2> HIDE DEF T, counts, n, others, x, X, D, S, R, rise, sigma
  <2>2. AreOthers(T, counts, r, n, others)
    BY <2>1, OthersAre DEF n, others
  <2>5. /\ n \in Nat /\ others \in [1..n -> T]
        /\ \A p \in DOMAIN counts \ {r} : \E i \in 1..n : others[i] = counts[p]
        /\ \A i \in 1..n : \E p \in DOMAIN counts \ {r} : others[i] = counts[p]
    BY <2>2 DEF AreOthers
  <2> QED  BY <2>1, <2>5
<1>4. \A i \in 1..n : Rates!Rate(others[i]) \in Int
  BY <1>2, <1>3
<1>5. PICK j \in 1..n : others[j] = counts[o]
  BY <1>3
<1>6. /\ x \in [1..n -> Int] /\ Rates!Baseline(others).size = n
      /\ Rates!Baseline(others).rates = X /\ Rates!Baseline(others).spread = S
  <2> HIDE DEF n, others
  <2> QED  BY <1>3, <1>4, BaselineIs
<1>7. rise > 0 /\ rise * rise * n > sigma * sigma * S
  <2> HIDE DEF X, S, n, x, D
  <2> QED  BY <1>1, <1>6 DEF Rates!Concerning
<1>8. D[j] = n * x[j] - X /\ x[j] = Rates!Rate(counts[o])
  BY <1>5
<1>9. S \in Int /\ S >= 0 /\ n * (D[j] * D[j]) <= (n - 1) * S
  <2> HIDE DEF n, x
  <2>1. D = [i \in 1..n |-> n * x[i] - Rates!Total(x)]
    OBVIOUS
  <2> DEFINE Q == [i \in 1..n |-> D[i] * D[i]]
  <2>2. S = Rates!Total(Q)
    OBVIOUS
  <2>3. x \in [1..n -> Int] /\ n \in Nat /\ j \in 1..n
    BY <1>3, <1>5, <1>6
  <2>4. Deviations(n, x, D, Q)
    <3> HIDE DEF D
    <3>1. Q = [i \in 1..n |-> D[i] * D[i]]
      OBVIOUS
    <3> QED  BY <2>1, <2>3, <3>1 DEF Deviations
  <2> HIDE DEF D, S, Q
  <2> QED  BY <2>2, <2>3, <2>4, OutlierIsBound
<1>10. X \in Int
  <2> HIDE DEF n, x
  <2> QED  BY <1>3, <1>6, TotalType
<1>11. n <= sigma * sigma + 1
  OBVIOUS
<1> HIDE DEF D, S, X, x, n, sigma, R, counts
<1>12. SUFFICES ASSUME Rates!Rate(counts[o]) >= R PROVE FALSE
  BY <1>2 DEF R, counts
<1>13. x[j] >= R /\ x[j] \in Int
  BY <1>2, <1>8, <1>12
<1>14. D[j] \in Int /\ D[j] >= rise /\ rise \in Int
  <2>1. n * x[j] >= n * R /\ n * x[j] \in Int /\ n * R \in Int
    BY <1>2, <1>3, <1>13, ProductsAreMonotone
  <2> QED  BY <2>1, <1>8, <1>10
<1> HIDE DEF rise
<1> QED  BY <1>2, <1>3, <1>7, <1>9, <1>11, <1>14, NoneIsAsHigh

(* A sequence with one place changed is one.                               *)
Replaced(T, g, f, i, e) == f \in Seq(T) /\ i \in 1..Len(f) /\ e \in T /\ g = [f EXCEPT ![i] = e]

(* The length of a sequence with one place changed stays.                  *)
LEMMA ExceptIsSeq ==
    ASSUME NEW T, NEW f, NEW i, NEW e, NEW g, Replaced(T, g, f, i, e)
    PROVE  g \in Seq(T) /\ Len(g) = Len(f)
<1>1. f \in Seq(T) /\ i \in 1..Len(f) /\ e \in T /\ g = [f EXCEPT ![i] = e]
  BY DEF Replaced
<1>2. [f EXCEPT ![i] = e] \in Seq(T) /\ Len([f EXCEPT ![i] = e]) = Len(f)
  BY <1>1, ExceptSeq
<1> QED  BY <1>1, <1>2

(* A release that is counted twice over moves no baseline but its volume.  *)
Doubled(counts, s, o) == counts = [s.counts EXCEPT ![o] = Rates!Twice(@)]

(* The verdict on a release is the same when another is counted twice.     *)
LEMMA TwiceIsTheSame ==
    ASSUME NEW s \in Samples, NEW r \in DOMAIN s.counts, NEW o \in DOMAIN s.counts, o # r,
           NEW counts, Doubled(counts, s, o),
           Rates!Baseline(Rates!OtherCounts(s.counts, r)).seen >= Rates!PolicyOf(s).baseline
    PROVE  Rates!Concerning(s.counts, s, r) <=> Rates!Concerning(counts, s, r)
<1> DEFINE T == [seen : Nat \ {0}, denied : Nat]
           before == s.counts
           n == Len(before) - 1
           old == Rates!OtherCounts(before, r)
           new == Rates!OtherCounts(counts, r)
           limit == Rates!PolicyOf(s).baseline
<1>1. /\ before \in Seq(T) /\ r \in DOMAIN before /\ o \in DOMAIN before
      /\ \A i \in DOMAIN before :
           /\ before[i] \in T /\ Rates!Rate(before[i]) \in Int
           /\ Rates!Rate(Rates!Twice(before[i])) = Rates!Rate(before[i])
      /\ limit \in Int
  BY CountsAreWhole
<1>2. \A i \in DOMAIN before : Rates!Twice(before[i]) \in T /\ before[i].seen <= Rates!Twice(before[i]).seen
  <2>1. ASSUME NEW rec \in T PROVE Rates!Twice(rec) \in T /\ rec.seen <= Rates!Twice(rec).seen
    <3>1. rec.seen \in Nat \ {0} /\ rec.denied \in Nat
      OBVIOUS
    <3>2. 2 * rec.seen \in Nat \ {0} /\ 2 * rec.denied \in Nat /\ rec.seen <= 2 * rec.seen
      BY <3>1
    <3> QED  BY <3>2 DEF Rates!Twice
  <2> HIDE DEF T, before
  <2> QED  BY <2>1, <1>1
<1>3. counts = [before EXCEPT ![o] = Rates!Twice(before[o])]
  BY DEF Doubled
<1> HIDE DEF T, before
<1>4. /\ counts \in Seq(T) /\ Len(counts) = Len(before) /\ DOMAIN counts = DOMAIN before
      /\ counts[r] = before[r]
      /\ \A i \in DOMAIN before :
           /\ counts[i] \in T
           /\ Rates!Rate(counts[i]) = Rates!Rate(before[i])
           /\ before[i].seen <= counts[i].seen
  <2>1. Rates!Twice(before[o]) \in T
    BY <1>1, <1>2
  <2>2. counts \in Seq(T) /\ Len(counts) = Len(before) /\ DOMAIN counts = DOMAIN before
    <3> DEFINE twice == Rates!Twice(before[o])
    <3> HIDE DEF twice
    <3>1. twice \in T /\ counts = [before EXCEPT ![o] = twice]
      BY <2>1, <1>3 DEF twice
    <3>2. o \in 1..Len(before)
      BY <1>1
    <3>3. Replaced(T, counts, before, o, twice)
      BY <3>1, <3>2, <1>1 DEF Replaced
    <3>4. counts \in Seq(T) /\ Len(counts) = Len(before)
      BY <3>3, ExceptIsSeq
    <3> QED  BY <3>1, <3>4
  <2>3. counts[r] = before[r]
    BY <1>1, <1>3
  <2>4. ASSUME NEW i \in DOMAIN before
        PROVE  /\ counts[i] \in T
               /\ Rates!Rate(counts[i]) = Rates!Rate(before[i])
               /\ before[i].seen <= counts[i].seen
    <3>1. CASE i = o
      <4>1. counts[i] = Rates!Twice(before[i])
        BY <1>1, <1>3, <3>1
      <4> QED  BY <4>1, <1>1, <1>2
    <3>2. CASE i # o
      <4>1. counts[i] = before[i]
        BY <1>3, <3>2
      <4>2. before[i].seen <= before[i].seen
        <5>1. before[i].seen \in Nat
          BY <1>1 DEF T
        <5> QED  BY <5>1
      <4> QED  BY <4>1, <4>2, <1>1
    <3> QED  BY <3>1, <3>2
  <2> QED  BY <2>2, <2>3, <2>4
<1>5. /\ n \in Nat /\ old \in [1..n -> T] /\ new \in [1..n -> T]
      /\ \A i \in 1..n : (i < r => old[i] = before[i]) /\ (~(i < r) => old[i] = before[i + 1])
      /\ \A i \in 1..n : (i < r => new[i] = counts[i]) /\ (~(i < r) => new[i] = counts[i + 1])
  <2> HIDE DEF n, old, new
  <2>1. AreOthers(T, before, r, n, old)
    BY <1>1, OthersAre DEF n, old
  <2>2. AreOthers(T, counts, r, n, new)
    <3>1. counts \in Seq(T) /\ r \in DOMAIN counts
      BY <1>1, <1>4
    <3>2. n = Len(counts) - 1 /\ new = Rates!OtherCounts(counts, r)
      BY <1>4 DEF n, new
    <3>3. AreOthers(T, counts, r, Len(counts) - 1, Rates!OtherCounts(counts, r))
      BY <3>1, OthersAre
    <3> QED  BY <3>2, <3>3
  <2> QED  BY <2>1, <2>2 DEF AreOthers
<1>6. ASSUME NEW i \in 1..n
      PROVE  /\ Rates!Rate(new[i]) = Rates!Rate(old[i]) /\ Rates!Rate(old[i]) \in Int
             /\ old[i].seen <= new[i].seen /\ old[i].seen \in Int /\ new[i].seen \in Int
  <2>1. i \in DOMAIN before /\ i + 1 \in DOMAIN before
    BY <1>1
  <2> HIDE DEF n, old, new
  <2>2. \E p \in DOMAIN before : old[i] = before[p] /\ new[i] = counts[p]
    BY <2>1, <1>5
  <2>3. old[i] \in T /\ new[i] \in T
    BY <1>5
  <2>4. old[i].seen \in Int /\ new[i].seen \in Int
    BY <2>3 DEF T
  <2> QED  BY <2>2, <2>4, <1>1, <1>4
<1> DEFINE x == [i \in 1..n |-> Rates!Rate(old[i])]
           X == Rates!Total(x)
           D == [i \in 1..n |-> n * x[i] - X]
           S == Rates!Total([i \in 1..n |-> D[i] * D[i]])
           y == [i \in 1..n |-> Rates!Rate(new[i])]
           seen == [i \in 1..n |-> old[i].seen]
           more == [i \in 1..n |-> new[i].seen]
<1>7. x = y
  <2> HIDE DEF n, old, new
  <2> QED  BY <1>6
<1>8. /\ Rates!Baseline(old).size = n /\ Rates!Baseline(old).rates = X
      /\ Rates!Baseline(old).spread = S /\ Rates!Baseline(old).seen = Rates!Total(seen)
  <2> HIDE DEF n, old, new
  <2>1. n \in Nat /\ old \in [1..n -> T] /\ \A i \in 1..n : Rates!Rate(old[i]) \in Int
    BY <1>5, <1>6
  <2> QED  BY <2>1, BaselineIs DEF T
<1>9. /\ Rates!Baseline(new).size = n /\ Rates!Baseline(new).rates = X
      /\ Rates!Baseline(new).spread = S /\ Rates!Baseline(new).seen = Rates!Total(more)
  <2> HIDE DEF n, old, new
  <2>1. n \in Nat /\ new \in [1..n -> T] /\ \A i \in 1..n : Rates!Rate(new[i]) \in Int
    BY <1>5, <1>6
  <2> DEFINE Y == Rates!Total(y)
             E == [i \in 1..n |-> n * y[i] - Y]
  <2>2. /\ Rates!Baseline(new).size = n /\ Rates!Baseline(new).rates = Y
        /\ Rates!Baseline(new).spread = Rates!Total([i \in 1..n |-> E[i] * E[i]])
        /\ Rates!Baseline(new).seen = Rates!Total(more)
    BY <2>1, BaselineIs DEF T
  <2> HIDE DEF x, y
  <2> QED  BY <2>2, <1>7
<1>10. /\ Rates!Total(seen) \in Int /\ Rates!Total(more) \in Int
       /\ Rates!Total(seen) <= Rates!Total(more)
  <2> HIDE DEF n, old, new
  <2>1. seen \in [1..n -> Int] /\ more \in [1..n -> Int] /\ \A i \in 1..n : seen[i] <= more[i]
    BY <1>6
  <2> HIDE DEF seen, more
  <2> QED  BY <2>1, <1>5, TotalType, TotalIsMonotone
<1> HIDE DEF x, X, D, S, y, seen, more
<1>11. Rates!Total(seen) >= limit /\ Rates!Total(more) >= limit
  <2>1. Rates!Total(seen) >= limit
    BY <1>8 DEF before
  <2> HIDE DEF limit
  <2> QED  BY <2>1, <1>1, <1>10
<1>12. /\ Rates!Baseline(Rates!OtherCounts(before, r)).seen >= Rates!PolicyOf(s).baseline
       /\ Rates!Baseline(Rates!OtherCounts(counts, r)).seen >= Rates!PolicyOf(s).baseline
  BY <1>8, <1>9, <1>11
<1>13. /\ Rates!Baseline(Rates!OtherCounts(before, r)).size = Rates!Baseline(Rates!OtherCounts(counts, r)).size
       /\ Rates!Baseline(Rates!OtherCounts(before, r)).rates = Rates!Baseline(Rates!OtherCounts(counts, r)).rates
       /\ Rates!Baseline(Rates!OtherCounts(before, r)).spread = Rates!Baseline(Rates!OtherCounts(counts, r)).spread
  BY <1>8, <1>9
<1> HIDE DEF n, old, new, limit
<1>14. Rates!Concerning(before, s, r) <=> Rates!Concerning(counts, s, r)
  BY <1>4, <1>12, <1>13 DEF Rates!Concerning
<1> QED  BY <1>14 DEF before

(* The judgement is kept, and what it condemns is in line with the samples.*)
RatesInv ==
    /\ part = "rates" => sample \in Samples
    /\ condemned = <<>> \/ (part = "rates" /\ condemned = <<Rates!Judged(sample.counts, sample)>>)

(* Every reachable state satisfies RatesInv.                               *)
LEMMA RatesInvariant == ReleaseSpec => []RatesInv
<1>1. ReleaseInit => RatesInv
  BY DEF ReleaseInit, RatesInv, Rates!RatesInit
<1>2. RatesInv /\ [ReleaseNext]_releaseVars => RatesInv'
  <2>1. ASSUME RatesInv, UNCHANGED <<part, sample, condemned>> PROVE RatesInv'
    BY <2>1 DEF RatesInv
  <2>2. ASSUME RatesInv, part = "rates", UNCHANGED part, Rates!RatesNext PROVE RatesInv'
    BY <2>2 DEF RatesInv, Rates!RatesNext, Rates!Judge
  <2> QED
    BY <2>1, <2>2 DEF ReleaseNext, releaseVars, evidenceVars, ratesVars
<1> QED
  BY <1>1, <1>2, PTL DEF ReleaseSpec

(* The detector condemns only what stands out, and volume does not hide it.*)
LEMMA RatesInvSuffices == RatesInv => DenyRatesHold
<1> SUFFICES ASSUME RatesInv PROVE DenyRatesHold
  OBVIOUS
<1>1. ASSUME condemned # <<>> PROVE sample \in Samples /\ condemned[1] = Rates!Judged(sample.counts, sample)
  BY <1>1 DEF RatesInv
<1>2. Rates!HighestIsCondemned
  <2> SUFFICES ASSUME condemned # <<>>, NEW r \in condemned[1],
                      Len(sample.counts) - 1 <= Rates!PolicyOf(sample).sigma * Rates!PolicyOf(sample).sigma + 1
               PROVE  /\ condemned[1] = {r}
                      /\ \A o \in DOMAIN sample.counts \ {r} :
                           Rates!Rate(sample.counts[o]) < Rates!Rate(sample.counts[r])
    BY DEF Rates!HighestIsCondemned
  <2>1. /\ sample \in Samples /\ r \in Rates!Judged(sample.counts, sample)
        /\ condemned[1] = Rates!Judged(sample.counts, sample)
    BY <1>1
  <2>2. ASSUME NEW p \in condemned[1], NEW o \in DOMAIN sample.counts \ {p}
        PROVE  Rates!Rate(sample.counts[o]) < Rates!Rate(sample.counts[p])
    BY <2>1, HighestWins
  <2>3. ASSUME NEW p \in condemned[1], p # r PROVE FALSE
    <3>1. p \in DOMAIN sample.counts /\ r \in DOMAIN sample.counts
      BY <2>1 DEF Rates!Judged
    <3> DEFINE a == Rates!Rate(sample.counts[p])
               b == Rates!Rate(sample.counts[r])
    <3>2. a \in Int /\ b \in Int
      BY <2>1, <3>1, CountsAreWhole
    <3>3. a < b /\ b < a
      BY <2>2, <2>3, <3>1
    <3> HIDE DEF a, b
    <3> QED  BY <3>2, <3>3
  <2> QED  BY <2>2, <2>3
<1>3. Rates!VolumeDoesNotDrownOut
  <2> SUFFICES ASSUME condemned # <<>>, NEW r \in DOMAIN sample.counts, NEW o \in DOMAIN sample.counts,
                      NEW counts, counts = [sample.counts EXCEPT ![o] = Rates!Twice(@)],
                      o # r,
                      Rates!Baseline(Rates!OtherCounts(sample.counts, r)).seen >= Rates!PolicyOf(sample).baseline
               PROVE  r \in condemned[1] <=> Rates!Concerning(counts, sample, r)
    BY DEF Rates!VolumeDoesNotDrownOut
  <2>1. sample \in Samples /\ condemned[1] = Rates!Judged(sample.counts, sample)
    BY <1>1
  <2>2. Doubled(counts, sample, o)
    BY DEF Doubled
  <2>3. Rates!Concerning(sample.counts, sample, r) <=> Rates!Concerning(counts, sample, r)
    BY <2>1, <2>2, TwiceIsTheSame
  <2> QED  BY <2>1, <2>3 DEF Rates!Judged
<1> QED  BY <1>2, <1>3 DEF DenyRatesHold, Rates!DenyRatesHold

(* DenyRatesHold, for every sample of counts and every policy.             *)
THEOREM DenyRatesTrue == ReleaseSpec => []DenyRatesHold
<1>1. RatesInv => DenyRatesHold
  BY RatesInvSuffices
<1> QED
  BY <1>1, RatesInvariant, PTL

-----------------------------------------------------------------------------
(* After a pack is loaded, its id is under its programs and under no other,*)
(* and every other id is where it was.                                     *)
LEMMA UnderIndexed ==
    ASSUME NEW pack, NEW p, NEW x,
           \A q : Sets!Under(index, q) = {id \in DOMAIN packs : q \in Sets!Programs(packs[id])}
    PROVE  x \in Sets!Under(Sets!Indexed(pack), p) <=>
             \/ x # pack.id /\ x \in Sets!Under(index, p)
             \/ x = pack.id /\ p \in Sets!Programs(pack)
<1> DEFINE left == IF pack.id \in DOMAIN packs THEN Sets!Programs(packs[pack.id]) ELSE {}
           added == IF p \in Sets!Programs(pack) THEN {pack.id} ELSE {}
           gone == IF p \in left THEN {pack.id} ELSE {}
           new == Sets!Indexed(pack)
<1>1. new = [q \in DOMAIN index \cup Sets!Programs(pack) |->
                (Sets!Under(index, q) \ (IF q \in left THEN {pack.id} ELSE {}))
                \cup (IF q \in Sets!Programs(pack) THEN {pack.id} ELSE {})]
  BY DEF Sets!Indexed
<1>2. DOMAIN new = DOMAIN index \cup Sets!Programs(pack)
  BY <1>1
<1>3. p \in DOMAIN new => new[p] = (Sets!Under(index, p) \ gone) \cup added
  BY <1>1, <1>2
<1>4. pack.id \in Sets!Under(index, p) => p \in left
  OBVIOUS
<1>5. p \notin DOMAIN index => Sets!Under(index, p) = {}
  BY DEF Sets!Under
<1> HIDE DEF new, left
<1>6. CASE p \in DOMAIN new
  <2>1. Sets!Under(new, p) = new[p]
    BY <1>6 DEF Sets!Under
  <2> QED  BY <2>1, <1>3, <1>4, <1>6 DEF new
<1>7. CASE p \notin DOMAIN new
  <2>1. Sets!Under(new, p) = {}
    BY <1>7 DEF Sets!Under
  <2> QED  BY <2>1, <1>2, <1>5, <1>7 DEF new
<1> QED  BY <1>6, <1>7

(* The keyword index leads to the packs that name a program.               *)
IndexFits == \A p : Sets!Under(index, p) = {id \in DOMAIN packs : p \in Sets!Programs(packs[id])}

(* Loading a pack keeps the index in line, also when it replaces another.  *)
LEMMA IndexKeeps ==
    ASSUME IndexFits, NEW pack, index' = Sets!Indexed(pack), packs' = Sets!With(packs, pack.id, pack)
    PROVE  IndexFits'
<1>1. /\ DOMAIN packs' = DOMAIN packs \cup {pack.id}
      /\ packs'[pack.id] = pack
      /\ \A id \in DOMAIN packs : id # pack.id => packs'[id] = packs[id]
  BY DEF Sets!With
<1>2. ASSUME NEW p, NEW x
      PROVE  x \in Sets!Under(index', p) <=> x \in {id \in DOMAIN packs' : p \in Sets!Programs(packs'[id])}
  <2>1. x \in Sets!Under(Sets!Indexed(pack), p) <=>
             \/ x # pack.id /\ x \in Sets!Under(index, p)
             \/ x = pack.id /\ p \in Sets!Programs(pack)
    BY UnderIndexed DEF IndexFits
  <2>2. x \in Sets!Under(index, p) <=> x \in DOMAIN packs /\ p \in Sets!Programs(packs[x])
    BY DEF IndexFits
  <2>3. x \in Sets!Under(index', p) <=>
             \/ x # pack.id /\ x \in DOMAIN packs /\ p \in Sets!Programs(packs[x])
             \/ x = pack.id /\ p \in Sets!Programs(pack)
    BY <2>1, <2>2
  <2>4. CASE x = pack.id
    BY <2>3, <2>4, <1>1
  <2>5. CASE x # pack.id
    BY <2>3, <2>5, <1>1
  <2> QED  BY <2>4, <2>5
<1>3. \A p : Sets!Under(index', p) = {id \in DOMAIN packs' : p \in Sets!Programs(packs'[id])}
  BY <1>2
<1> QED  BY <1>3 DEF IndexFits

(* What the engine has read: every pack it holds is a file it has read; it *)
(* still judges only if each of those is one of its packs, and ends with a *)
(* file that cannot be one.                                                *)
Loads(n) == Sets!IsPack(dir, n) /\ dir[n].pack.compiles
ReadNames == Sets!Json(dir) \ unread
PacksAreRead ==
    /\ \A id \in DOMAIN packs : \E n \in ReadNames : Loads(n) /\ packs[id] = dir[n].pack /\ id = dir[n].pack.id
    /\ failOpen => \E n \in Sets!Json(dir) : ~Loads(n)
    /\ ~failOpen => \A n \in ReadNames : Loads(n) /\ dir[n].pack.id \in DOMAIN packs
    /\ unread \subseteq DOMAIN dir

(* Reading one entry of the listing keeps what is known of the packs.      *)
LEMMA PacksReadKeeps ==
    ASSUME PacksAreRead, IndexFits, Sets!ReadEntry
    PROVE  PacksAreRead' /\ IndexFits'
<1>1. PICK name \in unread :
         IF name \notin DOMAIN Stem
         THEN unread' = unread \ {name} /\ UNCHANGED <<packs, index, failOpen>>
         ELSE IF ~Sets!IsPack(dir, name)
         THEN unread' = {} /\ failOpen' = TRUE /\ UNCHANGED <<packs, index>>
         ELSE LET pack == dir[name].pack
              IN /\ unread' = unread \ {name}
                 /\ IF pack.compiles
                    THEN /\ index' = Sets!Indexed(pack) /\ packs' = Sets!With(packs, pack.id, pack)
                         /\ UNCHANGED failOpen
                    ELSE failOpen' = TRUE /\ UNCHANGED <<packs, index>>
  BY DEF Sets!ReadEntry
<1>2. dir' = dir
  BY DEF Sets!ReadEntry
<1>3. Sets!Json(dir)' = Sets!Json(dir) /\ \A n : Loads(n)' <=> Loads(n)
  BY <1>2 DEF Sets!Json, Loads, Sets!IsPack
<1>4. name \in DOMAIN dir
  BY DEF PacksAreRead
<1>5. CASE name \notin DOMAIN Stem
  <2>1. unread' = unread \ {name} /\ packs' = packs /\ index' = index /\ failOpen' = failOpen
    BY <1>1, <1>5
  <2>2. ReadNames' = ReadNames
    BY <1>3, <1>5, <2>1 DEF ReadNames, Sets!Json
  <2> QED  BY <1>2, <1>3, <2>1, <2>2 DEF PacksAreRead, IndexFits
<1>6. CASE name \in DOMAIN Stem /\ ~Sets!IsPack(dir, name)
  <2>1. unread' = {} /\ failOpen' /\ packs' = packs /\ index' = index
    BY <1>1, <1>6
  <2>2. ReadNames \subseteq ReadNames' /\ name \in Sets!Json(dir) /\ ~Loads(name)
    BY <1>3, <1>4, <1>6, <2>1 DEF ReadNames, Sets!Json, Loads
  <2> QED  BY <1>2, <1>3, <2>1, <2>2 DEF PacksAreRead, IndexFits
<1>7. CASE name \in DOMAIN Stem /\ Sets!IsPack(dir, name) /\ ~dir[name].pack.compiles
  <2>1. unread' = unread \ {name} /\ failOpen' /\ packs' = packs /\ index' = index
    BY <1>1, <1>7
  <2>2. ReadNames \subseteq ReadNames' /\ name \in Sets!Json(dir) /\ ~Loads(name)
    BY <1>3, <1>4, <1>7, <2>1 DEF ReadNames, Sets!Json, Loads
  <2> QED  BY <1>2, <1>3, <2>1, <2>2 DEF PacksAreRead, IndexFits
<1>8. CASE name \in DOMAIN Stem /\ Loads(name)
  <2> DEFINE pack == dir[name].pack
  <2>1. /\ unread' = unread \ {name} /\ failOpen' = failOpen
        /\ index' = Sets!Indexed(pack) /\ packs' = Sets!With(packs, pack.id, pack)
    BY <1>1, <1>8 DEF Loads
  <2>2. ReadNames' = ReadNames \cup {name} /\ name \in Sets!Json(dir)
    BY <1>3, <1>4, <1>8, <2>1 DEF ReadNames, Sets!Json
  <2>3. /\ DOMAIN packs' = DOMAIN packs \cup {pack.id}
        /\ packs'[pack.id] = pack
        /\ \A id \in DOMAIN packs : id # pack.id => packs'[id] = packs[id]
    BY <2>1 DEF Sets!With
  <2>4. \A id \in DOMAIN packs' :
          \E n \in ReadNames' : Loads(n) /\ packs'[id] = dir[n].pack /\ id = dir[n].pack.id
    BY <1>8, <2>2, <2>3 DEF PacksAreRead
  <2>5. failOpen' => \E n \in Sets!Json(dir) : ~Loads(n)
    BY <2>1 DEF PacksAreRead
  <2>6. ~failOpen' => \A n \in ReadNames' : Loads(n) /\ dir[n].pack.id \in DOMAIN packs'
    BY <1>8, <2>1, <2>2, <2>3 DEF PacksAreRead
  <2>7. unread' \subseteq DOMAIN dir
    BY <2>1 DEF PacksAreRead
  <2>8. PacksAreRead'
    BY <1>2, <1>3, <2>4, <2>5, <2>6, <2>7 DEF PacksAreRead
  <2>9. IndexFits'
    BY <2>1, IndexKeeps
  <2> QED  BY <2>8, <2>9
<1> QED  BY <1>5, <1>6, <1>7, <1>8 DEF Loads

(* What a tool has answered is what it makes of the directory, which has   *)
(* not changed since.                                                      *)
Answered ==
    /\ asked.tool \in {"engine", "coverage"} => unread = {}
    /\ asked.tool = "engine" => told = <<Sets!Catalog(dir)>>
    /\ asked.tool = "coverage" => told = <<Sets!Coverage(dir)>>
    /\ asked.tool = "drift" => told = <<Sets!Compared(dir, asked.reference)>>
    /\ asked.tool = "merge" => told = <<Sets!MergedDirectory(dir)>>
    /\ asked.tool = "merging" => told = <<Sets!Merged({dir[n].pack : n \in DOMAIN dir})>>
    /\ asked.tool = "source" => told = <<Sets!Source(asked.places)>>
    /\ asked.tool = "manifest" /\ manifest # <<>> => told = <<Sets!Verified(manifest[1], dir)>>

(* A manifest names pack files only.                                       *)
ManifestNames ==
    /\ asked.tool = "manifest"
    /\ DOMAIN manifest[1] \subseteq DOMAIN Stem
    /\ manifest[1] = [n \in DOMAIN manifest[1] |-> manifest[1][n]]

SetsInv ==
    /\ asked.tool \in {"engine", "coverage"} => PacksAreRead /\ IndexFits
    /\ told # <<>> => Answered
    /\ manifest # <<>> => ManifestNames

(* Each operation keeps that.                                              *)
LEMMA ReadEntryKeeps == SetsInv /\ Sets!ReadEntry => SetsInv'
<1> SUFFICES ASSUME SetsInv, Sets!ReadEntry PROVE SetsInv'
  OBVIOUS
<1>1. /\ asked.tool \in {"engine", "coverage"} /\ unread # {}
      /\ asked' = asked /\ dir' = dir /\ manifest' = manifest /\ told' = told
  BY DEF Sets!ReadEntry
<1>2. PacksAreRead' /\ IndexFits'
  BY <1>1, PacksReadKeeps DEF SetsInv
<1>3. told = <<>> /\ manifest = <<>>
  BY <1>1 DEF SetsInv, Answered, ManifestNames
<1> QED  BY <1>1, <1>2, <1>3 DEF SetsInv

(* Making a manifest keeps SetsInv.                                        *)
LEMMA MakeManifestKeeps == SetsInv /\ Sets!MakeManifest => SetsInv'
<1> SUFFICES ASSUME SetsInv, Sets!MakeManifest PROVE SetsInv'
  OBVIOUS
<1> DEFINE names == Sets!Indexable(dir)
           made == [n \in names |-> dir[n]]
<1>1. /\ asked.tool = "manifest" /\ manifest = <<>> /\ asked' = asked
      /\ \/ manifest' = <<made>> /\ told' = <<>>
         \/ manifest' = <<>> /\ told' = <<Sets!Refused>>
  BY DEF Sets!MakeManifest
<1>2. names \subseteq DOMAIN Stem
  BY DEF Sets!Indexable, Sets!Json
<1>3. DOMAIN made \subseteq DOMAIN Stem /\ made = [n \in DOMAIN made |-> made[n]]
  BY <1>2
<1> HIDE DEF made
<1>4. CASE manifest' = <<made>> /\ told' = <<>>
  <2>1. manifest'[1] = made
    BY <1>4
  <2>2. ManifestNames'
    BY <1>1, <1>3, <2>1 DEF ManifestNames
  <2> QED  BY <1>1, <1>4, <2>2 DEF SetsInv
<1>5. CASE manifest' = <<>> /\ told' = <<Sets!Refused>>
  <2>1. Answered'
    BY <1>1, <1>5 DEF Answered
  <2> QED  BY <1>1, <1>5, <2>1 DEF SetsInv
<1> QED  BY <1>1, <1>4, <1>5

(* So does a change of the directory.                                      *)
LEMMA ChangeKeeps == SetsInv /\ Sets!Change => SetsInv'
<1> SUFFICES ASSUME SetsInv, Sets!Change PROVE SetsInv'
  OBVIOUS
<1>1. asked.tool = "manifest" /\ asked' = asked /\ manifest' = manifest /\ told' = told /\ told = <<>>
  BY DEF Sets!Change
<1>2. (manifest # <<>> => ManifestNames) => (manifest' # <<>> => ManifestNames')
  BY <1>1 DEF ManifestNames
<1> QED  BY <1>1, <1>2 DEF SetsInv

(* So does the verification of the manifest.                               *)
LEMMA VerifyKeeps == SetsInv /\ Sets!Verify => SetsInv'
<1> SUFFICES ASSUME SetsInv, Sets!Verify PROVE SetsInv'
  OBVIOUS
<1>1. /\ asked.tool = "manifest" /\ asked' = asked /\ manifest' = manifest /\ dir' = dir
      /\ told' = <<Sets!Verified(manifest[1], dir)>>
  BY DEF Sets!Verify
<1>2. manifest' # <<>> => ManifestNames'
  BY <1>1 DEF ManifestNames, SetsInv
<1>3. Sets!Verified(manifest[1], dir)' = Sets!Verified(manifest[1], dir)
  BY <1>1 DEF Sets!Verified, Sets!IsFile, Sets!Indexable, Sets!Json, Sets!Refused
<1>4. Answered'
  BY <1>1, <1>3 DEF Answered
<1> QED  BY <1>1, <1>2, <1>4 DEF SetsInv

(* So does the answer of a tool.                                           *)
LEMMA TellKeeps == SetsInv /\ Sets!Tell => SetsInv'
<1> SUFFICES ASSUME SetsInv, Sets!Tell PROVE SetsInv'
  OBVIOUS
<1>1. /\ unread = {} /\ asked' = asked /\ dir' = dir /\ unread' = unread /\ packs' = packs /\ index' = index
      /\ failOpen' = failOpen /\ manifest' = manifest
  BY DEF Sets!Tell
<1>2. \/ asked.tool = "engine" /\ told' = <<Sets!Catalog(dir)>>
      \/ asked.tool = "coverage" /\ told' = <<Sets!Coverage(dir)>>
      \/ asked.tool = "drift" /\ told' = <<Sets!Compared(dir, asked.reference)>>
      \/ asked.tool = "merge" /\ told' = <<Sets!MergedDirectory(dir)>>
      \/ asked.tool = "merging" /\ told' = <<Sets!Merged({dir[n].pack : n \in DOMAIN dir})>>
      \/ asked.tool = "source" /\ told' = <<Sets!Source(asked.places)>>
  BY DEF Sets!Tell
<1>3. /\ (asked.tool \in {"engine", "coverage"} => PacksAreRead /\ IndexFits)'
      /\ (manifest # <<>> => ManifestNames)'
  BY <1>1 DEF SetsInv, PacksAreRead, IndexFits, ManifestNames, ReadNames, Loads, Sets!Json, Sets!IsPack,
              Sets!Under, Sets!Programs, Sets!DispatchKeywords
<1>4. /\ Sets!Catalog(dir)' = Sets!Catalog(dir) /\ Sets!Coverage(dir)' = Sets!Coverage(dir)
      /\ Sets!Compared(dir, asked.reference)' = Sets!Compared(dir, asked.reference)
      /\ Sets!MergedDirectory(dir)' = Sets!MergedDirectory(dir)
      /\ Sets!Merged({dir[n].pack : n \in DOMAIN dir})' = Sets!Merged({dir[n].pack : n \in DOMAIN dir})
      /\ Sets!Source(asked.places)' = Sets!Source(asked.places)
  BY <1>1
<1>5. Answered'
  BY <1>1, <1>2, <1>4 DEF Answered
<1> QED  BY <1>3, <1>5 DEF SetsInv

(* The invariant of the tools that read a directory.                       *)
LEMMA SetsInvariant == ReleaseSpec => []SetsInv
<1>1. ReleaseInit => SetsInv
  <2> SUFFICES ASSUME ReleaseInit PROVE SetsInv
    OBVIOUS
  <2>1. /\ dir = asked.dir /\ packs = [x \in {} |-> <<>>] /\ index = [x \in {} |-> <<>>] /\ failOpen = FALSE
        /\ manifest = <<>> /\ told = <<>>
        /\ unread = IF asked.tool \in {"engine", "coverage"} THEN DOMAIN asked.dir ELSE {}
    BY DEF ReleaseInit, Sets!PacksInit
  <2>2. ASSUME asked.tool \in {"engine", "coverage"} PROVE PacksAreRead /\ IndexFits
    <3>1. unread = DOMAIN dir /\ DOMAIN packs = {} /\ DOMAIN index = {} /\ ReadNames = {}
      BY <2>1, <2>2 DEF ReadNames, Sets!Json
    <3> QED  BY <2>1, <3>1 DEF PacksAreRead, IndexFits, Sets!Under
  <2> QED  BY <2>1, <2>2 DEF SetsInv
<1>2. SetsInv /\ [ReleaseNext]_releaseVars => SetsInv'
  <2> SUFFICES ASSUME SetsInv, [ReleaseNext]_releaseVars PROVE SetsInv'
    OBVIOUS
  <2>1. CASE UNCHANGED packsVars
    <3>1. /\ asked' = asked /\ dir' = dir /\ unread' = unread /\ packs' = packs /\ index' = index
          /\ failOpen' = failOpen /\ manifest' = manifest /\ told' = told
      BY <2>1 DEF packsVars
    <3>2. (told # <<>> => Answered) => (told' # <<>> => Answered')
      BY <3>1 DEF Answered
    <3>3. (manifest # <<>> => ManifestNames) => (manifest' # <<>> => ManifestNames')
      BY <3>1 DEF ManifestNames
    <3>4. (PacksAreRead => PacksAreRead') /\ (IndexFits => IndexFits')
      BY <3>1 DEF PacksAreRead, IndexFits, ReadNames, Loads, Sets!Json, Sets!IsPack,
                  Sets!Under, Sets!Programs, Sets!DispatchKeywords
    <3> QED  BY <3>1, <3>2, <3>3, <3>4 DEF SetsInv
  <2>2. CASE Sets!PacksNext
    BY <2>2, ReadEntryKeeps, MakeManifestKeeps, ChangeKeeps, VerifyKeeps, TellKeeps DEF Sets!PacksNext
  <2> QED
    BY <2>1, <2>2 DEF ReleaseNext, releaseVars
<1> QED
  BY <1>1, <1>2, PTL DEF ReleaseSpec
(* An engine that has read a directory and still judges has its packs, one *)
(* for each file if no two of them share an id.                            *)
LEMMA PacksAreFiles ==
    ASSUME PacksAreRead, unread = {}, ~failOpen
    PROVE  /\ \A n \in Sets!Json(dir) : Loads(n)
           /\ DOMAIN packs = {dir[n].pack.id : n \in Sets!Json(dir)}
           /\ (\A n, m \in Sets!Json(dir) : dir[n].pack.id = dir[m].pack.id => n = m) =>
                /\ \A n \in Sets!Json(dir) : packs[dir[n].pack.id] = dir[n].pack
                /\ {packs[id] : id \in DOMAIN packs} = {dir[n].pack : n \in Sets!Json(dir)}
<1>1. ReadNames = Sets!Json(dir)
  BY DEF ReadNames
<1>2. \A n \in Sets!Json(dir) : Loads(n) /\ dir[n].pack.id \in DOMAIN packs
  BY <1>1 DEF PacksAreRead
<1>3. \A id \in DOMAIN packs : \E n \in Sets!Json(dir) : packs[id] = dir[n].pack /\ id = dir[n].pack.id
  BY <1>1 DEF PacksAreRead
<1>4. DOMAIN packs = {dir[n].pack.id : n \in Sets!Json(dir)}
  BY <1>2, <1>3
<1>5. ASSUME \A n, m \in Sets!Json(dir) : dir[n].pack.id = dir[m].pack.id => n = m
      PROVE  /\ \A n \in Sets!Json(dir) : packs[dir[n].pack.id] = dir[n].pack
             /\ {packs[id] : id \in DOMAIN packs} = {dir[n].pack : n \in Sets!Json(dir)}
  <2>1. ASSUME NEW n \in Sets!Json(dir) PROVE packs[dir[n].pack.id] = dir[n].pack
    <3>1. PICK m \in Sets!Json(dir) : packs[dir[n].pack.id] = dir[m].pack /\ dir[n].pack.id = dir[m].pack.id
      BY <1>2, <1>3
    <3>2. n = m
      BY <3>1, <1>5
    <3> QED  BY <3>1, <3>2
  <2>2. {packs[id] : id \in DOMAIN packs} = {dir[n].pack : n \in Sets!Json(dir)}
    BY <2>1, <1>2, <1>3
  <2> QED  BY <2>1, <2>2
<1> QED  BY <1>2, <1>4, <1>5

(* The keyword index is exact.                                             *)
LEMMA IndexHolds == SetsInv => Sets!IndexIsExact
<1> SUFFICES ASSUME SetsInv, asked.tool \in {"engine", "coverage"}
             PROVE  /\ \A p \in {Basename[k] : k \in DOMAIN Basename} :
                         Sets!Under(index, p) = {id \in DOMAIN packs : p \in Sets!Programs(packs[id])}
                    /\ unread = {} /\ ~failOpen =>
                         DOMAIN packs = {dir[n].pack.id : n \in Sets!Json(dir)}
  BY DEF Sets!IndexIsExact
<1>1. PacksAreRead /\ IndexFits
  BY DEF SetsInv
<1>2. \A p \in {Basename[k] : k \in DOMAIN Basename} :
        Sets!Under(index, p) = {id \in DOMAIN packs : p \in Sets!Programs(packs[id])}
  BY <1>1 DEF IndexFits
<1>3. unread = {} /\ ~failOpen => DOMAIN packs = {dir[n].pack.id : n \in Sets!Json(dir)}
  BY <1>1, PacksAreFiles
<1> QED  BY <1>2, <1>3

(* The catalog lists what is enforced.                                     *)
LEMMA CatalogHolds == SetsInv => Sets!CatalogIsEnforced
<1> SUFFICES ASSUME SetsInv, asked.tool = "engine", told # <<>>, told[1].ok, ~failOpen
             PROVE  /\ told[1].never = Sets!Guarded({packs[id] : id \in DOMAIN packs})
                    /\ told[1].always = Sets!Safe({packs[id] : id \in DOMAIN packs})
  BY DEF Sets!CatalogIsEnforced
<1> DEFINE loaded == {dir[n].pack : n \in Sets!Json(dir)}
           single == \A p \in loaded : Sets!IsInjective(Sets!Ids(p.guarded)) /\ Sets!IsInjective(Sets!Ids(p.safe))
           readable == Sets!Json(dir) # {} /\ \A n \in Sets!Json(dir) : Sets!IsPack(dir, n)
           distinct == \A n, m \in Sets!Json(dir) : dir[n].pack.id = dir[m].pack.id => n = m
<1>1. told = <<Sets!Catalog(dir)>> /\ unread = {} /\ PacksAreRead
  BY DEF SetsInv, Answered
<1>2. Sets!Catalog(dir) =
        IF readable /\ distinct /\ single
        THEN [ok |-> TRUE, never |-> Sets!Guarded(loaded), always |-> Sets!Safe(loaded)]
        ELSE [ok |-> FALSE]
  BY DEF Sets!Catalog, Sets!Refused
<1>3. Sets!Catalog(dir).ok
  BY <1>1
<1> HIDE DEF single, readable, loaded
<1>4. distinct /\ Sets!Catalog(dir) = [ok |-> TRUE, never |-> Sets!Guarded(loaded), always |-> Sets!Safe(loaded)]
  BY <1>2, <1>3
<1>5. {packs[id] : id \in DOMAIN packs} = loaded
  BY <1>1, <1>4, PacksAreFiles DEF loaded
<1>6. told[1] = [ok |-> TRUE, never |-> Sets!Guarded(loaded), always |-> Sets!Safe(loaded)]
  BY <1>1, <1>4
<1>7. told[1].never = Sets!Guarded(loaded) /\ told[1].always = Sets!Safe(loaded)
  BY <1>6
<1> DEFINE kept == {packs[id] : id \in DOMAIN packs}
<1>8. kept = loaded
  BY <1>5
<1> HIDE DEF kept
<1>9. told[1].never = Sets!Guarded(kept) /\ told[1].always = Sets!Safe(kept)
  BY <1>7, <1>8
<1> QED  BY <1>9 DEF kept

(* Coverage lists what is enforced, or names what keeps it from being.     *)
LEMMA CoverageHolds == SetsInv => Sets!CoverageIsHonest
<1> SUFFICES ASSUME SetsInv, asked.tool = "coverage", told # <<>>, told[1].ok
             PROVE  IF failOpen
                    THEN told[1].unreadable # {} \/ \E n \in Sets!Readable(dir) : ~dir[n].pack.compiles
                    ELSE /\ told[1].unreadable = {}
                         /\ told[1].rules =
                              UNION {{<<id, r.id, r.enabled>> : r \in Sets!ToSet(packs[id].guarded)} :
                                         id \in DOMAIN packs}
  BY DEF Sets!CoverageIsHonest
<1> DEFINE rules == UNION {{<<dir[n].pack.id, r.id, r.enabled>> : r \in Sets!ToSet(dir[n].pack.guarded)} :
                             n \in Sets!Readable(dir)}
           listed == UNION {{<<id, r.id, r.enabled>> : r \in Sets!ToSet(packs[id].guarded)} : id \in DOMAIN packs}
           skipped == Sets!Json(dir) \ Sets!Readable(dir)
<1>1. told = <<Sets!Coverage(dir)>> /\ unread = {} /\ PacksAreRead
  BY DEF SetsInv, Answered
<1>2. Sets!Coverage(dir) =
        IF Sets!Readable(dir) = {} \/ Sets!Shared(dir) # {} THEN [ok |-> FALSE]
        ELSE [ok |-> TRUE, unreadable |-> skipped, rules |-> rules]
  BY DEF Sets!Coverage, Sets!Refused
<1>3. Sets!Coverage(dir).ok
  BY <1>1
<1> HIDE DEF rules, skipped
<1>4. /\ Sets!Shared(dir) = {}
      /\ Sets!Coverage(dir) = [ok |-> TRUE, unreadable |-> skipped, rules |-> rules]
  BY <1>2, <1>3
<1>5. told[1].unreadable = skipped /\ told[1].rules = rules
  BY <1>1, <1>4
<1>6. CASE failOpen
  <2>1. PICK n \in Sets!Json(dir) : ~Loads(n)
    BY <1>1, <1>6 DEF PacksAreRead
  <2>2. n \in skipped \/ (n \in Sets!Readable(dir) /\ ~dir[n].pack.compiles)
    BY <2>1 DEF Loads, skipped, Sets!Readable
  <2> QED  BY <1>5, <1>6, <2>2
<1>7. CASE ~failOpen
  <2>1. \A n \in Sets!Json(dir) : Loads(n)
    BY <1>1, <1>7, PacksAreFiles
  <2>2. Sets!Readable(dir) = Sets!Json(dir)
    BY <2>1 DEF Loads, Sets!Readable
  <2>3. \A n, m \in Sets!Json(dir) : dir[n].pack.id = dir[m].pack.id => n = m
    BY <1>4, <2>2 DEF Sets!Shared
  <2>4. /\ DOMAIN packs = {dir[n].pack.id : n \in Sets!Json(dir)}
        /\ \A n \in Sets!Json(dir) : packs[dir[n].pack.id] = dir[n].pack
    BY <1>1, <1>7, <2>3, PacksAreFiles
  <2>5. rules = listed
    <3> DEFINE Of(n) == {<<dir[n].pack.id, r.id, r.enabled>> : r \in Sets!ToSet(dir[n].pack.guarded)}
               In(id) == {<<id, r.id, r.enabled>> : r \in Sets!ToSet(packs[id].guarded)}
    <3>1. \A n \in Sets!Json(dir) : dir[n].pack.id \in DOMAIN packs /\ Of(n) = In(dir[n].pack.id)
      BY <2>4
    <3>2. \A id \in DOMAIN packs : \E n \in Sets!Json(dir) : id = dir[n].pack.id
      BY <2>4
    <3>3. rules = UNION {Of(n) : n \in Sets!Json(dir)} /\ listed = UNION {In(id) : id \in DOMAIN packs}
      BY <2>2 DEF rules
    <3> HIDE DEF Of, In
    <3>4. {Of(n) : n \in Sets!Json(dir)} = {In(id) : id \in DOMAIN packs}
      BY <3>1, <3>2
    <3> QED  BY <3>3, <3>4
  <2>6. skipped = {}
    BY <2>2 DEF skipped
  <2> QED  BY <1>5, <1>7, <2>5, <2>6
<1> QED  BY <1>6, <1>7

(* A verified directory is the one that was indexed.                       *)
LEMMA ManifestHolds == SetsInv => Sets!ManifestIsExact
<1> SUFFICES ASSUME SetsInv, asked.tool = "manifest", manifest # <<>>, told # <<>>
             PROVE  told[1].ok <=> [n \in Sets!Indexable(dir) |-> dir[n]] = manifest[1]
  BY DEF Sets!ManifestIsExact
<1> DEFINE made == manifest[1]
           names == Sets!Indexable(dir)
           kept == \A n \in DOMAIN made : n \in DOMAIN dir /\ Sets!IsFile(dir, n) /\ dir[n] = made[n]
           added == {n \in names : Stem[n] \notin {Stem[m] : m \in DOMAIN made}}
<1>1. /\ told = <<Sets!Verified(made, dir)>>
      /\ DOMAIN made \subseteq DOMAIN Stem /\ made = [n \in DOMAIN made |-> made[n]]
  BY DEF SetsInv, Answered, ManifestNames
<1>2. Sets!Verified(made, dir) = IF kept /\ added = {} THEN [ok |-> TRUE] ELSE [ok |-> FALSE]
  BY DEF Sets!Verified, Sets!Refused
<1>3. \A n, m \in DOMAIN Stem : Stem[n] = Stem[m] => n = m
  BY StemsAssumption DEF Sets!StemsAreNames, Sets!IsInjective
<1>4. names = {n \in DOMAIN dir \cap DOMAIN Stem : Sets!IsFile(dir, n)}
  BY DEF Sets!Indexable, Sets!Json
<1>5. told[1].ok <=> kept /\ added = {}
  <2> HIDE DEF kept, added
  <2>1. told[1] = IF kept /\ added = {} THEN [ok |-> TRUE] ELSE [ok |-> FALSE]
    BY <1>1, <1>2
  <2> QED  BY <2>1
<1> HIDE DEF names, made
<1>6. ASSUME kept, added = {} PROVE [n \in names |-> dir[n]] = made
  <2>1. DOMAIN made \subseteq names
    BY <1>1, <1>4, <1>6
  <2>2. names \subseteq DOMAIN made
    <3>1. ASSUME NEW n \in names PROVE n \in DOMAIN made
      <4>1. PICK m \in DOMAIN made : Stem[n] = Stem[m]
        BY <1>6
      <4>2. n \in DOMAIN Stem /\ m \in DOMAIN Stem
        BY <1>1, <1>4
      <4> QED  BY <4>1, <4>2, <1>3
    <3> QED  BY <3>1
  <2>3. names = DOMAIN made
    BY <2>1, <2>2
  <2>4. \A n \in names : dir[n] = made[n]
    BY <2>3, <1>6
  <2> QED  BY <2>3, <2>4, <1>1
<1>7. ASSUME [n \in names |-> dir[n]] = made PROVE kept /\ added = {}
  <2>1. DOMAIN made = names /\ \A n \in names : made[n] = dir[n]
    BY <1>7
  <2> QED  BY <2>1, <1>4
<1> QED  BY <1>5, <1>6, <1>7 DEF made, names

(* Two directories without drift hold the same bytes, and the same packs   *)
(* that can be compared do not drift.                                      *)
LEMMA FactIs ==
    ASSUME NEW d, Sets!Comparable(d), NEW n \in Sets!Json(d)
    PROVE  n \in Sets!Readable(d) /\ d[n].pack.id \in Sets!PackIds(d) /\ Sets!Fact(d, d[n].pack.id) = d[n]
<1>1. Sets!Readable(d) = Sets!Json(d)
  BY DEF Sets!Comparable, Sets!Readable
<1>2. \A m \in Sets!Readable(d) : d[m].pack.id = d[n].pack.id => m = n
  BY <1>1 DEF Sets!Comparable
<1>3. (CHOOSE m \in Sets!Readable(d) : d[m].pack.id = d[n].pack.id) = n
  BY <1>1, <1>2
<1> QED  BY <1>1, <1>3 DEF Sets!PackIds, Sets!Fact

(* A directory without faults is one that can be compared.                 *)
LEMMA FaultsAre ==
    ASSUME NEW d
    PROVE  Sets!Faults(d) = {} <=> Sets!Comparable(d)
<1>1. Sets!Faults(d) = {} <=> Sets!Json(d) \subseteq Sets!Readable(d) /\ Sets!Shared(d) = {}
  BY DEF Sets!Faults
<1>2. Sets!Readable(d) = {n \in Sets!Json(d) : Sets!IsPack(d, n)}
  BY DEF Sets!Readable
<1>3. Sets!Shared(d) = {} <=> \A m, k \in Sets!Readable(d) : k # m => d[k].pack.id # d[m].pack.id
  BY DEF Sets!Shared
<1> QED  BY <1>1, <1>2, <1>3 DEF Sets!Comparable

(* Two directories do not drift exactly when both can be compared and hold *)
(* the same files' bytes.                                                  *)
LEMMA NoDriftIs ==
    ASSUME NEW d, NEW e
    PROVE  /\ Sets!Drift(d, e) = {} =>
                 /\ Sets!Comparable(d) /\ Sets!Comparable(e)
                 /\ {d[n] : n \in Sets!Json(d)} = {e[n] : n \in Sets!Json(e)}
           /\ (/\ Sets!Comparable(d) /\ Sets!Comparable(e)
               /\ {d[n] : n \in Sets!Json(d)} = {e[n] : n \in Sets!Json(e)}) => Sets!Drift(d, e) = {}
<1> DEFINE changed == {i \in Sets!PackIds(d) \cap Sets!PackIds(e) : Sets!Fact(d, i) # Sets!Fact(e, i)}
<1>1. Sets!Drift(d, e) = {} <=>
        /\ Sets!Faults(d) = {} /\ Sets!Faults(e) = {}
        /\ Sets!PackIds(e) \ Sets!PackIds(d) = {} /\ Sets!PackIds(d) \ Sets!PackIds(e) = {}
        /\ changed = {}
  <2>1. Sets!Drift(d, e) =
          Sets!Faults(d) \cup Sets!Faults(e)
          \cup {<<"missing", id>> : id \in Sets!PackIds(e) \ Sets!PackIds(d)}
          \cup {<<"extra", id>> : id \in Sets!PackIds(d) \ Sets!PackIds(e)}
          \cup {<<"changed", id>> : id \in changed}
    BY DEF Sets!Drift
  <2> HIDE DEF changed
  <2> QED  BY <2>1
<1>2. Sets!Drift(d, e) = {} <=>
        /\ Sets!Comparable(d) /\ Sets!Comparable(e) /\ Sets!PackIds(d) = Sets!PackIds(e)
        /\ \A i \in Sets!PackIds(d) : Sets!Fact(d, i) = Sets!Fact(e, i)
  BY <1>1, FaultsAre
<1>3. ASSUME NEW f, NEW g, Sets!Comparable(f), Sets!Comparable(g), Sets!PackIds(f) \subseteq Sets!PackIds(g),
             \A i \in Sets!PackIds(f) : Sets!Fact(f, i) = Sets!Fact(g, i), NEW n \in Sets!Json(f)
      PROVE  f[n] \in {g[m] : m \in Sets!Json(g)}
  <2>1. f[n].pack.id \in Sets!PackIds(g) /\ f[n] = Sets!Fact(g, f[n].pack.id)
    BY <1>3, FactIs
  <2>2. PICK m \in Sets!Readable(g) : g[m].pack.id = f[n].pack.id
    BY <2>1 DEF Sets!PackIds
  <2>3. m \in Sets!Json(g)
    BY <2>2 DEF Sets!Readable
  <2>4. Sets!Fact(g, f[n].pack.id) = g[m]
    BY <2>2, <2>3, <1>3, FactIs
  <2> QED  BY <2>1, <2>3, <2>4
<1>4. ASSUME NEW f, NEW g, Sets!Comparable(f), Sets!Comparable(g),
             {f[n] : n \in Sets!Json(f)} \subseteq {g[n] : n \in Sets!Json(g)}, NEW i \in Sets!PackIds(f)
      PROVE  i \in Sets!PackIds(g) /\ Sets!Fact(f, i) = Sets!Fact(g, i)
  <2>1. PICK n \in Sets!Json(f) : i = f[n].pack.id
    BY DEF Sets!PackIds, Sets!Readable
  <2>2. PICK m \in Sets!Json(g) : f[n] = g[m]
    BY <1>4
  <2>3. i = g[m].pack.id
    BY <2>1, <2>2
  <2> QED  BY <2>1, <2>2, <2>3, <1>4, FactIs
<1>5. ASSUME Sets!Drift(d, e) = {}
      PROVE  /\ Sets!Comparable(d) /\ Sets!Comparable(e)
             /\ {d[n] : n \in Sets!Json(d)} = {e[n] : n \in Sets!Json(e)}
  <2>1. /\ Sets!Comparable(d) /\ Sets!Comparable(e) /\ Sets!PackIds(d) = Sets!PackIds(e)
        /\ \A i \in Sets!PackIds(d) : Sets!Fact(d, i) = Sets!Fact(e, i)
    BY <1>2, <1>5
  <2>2. \A n \in Sets!Json(d) : d[n] \in {e[m] : m \in Sets!Json(e)}
    BY <2>1, <1>3
  <2>3. \A n \in Sets!Json(e) : e[n] \in {d[m] : m \in Sets!Json(d)}
    BY <2>1, <1>3
  <2> QED  BY <2>1, <2>2, <2>3
<1>6. ASSUME Sets!Comparable(d), Sets!Comparable(e),
             {d[n] : n \in Sets!Json(d)} = {e[n] : n \in Sets!Json(e)}
      PROVE  Sets!Drift(d, e) = {}
  <2>1. \A i \in Sets!PackIds(d) : i \in Sets!PackIds(e) /\ Sets!Fact(d, i) = Sets!Fact(e, i)
    BY <1>4, <1>6
  <2>2. \A i \in Sets!PackIds(e) : i \in Sets!PackIds(d)
    BY <1>4, <1>6
  <2> QED  BY <2>1, <2>2, <1>2, <1>6
<1> QED  BY <1>5, <1>6

(* The invariant implies that drift is exact.                              *)
LEMMA DriftHolds == SetsInv => Sets!DriftIsExact
<1> DEFINE ref == asked.reference
           here == {dir[n] : n \in Sets!Json(dir)}
           there == {ref[n] : n \in Sets!Json(ref)}
<1> SUFFICES ASSUME SetsInv, asked.tool = "drift", told # <<>>
             PROVE  /\ told[1].ok => here = there
                    /\ (here = there /\ Sets!Json(dir) # {}) =>
                         (told[1].ok <=> Sets!Comparable(dir) /\ Sets!Comparable(ref))
  BY DEF Sets!DriftIsExact
<1>1. told = <<Sets!Compared(dir, ref)>>
  BY DEF SetsInv, Answered
<1> DEFINE findings == Sets!Drift(dir, ref)
<1>2. Sets!Compared(dir, ref) =
        IF Sets!Json(dir) = {} \/ Sets!Json(ref) = {} THEN [ok |-> FALSE, exit |-> 2]
        ELSE [ok |-> findings = {}, exit |-> IF findings = {} THEN 0 ELSE 1, findings |-> findings]
  BY DEF Sets!Compared
<1> HIDE DEF findings
<1>3. Sets!Compared(dir, ref).ok <=> Sets!Json(dir) # {} /\ Sets!Json(ref) # {} /\ findings = {}
  <2> DEFINE same == findings = {}
             found == [ok |-> same, exit |-> IF findings = {} THEN 0 ELSE 1, findings |-> findings]
  <2>1. found.ok = same
    OBVIOUS
  <2>2. CASE Sets!Json(dir) = {} \/ Sets!Json(ref) = {}
    <3>1. Sets!Compared(dir, ref) = [ok |-> FALSE, exit |-> 2]
      BY <1>2, <2>2
    <3> QED  BY <3>1, <2>2
  <2>3. CASE Sets!Json(dir) # {} /\ Sets!Json(ref) # {}
    <3>1. Sets!Compared(dir, ref) = found
      BY <1>2, <2>3
    <3> HIDE DEF found
    <3> QED  BY <3>1, <2>1, <2>3
  <2> QED  BY <2>2, <2>3
<1>4. told[1].ok <=> Sets!Json(dir) # {} /\ Sets!Json(ref) # {} /\ findings = {}
  BY <1>1, <1>3
<1>5. /\ findings = {} => Sets!Comparable(dir) /\ Sets!Comparable(ref) /\ here = there
      /\ (Sets!Comparable(dir) /\ Sets!Comparable(ref) /\ here = there) => findings = {}
  BY NoDriftIs DEF findings
<1>6. here = there /\ Sets!Json(dir) # {} => Sets!Json(ref) # {}
  OBVIOUS
<1> HIDE DEF here, there, ref
<1> QED  BY <1>4, <1>5, <1>6

(* A merged artifact denies what its packs deny.                           *)
LEMMA MergedKeeps ==
    ASSUME NEW set, Sets!Merged(set).ok, NEW call, NEW p \in {Sets!AsSets(q) : q \in set},
           Sets!Asks(p, call), Sets!Denies(p, call),
           ~\E q \in {Sets!AsSets(r) : r \in set} : Sets!Excuses(q, call)
    PROVE  /\ Sets!Asks(Sets!Merged(set), call)
           /\ Sets!Denies(Sets!Merged(set), call)
           /\ ~Sets!Excuses(Sets!Merged(set), call)
<1> DEFINE m == Sets!Merged(set)
           Keywords(q) == Sets!ToSet(q.keywords)
           Deprecated(q) == Sets!ToSet(q.deprecated)
           Never(q) == Sets!ToSet(q.guarded)
           Always(q) == Sets!ToSet(q.safe)
<1>1. /\ m.keywords = UNION {Keywords(q) : q \in set}
      /\ m.deprecated = UNION {Deprecated(q) : q \in set}
      /\ m.guarded = UNION {Never(q) : q \in set}
      /\ m.safe = UNION {Always(q) : q \in set}
      /\ ~\E q, r \in set : Sets!Unconditional(q) /\ ~Sets!Unconditional(r)
  <2> DEFINE merged == [ok |-> TRUE,
                        keywords |-> UNION {Keywords(q) : q \in set},
                        deprecated |-> UNION {Deprecated(q) : q \in set},
                        guarded |-> UNION {Never(q) : q \in set},
                        safe |-> UNION {Always(q) : q \in set}]
             none == set = {} \/ \E q, r \in set : Sets!Unconditional(q) /\ ~Sets!Unconditional(r)
  <2>1. m = IF none THEN [ok |-> FALSE] ELSE merged
    BY DEF Sets!Merged, Sets!Refused
  <2>2. /\ merged.keywords = UNION {Keywords(q) : q \in set}
        /\ merged.deprecated = UNION {Deprecated(q) : q \in set}
        /\ merged.guarded = UNION {Never(q) : q \in set}
        /\ merged.safe = UNION {Always(q) : q \in set}
    OBVIOUS
  <2> HIDE DEF none, merged
  <2>3. ~none /\ m = merged
    BY <2>1
  <2> HIDE DEF m
  <2> QED  BY <2>2, <2>3 DEF none
<1>2. PICK own \in set : p = Sets!AsSets(own)
  OBVIOUS
<1>3. \A q \in set : /\ Sets!AsSets(q).keywords = Keywords(q) /\ Sets!AsSets(q).deprecated = Deprecated(q)
                     /\ Sets!AsSets(q).guarded = Never(q) /\ Sets!AsSets(q).safe = Always(q)
                     /\ Sets!Unconditional(q) <=> Keywords(q) = {}
  BY DEF Sets!AsSets, Sets!Unconditional
<1> HIDE DEF m, Keywords, Deprecated, Never, Always
<1>4. Sets!Asks(m, call)
  <2>1. CASE p.keywords = {}
    <3>1. \A q \in set : Keywords(q) = {}
      BY <2>1, <1>1, <1>2, <1>3
    <3>2. m.keywords = {}
      BY <3>1, <1>1
    <3> QED  BY <3>2 DEF Sets!Asks
  <2>2. CASE call.program \in {Basename[k] : k \in p.keywords \cup p.deprecated}
    <3>1. p.keywords \subseteq m.keywords /\ p.deprecated \subseteq m.deprecated
      BY <1>1, <1>2, <1>3
    <3> QED  BY <3>1, <2>2 DEF Sets!Asks
  <2> QED  BY <2>1, <2>2 DEF Sets!Asks
<1>5. Sets!Denies(m, call)
  <2>1. p.guarded \subseteq m.guarded
    BY <1>1, <1>2, <1>3
  <2> QED  BY <2>1 DEF Sets!Denies
<1>6. ~Sets!Excuses(m, call)
  <2>1. SUFFICES ASSUME NEW s \in m.safe, call.text \in s.matches PROVE FALSE
    BY DEF Sets!Excuses
  <2>2. PICK q \in set : s \in Always(q)
    BY <1>1
  <2>3. s \in Sets!AsSets(q).safe
    BY <2>2, <1>3
  <2>4. Sets!Excuses(Sets!AsSets(q), call)
    BY <2>1, <2>3 DEF Sets!Excuses
  <2> QED  BY <2>2, <2>4
<1> QED  BY <1>4, <1>5, <1>6 DEF m

(* The invariant implies that a merge keeps the denials of its parts.      *)
LEMMA MergeHolds == SetsInv => Sets!MergeKeepsDenials
<1> DEFINE read == {Sets!AsSets(dir[n].pack) : n \in Sets!Json(dir)}
           sources == IF asked.tool = "merging" THEN {Sets!AsSets(dir[n].pack) : n \in DOMAIN dir}
                      ELSE {p \in read : p.keywords # {}}
<1> SUFFICES ASSUME SetsInv, asked.tool \in {"merge", "merging"}, told # <<>>, told[1].ok,
                    NEW call \in Calls, NEW p \in sources,
                    Sets!Asks(p, call), Sets!Denies(p, call), ~\E q \in sources : Sets!Excuses(q, call)
             PROVE  Sets!Asks(told[1], call) /\ Sets!Denies(told[1], call) /\ ~Sets!Excuses(told[1], call)
  BY DEF Sets!MergeKeepsDenials
<1>1. ASSUME NEW set, told[1] = Sets!Merged(set), sources = {Sets!AsSets(q) : q \in set}
      PROVE  Sets!Asks(told[1], call) /\ Sets!Denies(told[1], call) /\ ~Sets!Excuses(told[1], call)
  <2> HIDE DEF sources
  <2>1. p \in {Sets!AsSets(q) : q \in set} /\ ~\E q \in {Sets!AsSets(r) : r \in set} : Sets!Excuses(q, call)
    BY <1>1
  <2>2. Sets!Merged(set).ok
    BY <1>1
  <2> QED  BY <2>1, <2>2, <1>1, MergedKeeps
<1>2. CASE asked.tool = "merging"
  <2> DEFINE set == {dir[n].pack : n \in DOMAIN dir}
  <2>1. told[1] = Sets!Merged(set)
    BY <1>2 DEF SetsInv, Answered
  <2>2. sources = {Sets!AsSets(q) : q \in set}
    BY <1>2
  <2> HIDE DEF set, sources
  <2> QED  BY <2>1, <2>2, <1>1
<1>3. CASE asked.tool = "merge"
  <2> DEFINE names == {m \in Sets!Json(dir) : ~Sets!Unconditional(dir[m].pack)}
             set == {dir[n].pack : n \in names}
  <2>1. told[1] = Sets!MergedDirectory(dir)
    BY <1>3 DEF SetsInv, Answered
  <2>2. told[1] = Sets!Merged(set)
    BY <2>1 DEF Sets!MergedDirectory, Sets!Refused
  <2>3. \A n \in Sets!Json(dir) : Sets!AsSets(dir[n].pack).keywords # {} <=> n \in names
    BY DEF Sets!AsSets, Sets!Unconditional
  <2>4. sources = {Sets!AsSets(q) : q \in set}
    <3> HIDE DEF names
    <3>1. names \subseteq Sets!Json(dir)
      BY DEF names
    <3> QED  BY <1>3, <2>3, <3>1
  <2> HIDE DEF set, sources
  <2> QED  BY <2>2, <2>4, <1>1
<1> QED  BY <1>2, <1>3

(* Packs come from a place that no better one hides.                       *)
LEMMA SourceHolds == SetsInv => Sets!SourceIsMeant
<1> DEFINE places == asked.places
           rank == [explicit |-> 1, variable |-> 2, override |-> 3, modular |-> 4, legacy |-> 5,
                     repository |-> 6]
           better == {p \in DOMAIN rank : rank[p] < rank[told[1].place]}
<1> SUFFICES ASSUME SetsInv, asked.tool = "source", told # <<>>, told[1].ok
             PROVE  /\ places[told[1].place] = "packs"
                    /\ \A p \in better \cap {"explicit", "variable"} : places[p] = "unset"
                    /\ "override" \in better => places.override \in {"unset", "missing"}
                    /\ \A p \in better \cap {"modular", "legacy"} :
                         places[p] = "missing" \/ places.override = "missing"
  BY DEF Sets!SourceIsMeant
<1>1. told[1] = Sets!Source(places)
  BY DEF SetsInv, Answered
<1> HIDE DEF places
<1>2. told[1].place = Sets!Chosen(places) /\ places[Sets!Chosen(places)] = "packs"
  BY <1>1 DEF Sets!Source, Sets!Refused
<1> DEFINE chosen == Sets!Chosen(places)
<1>3. /\ chosen \in {"explicit", "variable", "override", "modular", "legacy", "repository"}
      /\ chosen # "explicit" => places.explicit = "unset"
      /\ chosen \notin {"explicit", "variable"} => places.variable = "unset"
      /\ chosen \in {"modular", "legacy", "repository"} => places.override \in {"unset", "missing"}
      /\ chosen \in {"legacy", "repository"} => places.modular = "missing" \/ places.override = "missing"
      /\ chosen = "repository" => places.legacy = "missing" \/ places.override = "missing"
  BY DEF Sets!Chosen
<1> HIDE DEF chosen
<1>4. /\ DOMAIN rank = {"explicit", "variable", "override", "modular", "legacy", "repository"}
      /\ rank["explicit"] = 1 /\ rank["variable"] = 2 /\ rank["override"] = 3
      /\ rank["modular"] = 4 /\ rank["legacy"] = 5 /\ rank["repository"] = 6
  OBVIOUS
<1> HIDE DEF rank
<1>5. better = {p \in DOMAIN rank : rank[p] < rank[chosen]}
  BY <1>2 DEF chosen
<1>6. /\ "explicit" \in better => chosen # "explicit"
      /\ "variable" \in better => chosen \notin {"explicit", "variable"}
      /\ "override" \in better => chosen \in {"modular", "legacy", "repository"}
      /\ "modular" \in better => chosen \in {"legacy", "repository"}
      /\ "legacy" \in better => chosen = "repository"
  BY <1>3, <1>4, <1>5
<1> HIDE DEF better
<1>7. /\ \A p \in better \cap {"explicit", "variable"} : places[p] = "unset"
      /\ "override" \in better => places.override \in {"unset", "missing"}
      /\ \A p \in better \cap {"modular", "legacy"} : places[p] = "missing" \/ places.override = "missing"
  BY <1>3, <1>6
<1> QED  BY <1>2, <1>7

(* PackToolsAgree, for every directory, file and change.                   *)
THEOREM PackToolsTrue == ReleaseSpec => []PackToolsAgree
<1>1. SetsInv => PackToolsAgree
  BY IndexHolds, CatalogHolds, CoverageHolds, DriftHolds, ManifestHolds, MergeHolds, SourceHolds
     DEF PackToolsAgree, Sets!PackToolsAgree
<1> QED
  BY <1>1, SetsInvariant, PTL
=============================================================================
