----------------------------- MODULE OverrideLife -----------------------------
(***************************************************************************)
(* Per-repository overrides: a request is approved into a manifest that is *)
(* bound to a release and to a repository, ages, and is honoured or        *)
(* refused by each hook that is told to use it.  Between the steps days    *)
(* pass, the host adopts other releases, and files are edited by hand.     *)
(***************************************************************************)
EXTENDS Naturals, SequencesExt, FiniteSets

CONSTANTS
    LastName,         \* per repository, the last component of its name
    RuleIds,      \* rules that requests name
    Refs,         \* releases, "latest" among them
    Nil,          \* no release
    Loaded,       \* what a hook may have loaded: guarded rules, pack after pack
    HandWritten,  \* manifests that somebody may write by hand, into
    HandPlaces,   \* these files
    Cadence,      \* REJUSTIFICATION_CADENCE_DAYS
    Expiries,     \* days that an approval may name as its expiration
    MaxDay,       \* bound: the last day
    MaxWrites     \* bound: approvals and edits

(* Days are counted from the first one.                                    *)
DaysAreNumbers ==
    /\ Cadence \in Nat /\ Expiries \subseteq Nat
    /\ \A m \in HandWritten : m.readable => m.justified \in Nat /\ m.expires \in Nat

VARIABLES
    today,
    pointer,     \* the trusted reference of the host
    request,     \* the last override request
    files,       \* override files, by place
    granted,     \* history: all manifests that were approved or hand-written
    writes,      \* how many files were written
    honoured     \* the exemptions of the hook that ran in the last step

overrideVars == <<today, pointer, request, files, granted, writes, honoured>>

Dirs == {"default", "checkout", "fallback"}
(* Directories whose last component is "overrides"; the fallback is        *)
(* /tmp/icg-overrides.                                                     *)
NamedOverrides == {"default", "checkout"}

(* The repository's own file, and the one that approve names by itself.    *)
Repos == DOMAIN LastName
OwnName(repo) == <<LastName[repo]>>
ApprovedName(repo, id) == <<LastName[repo], id>>

(* A file that parse_override_toml refuses.                                *)
Unreadable == [readable |-> FALSE]

NewManifest(repo, ref, id, expires) ==
    [readable |-> TRUE, repository |-> repo, release_ref |-> ref, ids |-> <<id>>,
     expires |-> expires, justified |-> today]

(* freshness_at                                                            *)
Freshness(m) ==
    IF m.expires <= today THEN "Expired"
    ELSE IF today > m.justified + Cadence THEN "Stale" ELSE "Fresh"

(* validate_metadata                                                       *)
ValidMetadata(m, repo, ref) ==
    /\ m.repository = repo
    /\ ref # "latest" /\ m.release_ref = ref
    /\ m.ids # <<>>
    /\ m.justified <= today
    /\ Freshness(m) = "Fresh"

(* validate_override_at: no two loaded rules share an id, and the manifest *)
(* names deny rules of theirs, each once.                                  *)
(* Mutant: the release of the manifest is not compared.                    *)
ValidForAnyRelease(m, repo, ref, rules) ==
    /\ ValidMetadata(m, repo, m.release_ref)
    /\ IsInjective([k \in DOMAIN rules |-> rules[k].id])
    /\ IsInjective(m.ids)
    /\ \A id \in ToSet(m.ids) : \E r \in ToSet(rules) : r.id = id /\ r.channel = "deny"

Valid(m, repo, ref, rules) ==
    /\ ValidMetadata(m, repo, ref)
    /\ IsInjective([k \in DOMAIN rules |-> rules[k].id])
    /\ IsInjective(m.ids)
    /\ \A id \in ToSet(m.ids) : \E r \in ToSet(rules) : r.id = id /\ r.channel = "deny"

OverridesInit ==
    /\ today = 0 /\ pointer = Nil /\ request = <<>>
    /\ files = [p \in {} |-> Unreadable] /\ granted = {} /\ writes = 0 /\ honoured = <<>>

(* A file is written; a readable manifest grants what it says.             *)
Put(place, m) ==
    /\ writes < MaxWrites /\ writes' = writes + 1
    /\ files' = [p \in DOMAIN files \cup {place} |-> IF p = place THEN m ELSE files[p]]
    /\ granted' = IF m.readable THEN granted \cup {m} ELSE granted

(* create_override_request                                                 *)
CreateRequest(repo, id) ==
    /\ request' = <<[repo |-> repo, id |-> id]>>
    /\ honoured' = <<>>
    /\ UNCHANGED <<today, pointer, files, granted, writes>>

(* What approve_override writes.  Without a release it is only a record,   *)
(* that binds nothing.  A write to the default directory that fails goes   *)
(* to /tmp.                                                                *)
ApproveAs(ref, expires, checked, dir, named) ==
    LET repo == request[1].repo
        manifest == NewManifest(repo, ref, request[1].id, expires)
        place == [dir |-> dir,
                  name |-> IF named # <<>> THEN named[1] ELSE ApprovedName(repo, request[1].id),
                  toml |-> named # <<>> \/ ref # Nil]
        fallback == [place EXCEPT !.dir = "fallback"]
    IN /\ (ref # Nil /\ checked # <<>>) => Valid(manifest, repo, ref, checked[1])
       /\ \E target \in {place} \cup (IF dir = "default" THEN {fallback} ELSE {}) :
            Put(target, IF ref # Nil THEN manifest ELSE Unreadable)

(* approve_override.  Without --release-ref the trust pointer's release is *)
(* taken.                                                                  *)
Approve ==
    /\ request # <<>>
    /\ \E given \in Refs \cup {Nil}, expires \in Expiries, checked \in {<<>>} \cup {<<r>> : r \in Loaded},
          dir \in Dirs \ {"fallback"}, named \in {<<>>} \cup {<<OwnName(request[1].repo)>>} :
         ApproveAs(IF given # Nil THEN given ELSE pointer, expires, checked, dir, named)
    /\ honoured' = <<>>
    /\ UNCHANGED <<today, pointer, request>>

EditFile(place, m) ==
    /\ Put(place, m)
    /\ honoured' = <<>>
    /\ UNCHANGED <<today, pointer, request>>

(* load_verified_override, told the place, the repository and the release: *)
(* the place must be an overrides/<repo>.toml.  A hook that is refused its *)
(* file ends in an error and exempts nothing.                              *)
UseOverride(place, repo, ref, rules) ==
    /\ LET placed == place.toml /\ place.dir \in NamedOverrides /\ place.name = OwnName(repo)
           m == files[place]
       IN honoured' = IF placed /\ m.readable /\ Valid(m, repo, ref, rules)
                      THEN <<[place |-> place, repo |-> repo, ref |-> ref, rules |-> rules,
                              ids |-> ToSet(m.ids)]>>
                      ELSE <<>>
    /\ UNCHANGED <<today, pointer, request, files, granted, writes>>

DayPasses ==
    /\ today < MaxDay /\ today' = today + 1 /\ honoured' = <<>>
    /\ UNCHANGED <<pointer, request, files, granted, writes>>

(* The host adopts a release (ReleaseTrust).                               *)
Adopt(ref) ==
    /\ pointer' = ref /\ honoured' = <<>>
    /\ UNCHANGED <<today, request, files, granted, writes>>

(* list_overrides: the manifests that are shown as active; the default     *)
(* directory, when it is not there, stands for the fallback.               *)
Listed(dir) ==
    LET there(d) == \E p \in DOMAIN files : p.dir = d
        read == IF dir = "default" /\ ~there(dir) THEN "fallback" ELSE dir
    IN {p \in DOMAIN files : p.dir = read /\ p.toml /\ files[p].readable /\ Freshness(files[p]) = "Fresh"}

OverridesNext ==
    \/ \E repo \in Repos, id \in RuleIds : CreateRequest(repo, id)
    \/ Approve
    \/ \E place \in HandPlaces, m \in HandWritten : EditFile(place, m)
    \/ \E place \in DOMAIN files, repo \in Repos, ref \in Refs, rules \in Loaded : UseOverride(place, repo, ref, rules)
    \/ DayPasses
    \/ \E ref \in Refs \ {"latest"} : Adopt(ref)

-----------------------------------------------------------------------------
(* Properties.                                                             *)

(* A hook exempts a rule only on a grant for its own repository and its    *)
(* own exact release, justified no longer ago than the cadence, not from   *)
(* the future, and before its expiry; and the rule is one deny rule of the *)
(* packs it has loaded (overrides.rs, load_verified_override).             *)
ExemptionsAreGranted ==
    honoured # <<>> =>
        LET h == honoured[1]
        IN \A id \in h.ids :
             /\ \E g \in granted :
                  /\ id \in ToSet(g.ids) /\ g.repository = h.repo /\ g.release_ref = h.ref
                  /\ h.ref # "latest"
                  /\ today < g.expires /\ today \in g.justified..(g.justified + Cadence)
             /\ Cardinality({k \in DOMAIN h.rules : h.rules[k].id = id}) = 1
             /\ \E k \in DOMAIN h.rules : h.rules[k].id = id /\ h.rules[k].channel = "deny"

(* No override works in the dark: what a hook honours, the operator's list *)
(* of that directory shows (documented_commands.rs, list_overrides).       *)
HonouredIsListed ==
    honoured # <<>> =>
        honoured[1].place \in Listed(honoured[1].place.dir)

OverridesAreBound == ExemptionsAreGranted /\ HonouredIsListed
=============================================================================
