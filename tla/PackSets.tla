------------------------------- MODULE PackSets -------------------------------
(***************************************************************************)
(* A directory of pack files and the tools that read it: the engine that   *)
(* loads it an entry at a time, in whatever order the listing has; the     *)
(* manifest that release CI makes and later verifies; the catalog; and the *)
(* merged artifact.  Also the search for the directory itself.             *)
(*                                                                         *)
(* A file is its bytes: a pack, which of several texts of it, or a text    *)
(* that is no pack; a name may also belong to a directory.                 *)
(***************************************************************************)
EXTENDS Naturals, SequencesExt

CONSTANTS
    Stem,         \* per *.json name, the name without its extension
    Basename,     \* per spelled keyword, the name of the program
    Calls,        \* commands: a program and what the patterns see of it
    NewFiles,     \* contents that a change may put into the directory
    MaxChanges    \* bound: changes between the manifest and its verification

VARIABLES
    asked,      \* which tool runs, and on what
    dir,        \* the directory: what is behind each name
    unread,     \* names the engine has still to read
    packs,      \* the engine's packs by id
    index,      \* its keyword index: the ids under each program
    failOpen,   \* a load failed
    manifest,   \* the manifest, and the directory it was made from
    changes,
    told        \* what the tool answered

packsVars == <<asked, dir, unread, packs, index, failOpen, manifest, changes, told>>

Json(d) == DOMAIN d \cap DOMAIN Stem
IsFile(d, name) == d[name].kind # "directory"
IsPack(d, name) == d[name].kind = "pack"

(* A name is its stem and the extension.                                   *)
StemsAreNames == IsInjective(Stem)

With(f, key, value) == [x \in DOMAIN f \cup {key} |-> IF x = key THEN value ELSE f[x]]

Ids(patterns) == [k \in DOMAIN patterns |-> patterns[k].id]

-----------------------------------------------------------------------------
(* The engine.                                                             *)

(* pack_dispatch_keywords: what the pack declares, and the programs its    *)
(* rules call deprecated.                                                  *)
DispatchKeywords(pack) == pack.keywords \o pack.deprecated

Programs(pack) == {Basename[k] : k \in ToSet(DispatchKeywords(pack))}

Under(i, program) == IF program \in DOMAIN i THEN i[program] ELSE {}

(* Mutant: the entries of the pack that is replaced stay.                  *)
IndexedBeside(pack) ==
    [p \in DOMAIN index \cup Programs(pack) |->
        Under(index, p) \cup (IF p \in Programs(pack) THEN {pack.id} ELSE {})]

(* load_pack_inner: a pack that replaces another takes its entries along.  *)
(* An id that is pushed twice under a program is also removed twice, so    *)
(* that the ids under a program are a set here.                            *)
Indexed(pack) ==
    LET left == IF pack.id \in DOMAIN packs THEN Programs(packs[pack.id]) ELSE {}
    IN [p \in DOMAIN index \cup Programs(pack) |->
           (Under(index, p) \ (IF p \in left THEN {pack.id} ELSE {}))
           \cup (IF p \in Programs(pack) THEN {pack.id} ELSE {})]

(* load_packs_from_dir, one entry of the listing.  A file that is no pack  *)
(* ends the load; an expression that does not compile only leaves its own  *)
(* pack out.  Either way the engine is no longer a judge.                  *)
ReadEntry ==
    /\ asked.tool \in {"engine", "coverage"} /\ unread # {}
    /\ \E name \in unread :
         IF name \notin DOMAIN Stem
         THEN unread' = unread \ {name} /\ UNCHANGED <<packs, index, failOpen>>
         ELSE IF ~IsPack(dir, name)
         THEN unread' = {} /\ failOpen' = TRUE /\ UNCHANGED <<packs, index>>
         ELSE LET pack == dir[name].pack
              IN /\ unread' = unread \ {name}
                 /\ IF pack.compiles
                    THEN /\ index' = Indexed(pack) /\ packs' = With(packs, pack.id, pack)
                         /\ UNCHANGED failOpen
                    ELSE failOpen' = TRUE /\ UNCHANGED <<packs, index>>
    /\ UNCHANGED <<asked, dir, manifest, changes, told>>

-----------------------------------------------------------------------------
(* A tool that answers says what it found.                                 *)
Refused == [ok |-> FALSE]

(* The manifest (pack_manifest.rs).  Files only; a file is named after its *)
(* pack, or there is no manifest.                                          *)
Indexable(d) == {name \in Json(d) : IsFile(d, name)}

MakeManifest ==
    /\ asked.tool = "manifest" /\ manifest = <<>> /\ told = <<>>
    /\ LET names == Indexable(dir)
       IN IF names # {} /\ (\A n \in names : IsPack(dir, n) /\ dir[n].pack.id = Stem[n])
          THEN /\ manifest' = <<[n \in names |-> dir[n]]>>
               /\ UNCHANGED told
          ELSE told' = <<Refused>> /\ UNCHANGED manifest
    /\ UNCHANGED <<asked, dir, unread, packs, index, failOpen, changes>>

(* Somebody changes the directory before it is verified.                   *)
Change ==
    /\ asked.tool = "manifest" /\ manifest # <<>> /\ told = <<>> /\ changes < MaxChanges
    /\ \E name \in DOMAIN dir \cup DOMAIN Stem :
         \/ \E file \in NewFiles : dir' = With(dir, name, file)
         \/ dir' = [n \in DOMAIN dir \ {name} |-> dir[n]]
    /\ changes' = changes + 1
    /\ UNCHANGED <<asked, unread, packs, index, failOpen, manifest, told>>

(* verify_dir: every indexed file has its hash and size, and no other      *)
(* *.json is there.                                                        *)
Verified(made, d) ==
    LET kept == \A n \in DOMAIN made : n \in DOMAIN d /\ IsFile(d, n) /\ d[n] = made[n]
        added == {n \in Indexable(d) : Stem[n] \notin {Stem[m] : m \in DOMAIN made}}
    IN IF kept /\ added = {} THEN [ok |-> TRUE] ELSE Refused
Verify ==
    /\ asked.tool = "manifest" /\ manifest # <<>> /\ told = <<>>
    /\ told' = <<Verified(manifest[1], dir)>>
    /\ UNCHANGED <<asked, dir, unread, packs, index, failOpen, manifest, changes>>

-----------------------------------------------------------------------------
(* The catalog and the merged artifact.                                    *)

Guarded(set) == UNION {{<<p.id, r.id>> : r \in ToSet(p.guarded)} : p \in set}
Safe(set) == UNION {{<<p.id, s.id>> : s \in ToSet(p.safe)} : p \in set}

(* load_pack_values and catalog::build: every *.json must be a pack, no    *)
(* two of one id, and no two events of one pack may share an id.           *)
Catalog(d) ==
    LET names == Json(d)
        readable == names # {} /\ \A n \in names : IsPack(d, n)
        distinct == \A n, m \in names : d[n].pack.id = d[m].pack.id => n = m
        loaded == {d[n].pack : n \in names}
        single == \A p \in loaded : IsInjective(Ids(p.guarded)) /\ IsInjective(Ids(p.safe))
    IN IF readable /\ distinct /\ single
       THEN [ok |-> TRUE, never |-> Guarded(loaded), always |-> Safe(loaded)]
       ELSE Refused

(* merge_packs, for a set of packs: all asked of every call, or none.      *)
Unconditional(p) == ToSet(p.keywords) = {}
Merged(set) ==
    IF set = {} \/ \E p, q \in set : Unconditional(p) /\ ~Unconditional(q)
    THEN Refused
    ELSE [ok |-> TRUE,
          keywords |-> UNION {ToSet(p.keywords) : p \in set},
          deprecated |-> UNION {ToSet(p.deprecated) : p \in set},
          guarded |-> UNION {ToSet(p.guarded) : p \in set},
          safe |-> UNION {ToSet(p.safe) : p \in set}]

(* load_and_merge_packs_from_dir leaves the unconditional packs out.       *)
MergedDirectory(d) ==
    IF \E n \in Json(d) : ~IsPack(d, n) THEN Refused
    ELSE Merged({d[n].pack : n \in {m \in Json(d) : ~Unconditional(d[m].pack)}})

-----------------------------------------------------------------------------
(* The coverage report and the comparison of two directories.              *)

Readable(d) == {n \in Json(d) : IsPack(d, n)}
Shared(d) == {d[n].pack.id : n \in {m \in Readable(d) : \E k \in Readable(d) \ {m} :
                                      d[k].pack.id = d[m].pack.id}}

(* coverage_report: what can be read is listed, the rest is named.         *)
Coverage(d) ==
    IF Readable(d) = {} \/ Shared(d) # {} THEN Refused
    ELSE [ok |-> TRUE, unreadable |-> Json(d) \ Readable(d),
          rules |-> UNION {{<<d[n].pack.id, r.id, r.enabled>> : r \in ToSet(d[n].pack.guarded)} :
                             n \in Readable(d)}]

(* pack_facts: the file of each id (of two, the later in the listing; here *)
(* any), and the names that tell nothing.                                  *)
Fact(d, id) == d[CHOOSE n \in Readable(d) : d[n].pack.id = id]
PackIds(d) == {d[n].pack.id : n \in Readable(d)}
Faults(d) == {<<"unreadable", n>> : n \in Json(d) \ Readable(d)} \cup {<<"conflict", id>> : id \in Shared(d)}

(* run_pack_drift, of two directories that are there.                      *)
Drift(installed, reference) ==
    Faults(installed) \cup Faults(reference)
    \cup {<<"missing", id>> : id \in PackIds(reference) \ PackIds(installed)}
    \cup {<<"extra", id>> : id \in PackIds(installed) \ PackIds(reference)}
    \cup {<<"changed", id>> : id \in {i \in PackIds(installed) \cap PackIds(reference) :
                                        Fact(installed, i) # Fact(reference, i)}}

(* The exit code is 0 for no drift, 1 for drift, and 2 for no comparison.  *)
Compared(installed, reference) ==
    IF Json(installed) = {} \/ Json(reference) = {} THEN [ok |-> FALSE, exit |-> 2]
    ELSE LET findings == Drift(installed, reference)
         IN [ok |-> findings = {}, exit |-> IF findings = {} THEN 0 ELSE 1, findings |-> findings]

-----------------------------------------------------------------------------
(* The search for packs (resolve_pack_sources).  A place is unset,         *)
(* missing, unreadable, empty of packs, or has packs; the first place that *)
(* is named, or that an installation made, is the one.                     *)

Chosen(places) ==
    IF places.explicit # "unset" THEN "explicit"
    ELSE IF places.variable # "unset" THEN "variable"
    ELSE IF places.override \notin {"unset", "missing"} THEN "override"
    ELSE IF places.override = "unset" /\ places.modular # "missing" THEN "modular"
    ELSE IF places.override = "unset" /\ places.legacy # "missing" THEN "legacy"
    ELSE "repository"

Source(places) ==
    IF places[Chosen(places)] = "packs" THEN [ok |-> TRUE, place |-> Chosen(places)] ELSE Refused

-----------------------------------------------------------------------------

(* A tool answers; the catalog is asked of the directory an engine loaded. *)
Tell ==
    /\ unread = {} /\ told = <<>>
    /\ \/ asked.tool = "engine" /\ told' = <<Catalog(dir)>>
       \/ asked.tool = "coverage" /\ told' = <<Coverage(dir)>>
       \/ asked.tool = "drift" /\ told' = <<Compared(dir, asked.reference)>>
       \/ asked.tool = "merge" /\ told' = <<MergedDirectory(dir)>>
       \/ asked.tool = "merging" /\ told' = <<Merged({dir[n].pack : n \in DOMAIN dir})>>
       \/ asked.tool = "source" /\ told' = <<Source(asked.places)>>
    /\ UNCHANGED <<asked, dir, unread, packs, index, failOpen, manifest, changes>>

PacksInit(questions) ==
    /\ asked \in questions
    /\ dir = asked.dir
    /\ unread = IF asked.tool \in {"engine", "coverage"} THEN DOMAIN asked.dir ELSE {}
    /\ packs = [x \in {} |-> <<>>] /\ index = [x \in {} |-> <<>>] /\ failOpen = FALSE
    /\ manifest = <<>> /\ changes = 0 /\ told = <<>>

PacksNext == ReadEntry \/ MakeManifest \/ Change \/ Verify \/ Tell

-----------------------------------------------------------------------------
(* Properties.                                                             *)

(* After any loads and replacements, in any order, a program leads to the  *)
(* packs that name it and to no other; an engine that still judges has     *)
(* every pack of the directory (engine.rs, load_pack_inner).               *)
IndexIsExact ==
    asked.tool \in {"engine", "coverage"} =>
        /\ \A p \in {Basename[k] : k \in DOMAIN Basename} :
             Under(index, p) = {id \in DOMAIN packs : p \in Programs(packs[id])}
        /\ unread = {} /\ ~failOpen =>
             DOMAIN packs = {dir[n].pack.id : n \in Json(dir)}

(* What the catalog lists is what the hook enforces: an engine that judges *)
(* with the same directory, read in any order, has those rules and safe    *)
(* patterns (catalog.rs, build).                                           *)
CatalogIsEnforced ==
    asked.tool = "engine" /\ told # <<>> /\ told[1].ok /\ ~failOpen =>
        LET loaded == {packs[id] : id \in DOMAIN packs}
        IN told[1].never = Guarded(loaded) /\ told[1].always = Safe(loaded)

(* What coverage lists is what the hook enforces; where it names a file it *)
(* could not read, the hook judges nothing (documented_commands.rs,        *)
(* coverage_report).                                                       *)
CoverageIsHonest ==
    asked.tool = "coverage" /\ told # <<>> /\ told[1].ok =>
        IF failOpen THEN told[1].unreadable # {} \/ \E n \in Readable(dir) : ~dir[n].pack.compiles
        ELSE /\ told[1].unreadable = {}
             /\ told[1].rules = UNION {{<<id, r.id, r.enabled>> : r \in ToSet(packs[id].guarded)} :
                                         id \in DOMAIN packs}

(* No drift means the same packs to the byte, whatever the files are       *)
(* called; and the same packs do not drift if each can be read and has an  *)
(* id of its own (documented_commands.rs, run_pack_drift).                 *)
Comparable(d) ==
    /\ \A n \in Json(d) : IsPack(d, n)
    /\ \A n, m \in Json(d) : d[n].pack.id = d[m].pack.id => n = m
DriftIsExact ==
    asked.tool = "drift" /\ told # <<>> =>
        LET bytes(d) == {d[n] : n \in Json(d)}
            same == bytes(dir) = bytes(asked.reference)
        IN /\ told[1].ok => same
           /\ same /\ Json(dir) # {} => (told[1].ok <=> Comparable(dir) /\ Comparable(asked.reference))

(* A verified directory is the one that was indexed: the same pack files   *)
(* with the same bytes, and no other (pack_manifest.rs, verify_dir).       *)
ManifestIsExact ==
    asked.tool = "manifest" /\ manifest # <<>> /\ told # <<>> =>
        (told[1].ok <=> [n \in Indexable(dir) |-> dir[n]] = manifest[1])

Asks(p, call) == p.keywords = {} \/ call.program \in {Basename[k] : k \in p.keywords \cup p.deprecated}
Denies(p, call) == \E r \in p.guarded : r.enabled /\ call.text \in r.matches
Excuses(p, call) == \E s \in p.safe : call.text \in s.matches
AsSets(p) == [keywords |-> ToSet(p.keywords), deprecated |-> ToSet(p.deprecated),
              guarded |-> ToSet(p.guarded), safe |-> ToSet(p.safe)]

(* A merged artifact denies what its packs deny, unless a safe pattern of  *)
(* one of them excuses it; an unconditional pack is never merged into one  *)
(* that is asked of some programs only (rule_pack.rs, merge_packs).        *)
MergeKeepsDenials ==
    asked.tool \in {"merge", "merging"} /\ told # <<>> /\ told[1].ok =>
        LET read == {AsSets(dir[n].pack) : n \in Json(dir)}
            sources == IF asked.tool = "merging" THEN {AsSets(dir[n].pack) : n \in DOMAIN dir}
                       ELSE {p \in read : p.keywords # {}}
        IN \A call \in Calls : \A p \in sources :
             (/\ Asks(p, call) /\ Denies(p, call)
              /\ ~\E q \in sources : Excuses(q, call)) =>
                 (Asks(told[1], call) /\ Denies(told[1], call) /\ ~Excuses(told[1], call))

(* Packs come from a place that no better one hides: a better place that   *)
(* is named and not usable, or is there and damaged, is an error and never *)
(* a reason to look further (documented_commands.rs, resolve_pack_sources).*)
SourceIsMeant ==
    asked.tool = "source" /\ told # <<>> /\ told[1].ok =>
        LET places == asked.places
            rank == [explicit |-> 1, variable |-> 2, override |-> 3, modular |-> 4, legacy |-> 5,
                     repository |-> 6]
            better == {p \in DOMAIN rank : rank[p] < rank[told[1].place]}
        IN /\ places[told[1].place] = "packs"
           /\ \A p \in better \cap {"explicit", "variable"} : places[p] = "unset"
           /\ "override" \in better => places.override \in {"unset", "missing"}
           /\ \A p \in better \cap {"modular", "legacy"} :
                places[p] = "missing" \/ places.override = "missing"

PackToolsAgree ==
    /\ IndexIsExact /\ CatalogIsEnforced /\ ManifestIsExact
    /\ MergeKeepsDenials /\ SourceIsMeant /\ CoverageIsHonest /\ DriftIsExact
=============================================================================
