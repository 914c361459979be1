----------------------------- MODULE Advisories -----------------------------
(***************************************************************************)
(* What the updaters' parsers make of the feeds: OVAL documents (Red Hat,  *)
(* Oracle, SUSE, Photon, Ubuntu), the Debian tracker, Alpine's secdb,      *)
(* Amazon's updateinfo, pyup.io's database, the Red Hat container map and  *)
(* OSV.  A vulnerability is a record that the operators of Matchers read;  *)
(* text that the matchers never look at is left out.                       *)
(***************************************************************************)
EXTENDS Distros

Vers == INSTANCE Versions

Vulnerability0 ==
  [id |-> "", pkg |-> "", kind |-> "binary", module |-> "", fixed |-> NoVersion, version |-> NoVersion,
   arch |-> {}, archOp |-> "", dist |-> None, repo |-> "", repoKey |-> "", repoURI |-> "", severity |-> "Unknown",
   bounds |-> None, range |-> None, spec |-> {}]

-----------------------------------------------------------------------------
(* The severities, as each source spells them; Red Hat's and Debian's are  *)
(* put in lower case first.                                                *)
ToLower(s) == CASE s = "Important" -> "important" [] s = "Low" -> "low" [] OTHER -> s
Normalized(table, s) == IF s \in DOMAIN table THEN table[s] ELSE "Unknown"

AwsSeverity(s) == Normalized([low |-> "Low", medium |-> "Medium", important |-> "High", critical |-> "Critical"], s)
SuseSeverity(s) == Normalized(
  [None |-> "Unknown", Low |-> "Low", Moderate |-> "Medium", Important |-> "High", Critical |-> "Critical"], s)
PhotonSeverity(s) == Normalized([Low |-> "Low", Moderate |-> "Medium", Important |-> "High", Critical |-> "Critical"], s)
OracleSeverity(s) == Normalized([LOW |-> "Low", MODERATE |-> "Medium", IMPORTANT |-> "High", CRITICAL |-> "Critical"], s)
UbuntuSeverity(s) == Normalized(
  [Negligible |-> "Negligible", Low |-> "Low", Medium |-> "Medium", High |-> "High", Critical |-> "Critical"], s)
RhelSeverity(s) == Normalized(
  [none |-> "Unknown", low |-> "Low", moderate |-> "Medium", important |-> "High", critical |-> "Critical"], ToLower(s))
DebianSeverity(s) == Normalized(
  [unimportant |-> "Low", low |-> "Medium", medium |-> "High", high |-> "Critical"], ToLower(s))

-----------------------------------------------------------------------------
(* OVAL.  A document has definitions, and tests, objects, states and        *)
(* variables by reference; the criteria of a definition are a tree, given   *)
(* by node, of criterions: a test's reference and the module that the       *)
(* comment says is enabled, or "".                                          *)

(* Mutant: only the first sub-criteria is walked. *)
RECURSIVE walkFirst(_, _)
walkFirst(tree, node) ==
  (IF tree[node].subs = <<>> THEN <<>> ELSE walkFirst(tree, tree[node].subs[1])) \o tree[node].criterions

RECURSIVE walkCriterion(_, _)
walkCriterion(tree, node) ==
  FlattenSeq([i \in DOMAIN tree[node].subs |-> walkCriterion(tree, tree[node].subs[i])]) \o tree[node].criterions

getEnabledModules(cris) ==
  LET named == {c.module : c \in ToSet(cris)} \ {""} IN IF named = {} THEN {""} ELSE named

mapArchOp(op) == IF op \in {"equals", "not equals", "pattern match"} THEN op ELSE ""

(* The package test a criterion stands for: its object and its state, if    *)
(* any, both of the packager's kind, the state with a version.  Anything    *)
(* else is passed over.                                                     *)
Resolves(root, kind, c) ==
  /\ c.test \in DOMAIN root.tests /\ root.tests[c.test].kind = kind
  /\ LET t == root.tests[c.test]
     IN  /\ t.object \in DOMAIN root.objects /\ root.objects[t.object].kind = kind
         /\ t.state # "" => /\ t.state \in DOMAIN root.states /\ root.states[t.state].kind = kind
                            /\ root.states[t.state].evr # NoVersion

WithState(v, root, c) ==
  LET ref == root.tests[c.test].state
      s == root.states[ref]
  IN  IF ref = "" THEN v ELSE [v EXCEPT !.fixed = s.evr, !.arch = s.arch, !.archOp = mapArchOp(s.archOp)]

(* `protoVulns' gives the prototypes made of each definition, none if that  *)
(* fails.                                                                   *)
RPMDefsToVulns(root, protoVulns) ==
  UNION {LET cris == walkCriterion(root.defs[i].tree, "top")
             pkg(v, c, mod) == [WithState(v, root, c) EXCEPT
               !.pkg = root.objects[root.tests[c.test].object].name, !.module = mod]
         IN  {pkg(v, c, mod) : v \in protoVulns[i], mod \in getEnabledModules(cris),
                               c \in {x \in ToSet(cris) : Resolves(root, "rpm", x)}}
         : i \in DOMAIN root.defs}

(* `expansion' gives the packages that an object's name stands for.         *)
(* Versions that are no Debian versions are passed over.  A state with an   *)
(* architecture would be written to a package that is not there yet.        *)
DpkgDefsToVulns(root, protoVulns, expansion) ==
  UNION {LET cris == {c \in ToSet(walkCriterion(root.defs[i].tree, "top")) : Resolves(root, "dpkg", c)}
             made(c) == {[WithState(v, root, c) EXCEPT !.pkg = n] :
                           v \in protoVulns[i], n \in expansion[root.tests[c.test].object]}
         IN  UNION {{v \in made(c) : v.fixed # BadVersion} : c \in cris}
         : i \in DOMAIN root.defs}

DpkgPanics(root) ==
  \E def \in ToSet(root.defs) : \E c \in ToSet(walkCriterion(def.tree, "top")) :
    Resolves(root, "dpkg", c) /\ root.tests[c.test].state # "" /\ root.states[root.tests[c.test].state].arch # {}

Proto(def, severity) == [Vulnerability0 EXCEPT !.id = def.title, !.severity = severity]

(* rhel: a vulnerability for each product; a definition of another kind     *)
(* than an advisory, or with a product that is no CPE, makes none.          *)
isSkippableDefinitionType(t) == t \in {"unaffected", "none", "cve"}

RhelParse(root, rel) ==
  LET proto(def) ==
        IF def.type = "" \/ isSkippableDefinitionType(def.type) \/ "bad" \in def.cpes THEN {}
        ELSE {[Proto(def, RhelSeverity(def.severity)) EXCEPT !.repo = c, !.repoKey = "rhel-cpe-repository",
                                                             !.dist = RhelDist(rel)] : c \in def.cpes \ {""}}
  IN  RPMDefsToVulns(root, [i \in DOMAIN root.defs |-> proto(root.defs[i])])

OracleParse(root) ==
  LET proto(def) == {[Proto(def, OracleSeverity(def.severity)) EXCEPT !.dist = OracleDist[p]] :
                       p \in def.platforms \cap DOMAIN OracleDist}
  IN  RPMDefsToVulns(root, [i \in DOMAIN root.defs |-> proto(root.defs[i])])

SuseParse(root, rel) ==
  LET proto(def) == {[Proto(def, SuseSeverity(def.severity)) EXCEPT !.dist = SuseDist[rel]]}
  IN  RPMDefsToVulns(root, [i \in DOMAIN root.defs |-> proto(root.defs[i])])

PhotonParse(root, rel) ==
  LET proto(def) == {[Proto(def, PhotonSeverity(def.severity)) EXCEPT !.dist = PhotonDist[rel]]}
  IN  RPMDefsToVulns(root, [i \in DOMAIN root.defs |-> proto(root.defs[i])])

UbuntuParse(root, rel) ==
  LET proto(def) == {[Proto(def, UbuntuSeverity(def.severity)) EXCEPT !.dist = UbuntuDist(rel[1], rel[2])]}
      expand(name) == CASE name.ref = "" -> {name.body}
                        [] name.ref \in DOMAIN root.variables -> root.variables[name.ref]
                        [] OTHER -> {}
  IN  DpkgDefsToVulns(root, [i \in DOMAIN root.defs |-> proto(root.defs[i])],
                      [o \in {x \in DOMAIN root.objects : root.objects[x].kind = "dpkg"} |-> expand(root.objects[o].name)])

-----------------------------------------------------------------------------
(* debian: entries are source packages, each with its problems, each with   *)
(* what is known of it in the releases; `sources' gives the binaries of a   *)
(* source package in a release.                                             *)
DebianParse(feed, sources) ==
  UNION {{[Vulnerability0 EXCEPT !.id = e.id, !.pkg = bin, !.fixed = e.fixed, !.dist = DebianDist(r[2], r[1]),
                                 !.severity = DebianSeverity(e.urgency)] :
            bin \in IF <<r[2], e.src>> \in DOMAIN sources THEN sources[<<r[2], e.src>>] ELSE {}}
         : <<e, r>> \in {<<x, y>> \in feed \X DebianReleases : x.release = y[2]}}

(* alpine: secfixes gives the problems fixed in a version of a source package. *)
AlpineParse(secdb, rel) ==
  {[Vulnerability0 EXCEPT !.id = f.id, !.pkg = f.pkg, !.kind = "source", !.fixed = f.fixedIn, !.dist = AlpineDist(rel)] :
     f \in secdb}

(* aws: an update without a valid date ends the parse with an error. *)
AwsParse(updates, rel) ==
  IF \E u \in updates : ~u.dated THEN Error
  ELSE UNION {{[Vulnerability0 EXCEPT !.id = u.id, !.pkg = p.name, !.fixed = p.version, !.arch = {p.arch},
                                      !.archOp = "equals", !.dist = AwsDist[rel],
                                      !.severity = AwsSeverity(u.severity)] : p \in u.packages} : u \in updates}

(* pyupio: the specifier is kept as it is; one that does not parse is skipped. *)
PyupParse(db) ==
  {[Vulnerability0 EXCEPT !.id = e.id, !.pkg = e.name, !.spec = e.spec, !.repo = "pypi", !.repoURI = "https://pypi.org/simple"] :
     e \in {x \in db : \A c \in x.spec : c[2] # BadVersion}}

-----------------------------------------------------------------------------
(* rhcc: releases of a container, in the order of the document.  Of two in  *)
(* one minor series the later one in the document stays.  The first series  *)
(* takes in all that came before it.                                        *)
RhccParse(releases) ==
  LET tag(i) == Vers!RhcTag(releases[i].tag)
      good == {i \in DOMAIN releases : releases[i].container}
      kept(name) == {i \in good : releases[i].pkg = name /\
                       \A j \in good : (j > i /\ releases[j].pkg = name) => Vers!MinorStart(tag(j)) # Vers!MinorStart(tag(i))}
      minors(name) == Vers!RhcSort({Vers!MinorStart(tag(i)) : i \in kept(name)})
      of(name, k) == CHOOSE i \in kept(name) : Vers!MinorStart(tag(i)) = minors(name)[k]
      start(name, k) == IF k = 1 THEN [original |-> [ver |-> <<>>, rev |-> <<>>], major |-> 0, minor |-> 0] ELSE minors(name)[k]
  IN  UNION {{[Vulnerability0 EXCEPT !.id = releases[of(name, k)].advisory, !.pkg = name,
                 !.repo = "Red Hat Container Catalog", !.fixed = tag(of(name, k)),
                 !.severity = RhelSeverity(releases[of(name, k)].severity),
                 !.range = [lower |-> Vers!RhcVersion(start(name, k), TRUE), upper |-> Vers!RhcVersion(tag(of(name, k)), FALSE)]]
               : k \in DOMAIN minors(name)} : name \in {releases[i].pkg : i \in good}}

(* The range the database looks at, then the matcher's own comparison. *)
RhccAffected(v, tag) ==
  /\ Vers!RangeContains(v.range, Vers!RhcVersion(Vers!RhcTag(tag), TRUE))
  /\ Vers!RhcCompare(Vers!RhcTag(tag), v.fixed) = -1

-----------------------------------------------------------------------------
(* osv: Insert, for one affected package of an advisory.  `slot' is what    *)
(* the pointer points to: after RemoveVulnerability it is no longer in the  *)
(* list, and a second removal runs off the list's front.                    *)
GitOnly(a) == a.affected # <<>> /\ \A i \in DOMAIN a.affected : \A r \in ToSet(a.affected[i].ranges) : r.type = "GIT"

Slot0 == [v |-> Vulnerability0, listed |-> TRUE, panic |-> FALSE]
Infinite == 65535

(* The bounds that the events of a kind give; "introduced 0" gives none. *)
Bounds(r, kind) == SelectSeq(r.events, LAMBDA e : e.kind = kind /\ <<kind, e.version>> # <<"introduced", 0>>)
LastBound(r, kind, none) == IF Bounds(r, kind) = <<>> THEN none ELSE Last(Bounds(r, kind)).version
FirstBound(r, kind) == IF Bounds(r, kind) = <<>> THEN NoVersion ELSE Bounds(r, kind)[1].version

(* Maven's bounds are all kept, and the matcher reads the first of each. *)
MavenBounds(v, r) ==
  IF \A kind \in {"introduced", "fixed", "last_affected"} : Bounds(r, kind) = <<>> THEN v
  ELSE [v EXCEPT !.bounds = [introduced |-> FirstBound(r, "introduced"), fixed |-> FirstBound(r, "fixed"),
                             lastAffected |-> FirstBound(r, "last_affected")]]

InsertRange(slot, af, name, r) ==
  LET lower == LastBound(r, "introduced", 0)
      upper == LastBound(r, "fixed", Infinite)
      v1 == CASE r.type = "SEMVER" -> [slot.v EXCEPT !.range = [lower |-> lower, upper |-> upper]]
              [] r.type = "ECOSYSTEM" /\ af.ecosystem = "Maven" -> MavenBounds(slot.v, r)
              [] r.type = "ECOSYSTEM" -> [slot.v EXCEPT !.fixed = LastBound(r, "fixed", @)]
              [] OTHER -> slot.v
      pkg == IF af.ecosystem = "Maven" THEN af.name ELSE af.purl
  IN  CASE r.type = "GIT" \/ slot.panic -> slot
        [] v1.range # None /\ v1.range.lower > v1.range.upper ->
             [slot EXCEPT !.v = Vulnerability0, !.listed = FALSE, !.panic = ~slot.listed]
        [] OTHER -> [slot EXCEPT !.v = [v1 EXCEPT !.pkg = pkg, !.repo = name,
                                        !.kind = IF af.ecosystem = "Maven" THEN "binary" ELSE ""]]

Insert(a, name) ==
  IF GitOnly(a) \/ a.withdrawn THEN <<>>
  ELSE [i \in DOMAIN a.affected |->
         FoldLeft(LAMBDA slot, r : InsertRange(slot, a.affected[i], name, r),
                  [Slot0 EXCEPT !.v.id = a.id], a.affected[i].ranges)]

OsvParse(advisories, name) ==
  LET slots(a) == ToSet(Insert(a, name))
  IN  IF \E a \in advisories : \E s \in slots(a) : s.panic THEN Error
      ELSE UNION {{s.v : s \in {x \in slots(a) : x.listed}} : a \in advisories}
=============================================================================
