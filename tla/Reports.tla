------------------------------- MODULE Reports -------------------------------
(***************************************************************************)
(* What a report rests on.  A question is a call of Scan, whose goroutines *)
(* Match describes, or an input to one of the algorithms behind it, whose  *)
(* answer is compared with a definition of what it should be.              *)
(***************************************************************************)
EXTENDS Match, SequencesExt

CONSTANTS
  AlpineReleases, DebianReleases, UbuntuReleases,   \* see Distros
  Layers,       \* layers and the release each is of
  Databases,    \* images with one package database
  FileImages,   \* images with packages that are files, and whiteouts
  Documents,    \* OVAL documents with an installed package
  Publications, \* facts, the feed of a release that says them, and a package in a layer
  Containers,   \* lists of releases of a container, with an installed tag
  Intervals,    \* OSV advisories with one interval, with an installed version
  Pep440Pairs,  \* pairs of PEP 440 versions
  MavenPairs,   \* pairs of Maven versions
  Stored,       \* sequences of what scanners found, as it is stored
  Images,       \* images of files, with what is installed in them
  BatchSize     \* see Artifacts

VARIABLE question

A == INSTANCE Advisories
C == INSTANCE Coalescers
V == INSTANCE Versions
S == INSTANCE Artifacts
F == INSTANCE Scanners

AskInit ==
  /\ Init
  /\ \/ question = <<"scan">>
     \/ /\ enriched /\ input = CHOOSE i \in Inputs : TRUE
        /\ \/ \E l \in Layers : question = <<"layer", l>>
           \/ \E i \in Databases : question = <<"database", i>>
           \/ \E i \in FileImages : question = <<"files", i>>
           \/ \E d \in Documents : question = <<"oval", d>>
           \/ \E p \in Publications : question = <<"feed", p>>
           \/ \E c \in Containers : question = <<"container", c>>
           \/ \E i \in Intervals : question = <<"interval", i>>
           \/ \E p \in Pep440Pairs : question = <<"pep440", p>>
           \/ \E p \in MavenPairs : question = <<"maven", p>>
           \/ \E s \in Stored : question = <<"stored", s>>
           \/ \E i \in Images : question = <<"image", i>>

AskNext == question[1] = "scan" /\ Next /\ UNCHANGED question

Reports ==
  /\ AskInit /\ [][AskNext]_<<vars, question>>
  /\ WF_<<vars, question>>(question[1] = "scan" /\ ((\E w \in DOMAIN worker : Worker(w)) \/ Main) /\ UNCHANGED question)

Asked(kind) == question[1] = kind
q == question[2]

(* Match.ScanReturns, for the questions that are calls of Scan. *)
Returns == Asked("scan") => ScanReturns

-----------------------------------------------------------------------------
(* The distribution scanners, the updaters and the matchers' Query make    *)
(* their distributions apart from each other; the columns must agree to    *)
(* the letter (alpine/matcher.go:38 and the others).  A layer of a release *)
(* that an updater covers gets the vulnerabilities of exactly that         *)
(* updater, though every scanner looks at every layer.                     *)
Feeding(l) ==
  UNION {UNION {{<<fam, u>> : u \in A!FedBy(fam, d)} : d \in UNION {A!Scan(s, l) : s \in A!Families \cup {"rhel"}}}
         : fam \in A!Families}

OwnDistribution == Asked("layer") => Feeding(q.layer) = q.own

-----------------------------------------------------------------------------
(* linux.Coalescer and rhel.Coalescer were written apart for one promise   *)
(* (indexer/coalescer.go:20): with one package database, rewritten whole   *)
(* by every layer that touches it, both report the packages of its last    *)
(* version, each with the layer that brought it in and that layer's        *)
(* distribution.                                                           *)
Where(ir) == [id \in DOMAIN ir.envs |-> {<<e.layer, e.dist>> : e \in ir.envs[id]}]

LastDatabase(img) ==
  LET full == {i \in DOMAIN img : img[i].pkgs # <<>>}
  IN  IF full = {} THEN {} ELSE C!Ids(img[CHOOSE i \in full : \A j \in full : j <= i].pkgs)

CoalescersAgree ==
  Asked("database") =>
    LET l == C!LinuxCoalesce(q) r == C!RhelCoalesce(q)
    IN  DOMAIN l.pkgs = LastDatabase(q) /\ Where(l) = Where(r)

(* whiteout.Resolve: with at most one whiteout in a layer, the packages    *)
(* that remain are those whose file is there when the layers are applied   *)
(* in order, each layer's whiteouts to what lies below it.  Not so for an  *)
(* opaque whiteout in the root, which should hide all that lies below and  *)
(* hides nothing (resolver.go:70: filepath.Dir gives ".").                 *)
Hidden(f, w) ==
  IF w.name = C!Opaque THEN Len(f) > Len(w.dir) /\ SubSeq(f, 1, Len(w.dir)) = w.dir
  ELSE Len(f) > Len(w.dir) /\ SubSeq(f, 1, Len(w.dir) + 1) = Append(w.dir, w.name)

FinalFiles(img) ==
  FoldLeft(LAMBDA fs, l : {f \in fs : ~\E w \in ToSet(l.files) : Hidden(f, w)} \cup {p.path : p \in ToSet(l.pkgs)}, {}, img)

Resolved(img) == C!Resolve(img, C!MergeSR(C!PythonCoalesce(img), C!WhiteoutCoalesce(img)))

Obeyed(img) ==
  [i \in DOMAIN img |-> [img[i] EXCEPT !.files = SelectSeq(@, LAMBDA w : w # [dir |-> <<>>, name |-> C!Opaque])]]

FinalImage ==
  Asked("files") =>
    {p.path : p \in {Resolved(q).pkgs[id] : id \in DOMAIN Resolved(q).pkgs}} = FinalFiles(Obeyed(q))

-----------------------------------------------------------------------------
(* From the OVAL document to the answer, through RPMDefsToVulns, Query and *)
(* Vulnerable: an installed package is vulnerable exactly if some          *)
(* definition for its product has, at any depth, a package test with a     *)
(* later version for its name and its architecture, and enables its module *)
(* or none; whatever the other criterions, and whatever does not resolve.  *)
(* A product that is no CPE takes its whole definition with it.            *)
Reached(tree) ==
  LET down(ns) == ns \cup UNION {ToSet(tree[n].subs) : n \in ns}
  IN  UNION {ToSet(tree[n].criterions) : n \in down(down({"top"}))}

PackageTest(root, c, p) ==
  /\ c.test \in DOMAIN root.tests /\ root.tests[c.test].kind = "rpm"
  /\ LET t == root.tests[c.test]
     IN  /\ t.object \in DOMAIN root.objects /\ root.objects[t.object] = [kind |-> "rpm", name |-> p.name]
         /\ \/ t.state = ""
            \/ /\ t.state \in DOMAIN root.states
               /\ LET s == root.states[t.state]
                  IN  s.kind = "rpm" /\ s.evr > p.version /\ (s.arch = {} \/ p.arch \in s.arch)

Affected(root, p) ==
  \E i \in DOMAIN root.defs : LET def == root.defs[i]
    IN  /\ def.type = "rhsa" /\ "cpe" \in def.cpes /\ "bad" \notin def.cpes
        /\ \E c \in Reached(def.tree) : PackageTest(root, c, p)
        /\ \/ p.module = "" /\ \A c \in Reached(def.tree) : c.module = ""
           \/ p.module # "" /\ \E c \in Reached(def.tree) : c.module = p.module

AdvisoryApplied ==
  Asked("oval") =>
    LET r == [pkg |-> q.pkg, dist |-> None, repo |-> [name |-> "cpe", key |-> "rhel-cpe-repository"]]
    IN  Affected(q.root, q.pkg) <=>
        \E v \in A!RhelParse(q.root, <<"8">>) :
          Filter("rhel", r) /\ BuildGetQuery(r, Query("rhel"), DbFilter("rhel"), v) /\ Vulnerable("rhel", r, v) = "yes"

(* From what a source knows to the answer, through each family's feed      *)
(* format, Parse, distribution scanner, Filter, Query and Vulnerable: a    *)
(* package is vulnerable exactly if the source has a fact about it for     *)
(* the release of its layer, with no fix or a later one.  The sources      *)
(* speak of source packages in alpine and debian, of binaries elsewhere.   *)
(* A fact without a fix is one nobody hears of in oracle, photon and suse, *)
(* whose matchers take "" for the last vulnerable version; alpine and aws  *)
(* publish none.                                                           *)
Published(p) ==
  CASE p.fam = "alpine" -> A!AlpineParse(p.doc, p.rel)
    [] p.fam = "aws" -> A!AwsParse(p.doc, p.rel)
    [] p.fam = "debian" -> A!DebianParse(p.doc, p.sources)
    [] p.fam = "oracle" -> A!OracleParse(p.doc)
    [] p.fam = "photon" -> A!PhotonParse(p.doc, p.rel)
    [] p.fam = "suse" -> A!SuseParse(p.doc, p.rel)
    [] p.fam = "ubuntu" -> A!UbuntuParse(p.doc, p.rel)
    [] p.fam = "python" -> A!PyupParse(p.doc)

Dists(p) == IF p.fam = "python" THEN {None} ELSE A!Scan(p.fam, p.layer)

Reported(p) ==
  \E d \in Dists(p) : \E v \in Published(p) :
    LET r == [pkg |-> p.pkg, dist |-> d, repo |-> None]
    IN  Filter(p.fam, r) /\ BuildGetQuery(r, Query(p.fam), DbFilter(p.fam), v) /\ Vulnerable(p.fam, r, v) = "yes"

Known(p) ==
  \E fact \in p.facts :
    /\ fact.name = IF p.fam \in {"alpine", "debian"} THEN p.pkg.source.name ELSE p.pkg.name
    /\ IF fact.fixed = NoVersion THEN p.fam \notin {"oracle", "photon", "suse"} ELSE p.pkg.version < fact.fixed

FeedApplied == Asked("feed") => (Reported(q) <=> q.sameRelease /\ Known(q))

(* rhcc's Parse and matcher: with one fix in each minor series, a          *)
(* container is vulnerable exactly if it is older than the fix of its own  *)
(* series, or than the very first one (rhcc/updater.go:269 "The first      *)
(* minor version range should match all previous versions").               *)
FirstFix ==
  Asked("container") =>
    LET t == V!RhcTag(q.tag)
        fixes == {V!RhcTag(q.releases[i].tag) : i \in DOMAIN q.releases}
        older(f) == V!RhcCompare(t, f) = -1
    IN  (\E v \in A!RhccParse(q.releases) : A!RhccAffected(v, q.tag)) <=>
        \/ \E f \in fixes : V!MinorStart(f) = V!MinorStart(t) /\ older(f)
        \/ \A f \in fixes : older(f)

(* osv's Insert and the Java matcher, by way of the encoded bounds: a      *)
(* version is vulnerable exactly if it lies in the advisory's interval,    *)
(* whatever Git ranges come with it.                                       *)
MavenInterval ==
  Asked("interval") =>
    LET vs == A!OsvParse({q.advisory}, "maven")
    IN  (\E v \in vs : JavaVulnerable([version |-> q.version], v) = "yes") <=> q.inside

(* Every source's advisories reach exactly the packages they speak of: see *)
(* the five above.                                                         *)
AdvisoriesApplied == OwnDistribution /\ AdvisoryApplied /\ FeedApplied /\ FirstFix /\ MavenInterval

-----------------------------------------------------------------------------
(* pep440's integers order versions as PEP 440 does: a release's dev       *)
(* releases, then its pre-releases, the release, its post-releases, each   *)
(* with dev releases before it.  Numbers of dev and post releases start at *)
(* 1, a pre- or post-release has one dev release (later ones come out      *)
(* earlier), and there are at most five parts.  "~=" keeps to its series.  *)
Part(s, i) == IF i <= Len(s) THEN s[i] ELSE 0

(* Where a version stands in its release, most significant first. *)
Standing(v) ==
  LET pre == CASE v.pre = "a" -> 1 [] v.pre = "b" -> 2 [] v.pre = "rc" -> 3 [] v.dev # 0 /\ v.post = 0 -> 0 [] OTHER -> 4
  IN  <<v.epoch, Part(v.release, 1), Part(v.release, 2), Part(v.release, 3), pre, v.preN, v.post,
        IF v.dev = 0 THEN 1 ELSE 0, v.dev>>

Before(s, t) == \E i \in DOMAIN s : s[i] < t[i] /\ \A j \in 1..(i - 1) : s[j] = t[j]

Pep440Order ==
  Asked("pep440") =>
    LET a == V!ParsePep440(q[1]) b == V!ParsePep440(q[2])
    IN  /\ (V!Pep440Compare(a, b) = -1) <=> Before(Standing(a), Standing(b))
        /\ V!Pep440Compare(a, b) = -V!Pep440Compare(b, a)
        /\ (Len(a.release) > 1 /\ Len(b.release) > 1 /\ b.pre = "" /\ b.dev = 0) =>
             (V!RangeMatch({<<"~=", a>>}, b) <=>
                /\ ~Before(Standing(b), Standing(a)) /\ a.epoch = b.epoch
                /\ \A i \in 1..(Len(a.release) - 1) : Part(b.release, i) = a.release[i])

(* mavenVersion.Compare on versions of the usual shape, numbers and then a *)
(* qualifier: the numbers decide, missing ones being 0, then the           *)
(* qualifier, with "final" and the like equal to none; swapping two        *)
(* versions of any shape swaps the answer.                                 *)
Usual(s) == \A i \in DOMAIN s : s[i].kind = IF i % 2 = 1 THEN (IF i > 1 /\ s[i - 1].kind = "dash" THEN "word" ELSE "num")
                                            ELSE (IF i = Len(s) - 1 THEN s[i].kind ELSE "dot")
Usually(s) == Usual(s) /\ Len(s) % 2 = 1 /\ (Len(s) > 1 => s[Len(s) - 1].kind \in {"dot", "dash"})

Numbers(s) == LET ns == SelectSeq(s, LAMBDA t : t.kind = "num") IN <<ns[1].n, Part([i \in DOMAIN ns |-> ns[i].n], 2)>>
Qualifier(s) == IF Last(s).kind = "word" THEN V!ordString(Last(s).s) ELSE 5

MavenOrder ==
  Asked("maven") =>
    LET cmp == V!MavenCompare(q[1], q[2])
    IN  /\ cmp = -V!MavenCompare(q[2], q[1])
        /\ (Usually(q[1]) /\ Usually(q[2])) =>
             (cmp = -1 <=> Before(Append(Numbers(q[1]), Qualifier(q[1])), Append(Numbers(q[2]), Qualifier(q[2]))))

(* Both version schemes order as their specifications say: see above.      *)
VersionOrder == Pep440Order /\ MavenOrder

-----------------------------------------------------------------------------
(* The Index... and ...ByLayer methods of the store: for any layer and any *)
(* scanners, what comes back is what those scanners found in that layer,   *)
(* whatever else is stored, in whatever order and batches.  A package      *)
(* without a name does not come back, and the normalized version is the    *)
(* one stored first for the package's name, kind, version, module and      *)
(* architecture: it is right only where the scanners agree on it.          *)
Store(calls) ==
  LET put(db, c) ==
        S!IndexFiles(S!IndexRepositories(S!IndexDistributions(S!IndexPackages(
          db, c.pkgs, c.layer, c.scnr), c.dists, c.layer, c.scnr), c.repos, c.layer, c.scnr), c.files, c.layer, c.scnr)
  IN  FoldLeft(put, S!RegisterScanners(S!Store0, {calls[i].scnr : i \in DOMAIN calls}), calls)

Columns(p) == <<S!PackageKey(p), S!PackageKey(S!SourceOf(p)), p.db, p.hint>>

StoredReturns ==
  Asked("stored") =>
    LET db == Store(q)
        stored(l, ss, field(_)) == UNION {ToSet(field(q[i])) : i \in {j \in DOMAIN q : q[j].layer = l /\ q[j].scnr \in ss}}
        pkgs(c) == c.pkgs dists(c) == c.dists repos(c) == c.repos files(c) == c.files
        agree(p) == \A i \in DOMAIN q : \A o \in ToSet(q[i].pkgs) : S!PackageKey(o) = S!PackageKey(p) => o.kindOfVersion = p.kindOfVersion
    IN  \A l \in {q[i].layer : i \in DOMAIN q}, ss \in SUBSET {q[i].scnr : i \in DOMAIN q} :
          LET found == stored(l, ss, pkgs) back == S!PackagesByLayer(db, l, ss)
          IN  /\ {Columns(p) : p \in back} = {Columns(p) : p \in {x \in found : x.name # ""}}
              /\ \A p \in found, b \in back : (Columns(p) = Columns(b) /\ agree(p)) => b.kindOfVersion = p.kindOfVersion
              /\ S!DistributionsByLayer(db, l, ss) = stored(l, ss, dists)
              /\ {S!RepoKey(r) : r \in S!RepositoriesByLayer(db, l, ss)} = {S!RepoKey(r) : r \in stored(l, ss, repos)}
              /\ S!FilesByLayer(db, l, ss) = stored(l, ss, files)

(* Libindex.AffectedManifests (libindex/libindex.go:244) and Match are two *)
(* ways to one answer: a manifest is listed for a vulnerability exactly if *)
(* its own report would have it.  The first asks no module, so it lists    *)
(* more where the modules differ, and knows the matchers of Red Hat,       *)
(* Amazon, Debian, Python and Ubuntu only (alpine's, too, but its scanner  *)
(* and its updater make different distributions of one release).           *)
Back(db, layer) ==
  LET dists == S!DistributionsByLayer(db, layer, {"s"})
  IN  [hash |-> layer, files |-> <<>>, repos |-> S!RepositoriesByLayer(db, layer, {"s"}),
       dist |-> IF dists = {} THEN C!NoDist ELSE <<CHOOSE d \in dists : TRUE>>,
       pkgs |-> S!Listed({p @@ [key |-> <<p.name, p.version>>, rhcc |-> p.hint = "rhcc"] : p \in S!PackagesByLayer(db, layer, {"s"})})]

Coalesced(fam, img) ==
  LET c == CASE fam = "python" -> C!PythonCoalesce(img) [] fam = "rhel" -> C!RhelCoalesce(img) [] OTHER -> C!LinuxCoalesce(img)
  IN  [pkgs |-> {c.pkgs[id] : id \in DOMAIN c.pkgs}, envs |-> c.envs, dists |-> [d \in c.dists |-> d[1]],
       repos |-> [id \in {r.id : r \in c.repos} |-> CHOOSE r \in c.repos : r.id = id]]

(* The store once the reports of a family's images, of one layer each, are *)
(* indexed too.                                                            *)
Shelved(db, layers, reports) ==
  FoldLeft(LAMBDA s, i : S!IndexManifest(s, reports[i], layers[i].layer), db, [i \in DOMAIN layers |-> i])

InReport(fam, vs, ir, v) ==
  \E res \in MatchStore(fam, vs, IndexRecords(ir)) : \E id \in DOMAIN res : v \in res[id]

Found(p) ==
  LET dists == A!Scan(p.fam, p.layer)
      layer(name, pkg, ds) == [layer |-> name, scnr |-> "s", pkgs |-> <<pkg>>, files |-> <<>>, dists |-> S!Listed(ds),
                               repos |-> IF p.fam = "python" THEN <<[name |-> "pypi", key |-> "", uri |-> "https://pypi.org/simple", cpe |-> ""]>> ELSE <<>>]
      own == IF p.fam = "python" THEN {} ELSE dists
  IN  <<layer("m1", p.pkg, own), layer("m2", [p.pkg EXCEPT !.version = 3 - @], own), layer("m3", p.pkg, {A!AwsDist["linux1"]})>>

AgreesWithMatch(fam, found, published) ==
  \A layers \in {found}, vs \in {published} : \A db \in {Store(layers)} :
  \A reports \in {[i \in DOMAIN layers |-> Coalesced(fam, <<Back(db, layers[i].layer)>>)]} :
  \A listed \in {S!LibindexAffectedManifests(Shelved(db, layers, reports), S!Listed(vs))} :
  \A i \in DOMAIN layers, v \in vs :
    LET m == layers[i].layer
        yes == m \in DOMAIN listed /\ v \in ToSet(listed[m])
        mine == InReport(fam, vs, reports[i], v)
    IN  /\ mine => yes
        /\ (yes /\ v.module = layers[i].pkgs[1].module) => mine

AffectedAgrees ==
  /\ (Asked("feed") /\ q.fam \in {"aws", "debian", "python", "ubuntu"}) => AgreesWithMatch(q.fam, Found(q), Published(q))
  /\ Asked("oval") =>
       AgreesWithMatch("rhel", <<[layer |-> "m1", scnr |-> "s", pkgs |-> <<q.pkg>>, files |-> <<>>, dists |-> <<A!RhelDist(<<"8">>)>>,
                                  repos |-> <<[name |-> "cpe", key |-> "rhel-cpe-repository", uri |-> "", cpe |-> "cpe"]>>]>>,
                       A!RhelParse(q.root, <<"8">>))

-----------------------------------------------------------------------------
(* From the files of an image to its index report, through the scanners of *)
(* every ecosystem, the store, and the coalescers (controller.coalesce).   *)
(* A failing scanner fails the index.                                      *)
Scnrs == F!EcosystemsToScanners(F!Ecosystems)

ScanFails(l, net) ==
  \/ \E s \in Scnrs.pkgs : Error \in F!ScanPackages(s, l, net)
  \/ \E s \in Scnrs.dists : Error \in A!Scan(s, l)
  \/ \E s \in Scnrs.repos : Error \in F!ScanRepositories(s, l, net)

(* A scanner that found nothing has nothing stored. *)
ScanLayer(db, l, net) ==
  LET over(set, found(_), op(_, _, _), d) ==
        FoldSet(LAMBDA s, acc : CHOOSE x \in {op(a, S!Listed(found(s)), s) : a \in {acc}} : TRUE, d, {s \in set : found(s) # {}})
      pkgs(d, xs, s) == S!IndexPackages(d, xs, l.hash, s)
      dists(d, xs, s) == S!IndexDistributions(d, xs, l.hash, s)
      repos(d, xs, s) == S!IndexRepositories(d, xs, l.hash, s)
      files(d, xs, s) == S!IndexFiles(d, xs, l.hash, s)
  IN  over(Scnrs.files, LAMBDA s : F!WhiteoutScan(l), files,
        over(Scnrs.repos, LAMBDA s : F!ScanRepositories(s, l, net), repos,
          over(Scnrs.dists, LAMBDA s : A!Scan(s, l), dists,
            over(Scnrs.pkgs, LAMBDA s : F!ScanPackages(s, l, net), pkgs, db))))

Scanned(image, net) ==
  FoldLeft(LAMBDA db, l : CHOOSE x \in {ScanLayer(a, l, net) : a \in {db}} : TRUE,
           S!RegisterScanners(S!Store0, Scnrs.pkgs \cup Scnrs.dists \cup Scnrs.repos \cup Scnrs.files), image)

(* The artifacts of a layer for an ecosystem; of several distributions the *)
(* coalescers take the one that happens to come first.                     *)
LayerArtifacts(db, hash, e) ==
  LET dists == S!DistributionsByLayer(db, hash, e.dists)
      pkgs == {p @@ [key |-> <<p.name, p.version>>, rhcc |-> p.hint = <<"rhcc">>] : p \in S!PackagesByLayer(db, hash, e.pkgs)}
  IN  {[hash |-> hash, files |-> S!Listed(S!FilesByLayer(db, hash, e.files)), pkgs |-> S!Listed(pkgs),
        repos |-> S!RepositoriesByLayer(db, hash, e.repos), dist |-> d] :
         d \in IF dists = {} THEN {C!NoDist} ELSE {<<x>> : x \in dists}}

CoalesceOf(e, img) ==
  CASE e \in {"dpkg", "alpine", "rpm"} -> C!LinuxCoalesce(img)
    [] e = "rhel" -> C!RhelCoalesce(img) [] e = "rhcc" -> C!RhccCoalesce(img)
    [] e = "python" -> C!PythonCoalesce(img) [] e = "java" -> C!JavaCoalesce(img) [] e = "ruby" -> C!RubyCoalesce(img)
    [] e = "gobin" -> C!EmptyReport [] e = "whiteout" -> C!WhiteoutCoalesce(img)

(* The Resolvers of the indexer's Options: New sets them in its own and    *)
(* does not pass them on.                                                  *)
Resolvers == <<>>

Coalesce(db, image) ==
  LET arts(e, i) == LayerArtifacts(db, image[i].hash, F!Ecosystems[e])
      imgs(e) == {img \in [DOMAIN image -> UNION {arts(e, i) : i \in DOMAIN image}] : \A i \in DOMAIN image : img[i] \in arts(e, i)}
      add(e, irs) == {C!MergeSR(ir, CoalesceOf(e, img)) : ir \in irs, img \in imgs(e)}
      resolve(ir, r) == C!Resolve(image, ir)
  IN  {FoldLeft(resolve, ir, Resolvers) : ir \in FoldSet(add, {C!EmptyReport}, DOMAIN F!Ecosystems)}

(* Where the records of a report place a package: in a distribution or in  *)
(* a repository.                                                           *)
Placed(ir) ==
  LET did(r) == IF r.dist = None THEN "" ELSE r.dist.did
      repo(r) == IF r.repo = None THEN "" ELSE r.repo.name
      all == IndexRecords([pkgs |-> {ir.pkgs[id] : id \in DOMAIN ir.pkgs}, envs |-> ir.envs, dists |-> [d \in ir.dists |-> d[1]],
                           repos |-> [id \in {r.id : r \in ir.repos} |-> CHOOSE r \in ir.repos : r.id = id]])
  IN  {<<r.pkg.name, r.pkg.version, r.pkg.module, r.pkg.source.name, did(r), repo(r)>> :
         r \in {x \in all : x.dist # None \/ x.repo # None}}

(* More than one distribution in a layer, as in Debian's that name their   *)
(* code name: one of them is taken (linux/distsearcher.go:26).             *)
Ambiguous(db, image) ==
  \E e \in DOMAIN F!Ecosystems, i \in DOMAIN image :
    Cardinality(S!DistributionsByLayer(db, image[i].hash, F!Ecosystems[e].dists)) > 1

SomeDist(places) == {[p EXCEPT ![5] = p[5] # ""] : p \in places}

(* The packages of an index report that have a distribution or a           *)
(* repository, which every matcher but Python's asks for, are those of the *)
(* final image: what each package manager's last database says is          *)
(* installed, and the language packages that no package manager of the     *)
(* same layer answers for, each with its source, its module and its place  *)
(* (docs/concepts/indexer_architecture.md); and the language packages that *)
(* a whiteout of a later layer deleted, for New passes no Resolver on      *)
(* (libindex.go:150).  With whiteout.Resolver those of Python would go,    *)
(* and no other package.  The distribution is the right one unless a layer *)
(* has two.  The index fails only for a database or a manifest that is     *)
(* broken, or a service of Red Hat that does not answer.                   *)
InstalledIndexed ==
  Asked("image") =>
    IF \E i \in DOMAIN q.layers : ScanFails(q.layers[i], q.net) THEN q.fails
    ELSE /\ ~q.fails
         /\ \A db \in {Scanned(q.layers, q.net)} : \A ir \in Coalesce(db, q.layers) :
              LET same(a, b) == IF Ambiguous(db, q.layers) THEN SomeDist(a) = SomeDist(b) ELSE a = b
              IN  /\ same(Placed(ir), q.installed \cup q.deleted)
                  /\ same(Placed(C!Resolve(q.layers, ir)), q.installed \cup {p \in q.deleted : p[6] # "pypi"})
==============================================================================
