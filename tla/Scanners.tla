------------------------------ MODULE Scanners ------------------------------
(***************************************************************************)
(* The package, repository and file scanners, and the ecosystems they      *)
(* belong to.  A layer's `files' is a function from paths, sequences of    *)
(* names, to what is there: its type ("file", "dir", or "link", a symbolic *)
(* link to nothing), the kind of name it has where a scanner goes by a     *)
(* suffix or a pattern, its rank in the order of a directory walk, and its *)
(* body.  A scanner returns a set, {Error} if it fails.  A version is a    *)
(* sequence of numbers, <<>> for "" and <<BadVersion>> for one its parser  *)
(* refuses.                                                                *)
(***************************************************************************)
EXTENDS Matchers, Sequences, SequencesExt

At(l, p) == p \in DOMAIN l.files
Regular(l, p) == At(l, p) /\ l.files[p].type = "file"
OfKind(l, k) == {p \in DOMAIN l.files : l.files[p].kind = k}
Base(p) == Last(p)
Dir(p) == Front(p)

(* The first in the order of the walk. *)
FirstOf(l, ps) == CHOOSE p \in ps : \A o \in ps : l.files[p].rank <= l.files[o].rank

Bare(name, kind, version) ==
  [name |-> name, kind |-> kind, version |-> version, module |-> "", arch |-> "", kindOfVersion |-> "", minor |-> 0]
Package(name, version, db) ==
  Bare(name, "binary", version) @@ [source |-> None, db |-> db, hint |-> <<>>, path |-> <<>>]
Repository(name, uri) == [name |-> name, key |-> "", uri |-> uri, cpe |-> ""]

(* The value of a header, or the empty one. *)
Header(hdr, key, empty) == IF key \in DOMAIN hdr THEN hdr[key] ELSE empty

-----------------------------------------------------------------------------
(* alpine: the entries of the one database, sequences of lines <<key,       *)
(* value>>.  The last line of an entry is not read.  Packages of one origin *)
(* share the source that the first of them made, without a version if its   *)
(* origin came before its version.                                          *)
installedFile == <<"lib", "apk", "db", "installed">>

LinesOf(entry, key) == {i \in 1..(Len(entry) - 1) : entry[i][1] = key}
Field(entry, key, empty) ==
  LET ls == LinesOf(entry, key) IN IF ls = {} THEN empty ELSE entry[CHOOSE i \in ls : \A j \in ls : j <= i][2]

AlpineSource(entries, i) ==
  LET origin == Field(entries[i], "o", "")
      same == {j \in 1..i : Field(entries[j], "o", "") = origin}
      first == entries[CHOOSE j \in same : \A k \in same : j <= k]
      versioned == \E v \in LinesOf(first, "V") : \A o \in LinesOf(first, "o") : v < o
  IN  IF origin = "" THEN None
      ELSE Bare(origin, "source", IF versioned THEN Field(first, "V", <<>>) ELSE <<>>)

AlpineScan(l) ==
  IF ~Regular(l, installedFile) THEN {}
  ELSE LET entries == l.files[installedFile].body
       IN  {[Package(Field(entries[i], "P", ""), Field(entries[i], "V", <<>>), installedFile) EXCEPT
               !.hint = <<Field(entries[i], "c", "")>>, !.arch = Field(entries[i], "A", ""), !.source = AlpineSource(entries, i)] :
              i \in DOMAIN entries}

-----------------------------------------------------------------------------
(* dpkg: a database is a sequence of blocks of headers, each ended by a     *)
(* blank line, by a line that is no header, or by the end of the file.      *)
DebPackage(hdr, fn) ==
  LET v == Header(hdr, "Version", <<>>) src == Header(hdr, "Source", "")
  IN  [Package(Header(hdr, "Package", ""), v, fn) EXCEPT
         !.arch = Header(hdr, "Architecture", ""), !.source = IF src = "" THEN None ELSE Bare(src, "source", v)]

(* Only a block that a blank line ends is looked at. *)
DpkgBlocks(blocks) ==
  {i \in DOMAIN blocks : blocks[i].end = "blank" /\ {"ok", "installed"} \subseteq Header(blocks[i].hdr, "Status", {})}

(* The md5sums file of a name is the hint of the last package of that name. *)
DpkgHint(l, dir, blocks, i) ==
  LET name == Header(blocks[i].hdr, "Package", "")
      later == {j \in DpkgBlocks(blocks) : j > i /\ Header(blocks[j].hdr, "Package", "") = name}
      sums == {p \in OfKind(l, "md5sums") : Dir(p) = Append(dir, "info") /\ l.files[p].body.of = name}
  IN  IF sums = {} \/ later # {} THEN <<>>
      ELSE <<l.files[CHOOSE p \in sums : \A o \in sums : l.files[o].rank <= l.files[p].rank].body.sum>>

DpkgDirs(l) ==
  {Dir(p) : p \in {f \in DOMAIN l.files : /\ Base(f) = "status" /\ l.files[f].type # "dir"
                                          /\ At(l, Append(Dir(f), "info")) /\ l.files[Append(Dir(f), "info")].type = "dir"}}

DpkgScan(l) ==
  LET dbs == {d \in DpkgDirs(l) : Regular(l, Append(d, "status"))}
      found(d) == LET fn == Append(d, "status") blocks == l.files[fn].body
                  IN  {[DebPackage(blocks[i].hdr, fn) EXCEPT !.hint = DpkgHint(l, d, blocks, i)] : i \in DpkgBlocks(blocks)}
      dangling(d) == \E p \in OfKind(l, "md5sums") : /\ Dir(p) = Append(d, "info") /\ l.files[p].type = "link"
                                                     /\ l.files[p].body.of \in {x.name : x \in found(d)}
  IN  IF \E d \in dbs : dangling(d) THEN {Error} ELSE UNION {found(d) : d \in dbs}

(* distroless: a file for each package.  The Status is not asked for, the   *)
(* end of the file may end a block, and a second blank line ends the file.  *)
DistrolessBlocks(blocks) ==
  LET empty == {i \in DOMAIN blocks : blocks[i].hdr = <<>> /\ blocks[i].end = "blank"}
  IN  {i \in DOMAIN blocks : blocks[i].end # "bad" /\ blocks[i].hdr # <<>> /\ \A j \in empty : i < j}

DistrolessScan(l) ==
  LET dirs == {p \in DOMAIN l.files : Base(p) = "status.d" /\ l.files[p].type = "dir"}
      dbs == {p \in DOMAIN l.files : Dir(p) \in dirs}
  IN  IF \E p \in dbs : l.files[p].type = "link" THEN {Error}
      ELSE UNION {{DebPackage(l.files[p].body[i].hdr, p) : i \in DistrolessBlocks(l.files[p].body)} : p \in {f \in dbs : Regular(l, f)}}

-----------------------------------------------------------------------------
(* rpm: a database is a file of the right name, with the right magic number *)
(* unless it is sqlite's.  Of one directory the first is used.              *)
findDBs(l) ==
  {p \in DOMAIN l.files : /\ Base(p) \in {"Packages", "Packages.db", "rpmdb.sqlite"} /\ l.files[p].type # "dir"
                          /\ l.files[p].type = "link" \/ Base(p) = "rpmdb.sqlite" \/ l.files[p].body.magic}

dbKind(p) == CASE Base(p) = "Packages" -> "bdb" [] Base(p) = "Packages.db" -> "ndb" [] OTHER -> "sqlite"

(* "epoch:version-release", the epoch left out when it is 0. *)
constructEVR(info) == IF info.epoch # 0 THEN <<info.epoch, info.version, info.release>> ELSE <<info.version, info.release>>

(* The digest, if its algorithm is known, and the keys of the signatures.   *)
constructHint(info) ==
  (CASE info.digest = "" -> <<>> [] info.algo = 8 -> <<"hash:", "sha256:", info.digest>> [] OTHER -> <<"hash:">>)
  \o FlattenSeq([i \in DOMAIN info.keys |-> <<"key:", info.keys[i]>>])

Modular(info) == IF info.module[2] THEN info.module[1] ELSE ""    \* it has a ":"

(* Packages of one source share it, with the module of the first of them. *)
RpmSource(infos, i) ==
  LET nevr == infos[i].nevr
      same == {j \in DOMAIN infos : infos[j].nevr = nevr /\ infos[j].name # "gpg-pubkey"}
      first == infos[CHOOSE j \in same : \A k \in same : j <= k]
  IN  IF nevr.name = "(none)" THEN None
      ELSE [Bare(nevr.name, "source", IF Len(nevr.version) = 3 /\ nevr.version[1] = 0 THEN Tail(nevr.version) ELSE nevr.version)
              EXCEPT !.module = Modular(first)]

packagesFromDB(pkgdb, infos) ==
  LET real == {i \in DOMAIN infos : infos[i].name # "gpg-pubkey"}
  IN  IF \E i \in real : infos[i].nevr.name # "(none)" /\ Len(infos[i].nevr.version) < 2 THEN {Error}
      ELSE {[Package(infos[i].name, constructEVR(infos[i]), pkgdb) EXCEPT !.arch = infos[i].arch,
               !.module = Modular(infos[i]), !.hint = constructHint(infos[i]), !.source = RpmSource(infos, i)] : i \in real}

RpmScan(l) ==
  LET found == findDBs(l)
      used == {FirstOf(l, {p \in found : Dir(p) = d}) : d \in {Dir(p) : p \in found}}
      of(p) == packagesFromDB(<<dbKind(p)>> \o Dir(p), l.files[p].body.headers)
      fails(p) == \/ l.files[p].type = "link" /\ (p \in used \/ Base(p) # "rpmdb.sqlite")
                  \/ p \in used /\ (~l.files[p].body.sound \/ Error \in of(p))
  IN  IF \E p \in found : fails(p) THEN {Error}
      ELSE UNION {of(p) : p \in used}

-----------------------------------------------------------------------------
(* python: eggs and wheels, except what the layer's own package manager     *)
(* installed: what lies in its directories, and what says so itself.        *)
RpmDir(p) == Len(p) = 3 /\ p[1] = "usr" /\ p[2] \in {"lib", "lib64"} /\ p[3] \in {"python2.7", "python3.9"}
DpkgDir(p) == Len(p) = 3 /\ p[1] = "usr" /\ p[2] \in {"lib", "lib64"} /\ p[3] \in {"python2", "python3"}

blocklist == {"rpm", "dpkg", "apk"}

(* Mutant: package managers' files are not skipped. *)
findAnyEgg(l) == {p \in DOMAIN l.files : l.files[p].type = "file" /\ l.files[p].kind \in {"egg", "egg-info", "egg-info dir", "wheel"}}

findDeliciousEgg(l) ==
  LET rpm == \E n \in {"Packages", "rpmdb.sqlite", "Packages.db"} : Regular(l, <<"var", "lib", "rpm", n>>)
      dpkg == Regular(l, <<"var", "lib", "dpkg", "status">>)
      skipped(p) == \E n \in 1..(Len(p) - 1) : LET d == SubSeq(p, 1, n) IN IF rpm THEN RpmDir(d) ELSE dpkg /\ DpkgDir(d)
      installer(p) == LET ip == Append(Dir(p), "INSTALLER") IN IF Regular(l, ip) THEN l.files[ip].body ELSE ""
  IN  {p \in DOMAIN l.files : /\ l.files[p].type = "file" /\ ~skipped(p)
                              /\ \/ l.files[p].kind \in {"egg", "egg-info", "egg-info dir"}
                                 \/ l.files[p].kind = "wheel" /\ installer(p) \notin blocklist}

(* The name is the lower-case one; what cannot be read is skipped. *)
PythonScan(l) ==
  LET good == {p \in findDeliciousEgg(l) : l.files[p].body.version # <<BadVersion>>}
      db(p) == <<"python">> \o (IF l.files[p].kind = "egg-info" THEN Dir(p) ELSE Dir(Dir(p)))
  IN  {[Package(l.files[p].body.lower, l.files[p].body.version, db(p)) EXCEPT !.path = p, !.kindOfVersion = "pep440",
          !.minor = l.files[p].body.version[1], !.hint = <<"https://pypi.org/simple">>] : p \in good}

PythonRepoScan(l) == IF findDeliciousEgg(l) = {} THEN {} ELSE {Repository("pypi", "https://pypi.org/simple")}

-----------------------------------------------------------------------------
(* ruby: the specifications of gems; of a name or a version given twice the *)
(* last one counts.                                                         *)
gems(l) == {p \in OfKind(l, "gemspec") : l.files[p].type = "file"}

RubyScan(l) ==
  LET last(p, key) == LET ls == SelectSeq(l.files[p].body, LAMBDA x : key \in DOMAIN x) IN IF ls = <<>> THEN <<>> ELSE <<Last(ls)[key]>>
      good == {p \in gems(l) : last(p, "name") # <<>> /\ last(p, "version") # <<>>}
  IN  {[Package(last(p, "name")[1], last(p, "version")[1], p) EXCEPT !.hint = <<"rubygems">>] : p \in good}

RubyRepoScan(l) == IF gems(l) = {} THEN {} ELSE {Repository("rubygems", "https://rubygems.org/gems/")}

-----------------------------------------------------------------------------
(* java: an archive has a SHA1, a name that gives a name and a version away *)
(* or does not (<<>>), pom.properties files, at most one manifest, and      *)
(* archives in it.                                                          *)
archives(l) == {p \in OfKind(l, "archive") : l.files[p].type = "file" /\ ~l.files[p].body.small}

Infos(infos) == [err |-> "", infos |-> infos]
Fails(err) == [err |-> err, infos |-> <<>>]
Info(name, version, source) == [name |-> name, version |-> version, source |-> <<source>>, sha |-> ""]

(* One file that does not tell is as good as none. *)
parseProperties(kv) == {"groupId", "artifactId", "version"} \subseteq DOMAIN kv

extractProperties(z) ==
  CASE ~z.metainf -> Fails("not a jar")
    [] z.poms = <<>> \/ \E i \in DOMAIN z.poms : ~parseProperties(z.poms[i]) -> Fails("unpopulated")
    [] OTHER -> Infos([i \in DOMAIN z.poms |->
                  Info(z.poms[i]["groupId"] \o ":" \o z.poms[i]["artifactId"], z.poms[i]["version"], "pom.properties")])

(* The value of the first of the headers that is of one word. *)
FirstWord(hdr, keys) ==
  LET good == {i \in DOMAIN keys : Len(Header(hdr, keys[i], <<>>)) = 1}
  IN  IF good = {} THEN "" ELSE hdr[keys[CHOOSE i \in good : \A j \in good : i <= j]][1]

(* A header is a sequence of words, a version one of numbers; a symbolic    *)
(* name is without its directives.                                          *)
parseManifest(hdr) ==
  LET group == FirstWord(hdr, <<"Group-Id", "Bundle-SymbolicName", "Implementation-Vendor-Id", "Implementation-Vendor", "Specification-Vendor">>)
      title == FirstWord(hdr, <<"Implementation-Title", "Specification-Title", "Bundle-Name", "Extension-Name", "Short-Name">>)
      artifact == IF title = group THEN "" ELSE title
      versions == SelectSeq(<<"Bundle-Version", "Implementation-Version", "Plugin-Version", "Specification-Version">>,
                            LAMBDA k : Header(hdr, k, <<>>) # <<>>)
      name == IF "" \in {group, artifact} THEN group \o artifact ELSE group \o ":" \o artifact
  IN  CASE "Manifest-Version" \notin DOMAIN hdr \/ "Name" \in DOMAIN hdr -> Fails("insane")
        [] name = "" \/ versions = <<>> -> Fails("unpopulated")
        [] OTHER -> Infos(<<Info(name, hdr[versions[1]], "META-INF/MANIFEST.MF")>>)

extractManifest(z) == IF z.manifest = <<>> THEN Fails("not a jar") ELSE parseManifest(z.manifest[1])

checkName(z) == IF z.named = <<>> THEN Fails("unpopulated") ELSE Infos(<<Info(z.named[1], z.named[2], ".")>>)

(* The properties, or else the manifest, or else the name. *)
Identify(z) ==
  LET props == extractProperties(z) manifest == extractManifest(z) name == checkName(z)
      goOn(err) == err = "unpopulated" \/ (z.javax /\ err = "not a jar")
  IN  CASE ~goOn(props.err) -> props
        [] ~goOn(manifest.err) /\ manifest.err # "insane" -> manifest
        [] name.err = "" -> name
        [] OTHER -> Fails("unidentified")

(* What is found in an inner archive gets its SHA, however deep it was.     *)
RECURSIVE JarParse(_)
extractInner(z) ==
  LET of(j) == IF j.small \/ ~j.zip THEN <<>>
               ELSE [i \in DOMAIN JarParse(j).infos |-> [JarParse(j).infos[i] EXCEPT !.sha = j.sha, !.source = <<z.sha>> \o @]]
  IN  FlattenSeq([k \in DOMAIN z.inner |-> of(z.inner[k])])

JarParse(z) == IF Identify(z).err # "" THEN Identify(z) ELSE Infos(Identify(z).infos \o extractInner(z))

(* The search service's answer; without one, what was known. *)
search(maven, i, ck) ==
  LET sha == IF i.sha # "" THEN i.sha ELSE ck
      docs == IF maven.down \/ sha \notin DOMAIN maven.docs THEN {} ELSE maven.docs[sha]
      d == CHOOSE x \in docs : \A y \in docs : x.id <= y.id
  IN  IF docs = {} THEN i ELSE [i EXCEPT !.source = <<"root">>, !.version = d.version, !.name = d.group \o ":" \o d.artifact]

JavaScan(l, maven) ==
  LET jars == {p \in archives(l) : l.files[p].body.zip}
      kind(i) == CASE Last(i.source) \in {"pom.properties", "root"} -> "maven"
                   [] Last(i.source) = "META-INF/MANIFEST.MF" -> "jar" [] OTHER -> "file"
      of(p, info) == LET ck == l.files[p].body.sha
                         i == IF maven.on /\ Last(info.source) # "pom.properties" THEN search(maven, info, ck) ELSE info
                     IN  [Package(i.name, i.version, <<kind(i)>> \o p) EXCEPT !.hint = <<"sha1:", IF i.sha # "" THEN i.sha ELSE ck>>]
  IN  UNION {{of(p, i) : i \in ToSet(JarParse(l.files[p].body).infos)} : p \in jars}

JavaRepoScan(l) == IF archives(l) = {} THEN {} ELSE {Repository("maven", "https://repo1.maven.apache.org/maven2")}

-----------------------------------------------------------------------------
(* gobin: the modules that executables were built from. *)
toPackages(p, bi) ==
  {Package(d[1], d[2], <<"go">> \o p) : d \in {<<"runtime", bi.goVersion>>, bi.main} \cup bi.deps}

GobinScan(l) ==
  LET exes == {p \in OfKind(l, "exe") : l.files[p].type = "file" /\ l.files[p].body.readable /\ l.files[p].body.binary}
  IN  UNION {toPackages(p, l.files[p].body.buildinfo) : p \in {e \in exes : l.files[e].body.go}}

(* whiteout: every name that begins with ".wh.". *)
WhiteoutScan(l) == {[dir |-> Dir(p), name |-> l.files[p].body] : p \in OfKind(l, "whiteout")}

-----------------------------------------------------------------------------
(* rhcc: the image itself is a package.  A Dockerfile's name has dashes, a  *)
(* version and a release; only one with two dashes has both.                *)
Dockerfiles(l) == OfKind(l, "Dockerfile")

findLabels(l) == {p \in Dockerfiles(l) : l.files[p].body.dashes > 1}

MinorStart(vr) == 100 * vr[1] + vr[2]

RhccScan(l, names) ==
  LET p == FirstOf(l, findLabels(l))
      f == l.files[p].body
      pkg(name) == [Package(name, f.vr, p) EXCEPT !.kindOfVersion = "rhctag", !.minor = MinorStart(f.vr),
                      !.arch = f.labels["architecture"], !.hint = <<"rhcc">>]
      src == [pkg(f.labels["com.redhat.component"]) EXCEPT !.kind = "source"]
      name == f.labels["name"]
  IN  CASE findLabels(l) = {} -> {}
        [] l.files[p].type = "link" \/ ~f.sound -> {Error}
        [] f.vr = <<BadVersion>> \/ ~({"com.redhat.component", "architecture", "name"} \subseteq DOMAIN f.labels) -> {}
        [] names = None -> {Error}
        [] OTHER -> {src} \cup {[pkg(n) EXCEPT !.source = src] : n \in IF name \in DOMAIN names THEN names[name] ELSE {name}}

RhccRepoScan(l) ==
  IF Dockerfiles(l) = {} THEN {}
  ELSE {Repository("Red Hat Container Catalog", "https://catalog.redhat.com/software/containers/explore")}

(* rhel: the products a layer's content sets are of, or else what the       *)
(* container API says of the image.  NoCPEs is nil.                         *)
NoCPEs == {"nil"}
Failure == {"error"}

MappingGet(mapping, rs) == UNION {mapping[r] : r \in rs \cap DOMAIN mapping}

mapContentSets(l, mapping) ==
  LET ms == OfKind(l, "content manifest")
      f == l.files[FirstOf(l, ms)]
  IN  CASE ms = {} -> NoCPEs
        [] f.type # "file" \/ ~f.body.sound -> Failure
        [] f.body.sets = {} -> NoCPEs
        [] OTHER -> MappingGet(mapping, f.body.sets)

(* GetCPEs: of the images of a build the first of that architecture. *)
GetCPEs(api, nvr, arch) ==
  LET of == {i \in DOMAIN api[nvr] : api[nvr][i].arch = arch}
  IN  CASE nvr \notin DOMAIN api -> Failure
        [] of = {} -> NoCPEs
        [] OTHER -> api[nvr][CHOOSE i \in of : \A j \in of : i <= j].cpes

(* Here the first Dockerfile is taken, whatever its name. *)
mapContainerAPI(l, api) ==
  LET f == l.files[FirstOf(l, Dockerfiles(l))]
      nvr == <<f.body.labels["com.redhat.component"], IF f.body.dashes > 1 THEN f.body.vr ELSE <<>>>>
  IN  CASE Dockerfiles(l) = {} -> NoCPEs
        [] f.type # "file" \/ ~f.body.sound -> Failure
        [] ~({"com.redhat.component", "architecture"} \subseteq DOMAIN f.body.labels) -> NoCPEs
        [] OTHER -> GetCPEs(api, nvr, f.body.labels["architecture"])

RhelRepoScan(l, mapping, api) ==
  LET embedded == mapContentSets(l, mapping)
      cpes == IF embedded = NoCPEs THEN mapContainerAPI(l, api) ELSE embedded
  IN  IF mapping = None \/ cpes = Failure THEN {Error}
      ELSE {[Repository(c, "") EXCEPT !.key = "rhel-cpe-repository", !.cpe = c] : c \in cpes \ {"nil", "bad"}}

-----------------------------------------------------------------------------
(* The ecosystems, and the scanners of each; one scanner may serve several. *)
Ecosystem(pkgs, dists, repos, files) == [pkgs |-> pkgs, dists |-> dists, repos |-> repos, files |-> files]
DpkgEcosystem == Ecosystem({"dpkg", "dpkg-distroless"}, {"debian", "ubuntu"}, {}, {})
AlpineEcosystem == Ecosystem({"apk"}, {"alpine"}, {}, {})
RhelEcosystem == Ecosystem({"rpm"}, {"rhel"}, {"rhel-repository-scanner"}, {})
RpmEcosystem == Ecosystem({"rpm"}, {"aws", "oracle", "suse", "photon"}, {}, {})
PythonEcosystem == Ecosystem({"python"}, {}, {"pypi"}, {})
JavaEcosystem == Ecosystem({"java"}, {}, {"maven"}, {})
RhccEcosystem == Ecosystem({"rhel_containerscanner"}, {}, {"rhel_containerscanner"}, {})
GobinEcosystem == Ecosystem({"gobin"}, {}, {}, {})
RubyEcosystem == Ecosystem({"ruby"}, {}, {"rubygems"}, {})
WhiteoutEcosystem == Ecosystem({}, {}, {}, {"whiteout"})

(* libindex.New: the default ones, and always the last. *)
Ecosystems ==
  [dpkg |-> DpkgEcosystem, alpine |-> AlpineEcosystem, rhel |-> RhelEcosystem, rpm |-> RpmEcosystem, python |-> PythonEcosystem,
   java |-> JavaEcosystem, rhcc |-> RhccEcosystem, gobin |-> GobinEcosystem, ruby |-> RubyEcosystem, whiteout |-> WhiteoutEcosystem]

(* Each scanner once. *)
EcosystemsToScanners(ecosystems) ==
  LET all(kind) == UNION {ecosystems[e][kind] : e \in DOMAIN ecosystems}
  IN  Ecosystem(all("pkgs"), all("dists"), all("repos"), all("files"))

(* `net' is what the services answer: the two mappings of Red Hat (None     *)
(* when they could not be had), its container API, and Maven's search.      *)
ScanPackages(s, l, net) ==
  CASE s = "apk" -> AlpineScan(l) [] s = "dpkg" -> DpkgScan(l) [] s = "dpkg-distroless" -> DistrolessScan(l)
    [] s = "rpm" -> RpmScan(l) [] s = "python" -> PythonScan(l) [] s = "ruby" -> RubyScan(l) [] s = "gobin" -> GobinScan(l)
    [] s = "java" -> JavaScan(l, net.maven) [] s = "rhel_containerscanner" -> RhccScan(l, net.names)

ScanRepositories(s, l, net) ==
  CASE s = "pypi" -> PythonRepoScan(l) [] s = "maven" -> JavaRepoScan(l) [] s = "rubygems" -> RubyRepoScan(l)
    [] s = "rhel_containerscanner" -> RhccRepoScan(l) [] s = "rhel-repository-scanner" -> RhelRepoScan(l, net.mapping, net.api)
=============================================================================
