------------------------------ MODULE MCReports ------------------------------
(* Inputs for Reports.  The calls of Scan are for a Debian image with a    *)
(* Python package and a Red Hat container, against a store with a fixed,   *)
(* an unfixed and a malformed vulnerability.                               *)
EXTENDS Reports, TLC

MCMatchers == <<"debian", "rhcc", "pypi">>
MCEnrichers == <<"cvss", "other">>

Buster == [did |-> "debian", name |-> "Debian GNU/Linux", version |-> "10"]
Gold == [name |-> "Red Hat Container Catalog", key |-> ""]
PyPI == [name |-> "pypi", key |-> ""]

Pkg(id, source, version) ==
  [id |-> id, name |-> id, kind |-> "binary", source |-> source, version |-> version,
   kindOfVersion |-> "rhctag", minor |-> 1]
Deb == Pkg("libc6", [name |-> "glibc", kind |-> "source"], 2)
Py == Pkg("requests", None, 1)
Box == Pkg("ubi", None, 2)

Vuln(id, pkg, kind, fixed) ==
  [id |-> id, pkg |-> pkg, kind |-> kind, fixed |-> fixed, dist |-> Buster, repo |-> Gold.name,
   kindOfVersion |-> "rhctag", range |-> <<1, 2>>]
Good == {Vuln("v1", "glibc", "source", 3), Vuln("v2", "ubi", "binary", 2), Vuln("v3", "ubi", "binary", 3)}
Malformed == Vuln("v4", "libc6", "binary", BadVersion)

Report(pkgs) ==
  [pkgs |-> pkgs, dists |-> ("d" :> Buster), repos |-> ("g" :> Gold @@ "p" :> PyPI),
   envs |-> [id \in {p.id : p \in pkgs} |->
     CASE id = "libc6" -> {[dist |-> "d", repos |-> {}], [dist |-> "d", repos |-> {"p"}]}
       [] id = "requests" -> {[dist |-> "d", repos |-> {"p"}]}
       [] OTHER -> {[dist |-> "", repos |-> {"g"}]}]]

Advice == (<<"requests", 1>> :> {[id |-> "snyk"]})

MCInputs ==
  {[report |-> Report({Deb, Py, Box}), vulns |-> Good, advice |-> Advice],
   [report |-> Report({Deb, Box}), vulns |-> Good \cup {Malformed}, advice |-> Advice]}

-----------------------------------------------------------------------------
(* Layers, from the release files of the distributions' images. *)
N310 == <<"3", ".", "1", "0">>
MCAlpine == {N310, <<"3", ".", "9">>, <<"3", ".", "1">>}
MCDebian == {<<<<"8">>, "jessie">>, <<<<"1", "0">>, "buster">>}
MCUbuntu == {<<<<"1", "8", ".", "0", "4">>, "bionic">>, <<<<"2", "0", ".", "0", "4">>, "focal">>}

NoText == [f \in {"os-release", "issue", "redhat-release", "photon-release", "SuSE-release"} |-> {}]
ReleaseFile(kv) == IF kv = A!NoFile THEN kv
            ELSE LET keys == SetToSeq(DOMAIN kv)
                 IN  [absent |-> FALSE, lines |-> <<A!Line("ID", "overridden")>> \o [i \in DOMAIN keys |-> A!Line(keys[i], kv[keys[i]])]]
Layer(osr, lsb, text) == [osr |-> ReleaseFile(osr), lsb |-> ReleaseFile(lsb), text |-> text @@ NoText]
In(file, words, num) == file :> {A!Phrase(words, num)}

AlpineLayer(id, ver) ==
  Layer("ID" :> "alpine" @@ "NAME" :> "Alpine Linux" @@ "VERSION_ID" :> id
        @@ "PRETTY_NAME" :> A!Phrase("Alpine Linux v", ver), A!NoFile, In("os-release", "Alpine Linux v", ver))
OldAlpine == Layer(A!NoFile, A!NoFile, In("issue", "Alpine Linux", <<"3", ".", "9", ".", "4">>))
DebianLayer(num, name, coded) ==
  Layer(("ID" :> "debian" @@ "NAME" :> "Debian GNU/Linux" @@ "VERSION_ID" :> num
         @@ "VERSION" :> <<num, [name |-> name, title |-> FALSE]>>)
        @@ (IF coded THEN "VERSION_CODENAME" :> name ELSE <<>>), A!NoFile, In("os-release", "Debian GNU/Linux", num))
UbuntuLayer(num, name, lsb) ==
  Layer("ID" :> "ubuntu" @@ "NAME" :> "Ubuntu" @@ "VERSION_ID" :> num @@ "VERSION_CODENAME" :> name
        @@ "VERSION" :> <<num, [name |-> name, title |-> TRUE]>>,
        IF lsb THEN "DISTRIB_ID" :> "Ubuntu" @@ "DISTRIB_RELEASE" :> num @@ "DISTRIB_CODENAME" :> name ELSE A!NoFile,
        In("os-release", "Ubuntu", num))
Text(file, words, num) == Layer("ID" :> "other", A!NoFile, In(file, words, num))

Of(fam, d) == {<<fam, d>>}
Case(l, own) == [layer |-> l, own |-> own]
MCLayers ==
  {Case(AlpineLayer(N310 \o <<".", "3">>, N310), Of("alpine", A!AlpineDist(N310))),
   Case(OldAlpine, Of("alpine", A!AlpineDist(<<"3", ".", "9">>))),
   Case(DebianLayer(<<"1", "0">>, "buster", TRUE), Of("debian", A!DebianDist("buster", <<"1", "0">>))),
   Case(DebianLayer(<<"8">>, "jessie", FALSE), Of("debian", A!DebianDist("jessie", <<"8">>))),
   Case(DebianLayer(<<"1", "1">>, "bullseye", TRUE), {})}
  \cup {Case(UbuntuLayer(u[1], u[2], lsb), Of("ubuntu", A!UbuntuDist(u[1], u[2]))) : u \in MCUbuntu, lsb \in BOOLEAN}
  \cup {Case(Text("redhat-release", "Red Hat Enterprise Linux release", <<"8", ".", "3">>), {}),
        Case(Text("os-release", "Amazon Linux", <<"2">>), Of("aws", A!AwsDist["linux2"])),
        Case(Text("os-release", "Amazon Linux AMI", <<"2", "0", "1", "8", ".", "0", "3">>), Of("aws", A!AwsDist["linux1"])),
        Case(Text("issue", "Oracle Linux Server release", <<"5", ".", "1", "1">>), Of("oracle", A!OracleDist["5"])),
        Case(Text("os-release", "Oracle Linux Server", <<"7", ".", "9">>), Of("oracle", A!OracleDist["7"])),
        Case(Text("os-release", "VMware Photon", <<"1", ".", "0">>), Of("photon", A!PhotonDist["1"])),
        Case(Text("photon-release", "VMware Photon OS", <<"3", ".", "0">>), Of("photon", A!PhotonDist["3"])),
        Case(Text("os-release", "SUSE Linux Enterprise Server", <<"1", "5">>), Of("suse", A!SuseDist[<<"1", "5">>])),
        Case(Text("SuSE-release", "SUSE Linux Enterprise Server", <<"1", "1">>), Of("suse", A!SuseDist[<<"1", "1">>])),
        Case(Text("os-release", "openSUSE Leap", <<"1", "5", ".", "1">>), Of("suse", A!SuseDist[<<"1", "5", ".", "1">>]))}

-----------------------------------------------------------------------------
(* Images of three layers; a layer's hash is its contents. *)
DbPkg(id) == [id |-> id, key |-> id, db |-> "db", path |-> <<>>, rhcc |-> FALSE]
Cpe == [id |-> "r", key |-> "rhel-cpe-repository"]
DbLayers ==
  {[hash |-> <<ids, dist>>, pkgs |-> [i \in DOMAIN ids |-> DbPkg(ids[i])], dist |-> dist,
    repos |-> IF dist = C!NoDist THEN {} ELSE {Cpe}, files |-> <<>>] :
     ids \in {<<>>, <<"a">>, <<"b">>, <<"a", "b">>}, dist \in {C!NoDist, <<"d1">>, <<"d2">>}}
MCDatabases == [1..3 -> DbLayers]

File(name) == [id |-> name, key |-> name, db |-> name, path |-> <<"app", "lib", name>>, rhcc |-> FALSE]
Whiteouts == {<<>>} \cup {<<w>> : w \in {[dir |-> <<"app", "lib">>, name |-> "a"], [dir |-> <<"app", "lib">>, name |-> C!Opaque],
                                        [dir |-> <<"app">>, name |-> "lib"], [dir |-> <<"app">>, name |-> C!Opaque],
                                        [dir |-> <<>>, name |-> "app"], [dir |-> <<"app">>, name |-> "a"],
                                        [dir |-> <<>>, name |-> C!Opaque]}}
FileLayers ==
  {[hash |-> <<ids, ws>>, pkgs |-> [i \in DOMAIN ids |-> File(ids[i])], dist |-> C!NoDist,
    repos |-> IF ids = <<>> THEN {} ELSE {[id |-> "pypi", key |-> ""]}, files |-> ws] :
     ids \in {<<>>, <<"a">>, <<"a", "b">>}, ws \in Whiteouts}
MCFileImages == [1..3 -> FileLayers]

-----------------------------------------------------------------------------
(* OVAL documents: one definition, its tests at different depths. *)
Cri(test, module) == [test |-> test, module |-> module]
Node(subs, cris) == [subs |-> subs, criterions |-> cris]
Trees(test, module) ==
  LET c == Cri(test, "") other == Cri("other", module)
  IN  {"top" :> Node(<<>>, <<other, c>>),
       "top" :> Node(<<"l", "r">>, <<Cri("gone", "")>>) @@ "l" :> Node(<<>>, <<other>>) @@ "r" :> Node(<<>>, <<c>>),
       "top" :> Node(<<"l">>, <<>>) @@ "l" :> Node(<<"r">>, <<other>>) @@ "r" :> Node(<<>>, <<c>>)}
States == {[kind |-> "rpm", evr |-> 2, arch |-> {}, archOp |-> ""],
           [kind |-> "rpm", evr |-> 2, arch |-> {"x86_64"}, archOp |-> "equals"],
           [kind |-> "rpm", evr |-> 2, arch |-> {"x86_64", "s390x"}, archOp |-> "pattern match"],
           [kind |-> "rpm", evr |-> NoVersion, arch |-> {}, archOp |-> ""],
           [kind |-> "other", evr |-> 2, arch |-> {}, archOp |-> ""]}
Root(tree, type, cpes, ref, state) ==
  [defs |-> <<[title |-> "d", type |-> type, cpes |-> cpes, severity |-> "Important", tree |-> tree]>>,
   tests |-> "t" :> [kind |-> "rpm", object |-> "o", state |-> ref] @@ "other" :> [kind |-> "uname", object |-> "o", state |-> ""],
   objects |-> "o" :> [kind |-> "rpm", name |-> "a"], states |-> "s" :> state, variables |-> <<>>]
Installed == {[name |-> n, kind |-> "binary", source |-> None, module |-> m, version |-> v, arch |-> ar,
               kindOfVersion |-> "", minor |-> 0, db |-> "rpm", hint |-> "", path |-> <<>>] :
                n \in {"a", "b"}, m \in {"", "m"}, v \in {1, 2}, ar \in {"x86_64", "s390x"}}
MCDocuments ==
  {[root |-> Root(tree, tc[1], tc[2], ref, state), pkg |-> p] :
     tree \in UNION {Trees("t", m) : m \in {"", "m"}}, p \in Installed, ref \in {"", "s", "gone"}, state \in States,
     tc \in {<<"rhsa", {"cpe", ""}>>, <<"rhsa", {"other"}>>, <<"rhsa", {"cpe", "bad"}>>, <<"unaffected", {"cpe"}>>}}

-----------------------------------------------------------------------------
(* What each family's source publishes of some facts. *)
Facts(fixes) == SUBSET {[name |-> n, fixed |-> v] : n \in {"foo", "bar"}, v \in fixes}
Ref(fact) == <<fact.name, fact.fixed>>
Oval(facts, kind, obj(_), platforms) ==
  LET fs == SetToSeq(facts)
  IN  [defs |-> <<[title |-> "d", severity |-> "Important", platforms |-> platforms, tree |-> "top" :>
                    [subs |-> <<>>, criterions |-> [i \in DOMAIN fs |-> Cri(Ref(fs[i]), "")]]]>>,
       tests |-> [t \in {Ref(x) : x \in facts} |->
                    [kind |-> kind, object |-> t[1], state |-> IF t[2] = NoVersion THEN "" ELSE <<"s", t[2]>>]],
       objects |-> [n \in {x.name : x \in facts} |-> [kind |-> kind, name |-> obj(n)]],
       states |-> [st \in {<<"s", x.fixed>> : x \in facts} |-> [kind |-> kind, evr |-> st[2], arch |-> {}, archOp |-> ""]],
       variables |-> "v_foo" :> {"foo", "foo-dev"}]
Rpm(facts, platforms) == LET plain(n) == n IN Oval(facts, "rpm", plain, platforms)
Dpkg(facts) == LET named(n) == IF n = "foo" THEN [ref |-> "v_foo", body |-> ""] ELSE [ref |-> "", body |-> n]
               IN  Oval(facts, "dpkg", named, {})

Has(fam, version) ==
  [name |-> IF fam \in {"alpine", "debian"} THEN "libfoo" ELSE "foo", kind |-> "binary", module |-> "", arch |-> "x86_64",
   source |-> IF fam \in {"alpine", "debian"} THEN [S!zeroPackage EXCEPT !.name = "foo", !.kind = "source", !.version = version] ELSE None,
   version |-> version, kindOfVersion |-> IF fam = "python" THEN "pep440" ELSE "", minor |-> 0, db |-> "db", hint |-> "", path |-> <<>>]
Publication(fam, facts, doc, rel, layer, same, version) ==
  [fam |-> fam, facts |-> facts, doc |-> doc, rel |-> rel, layer |-> layer, sameRelease |-> same, pkg |-> Has(fam, version),
   sources |-> <<"buster", "foo">> :> {"libfoo", "foo-dev"} @@ <<"jessie", "foo">> :> {"libfoo"}]

Debians == {<<<<"8">>, "jessie">>, <<<<"1", "0">>, "buster">>}
AllFixes == {NoVersion, 1, 2}
MCPublications ==
  {Publication("alpine", fs, {[id |-> "CVE", pkg |-> x.name, fixedIn |-> x.fixed] : x \in fs}, N310,
               AlpineLayer(at \o <<".", "1">>, at), at = N310, v) : fs \in Facts({0, 1, 2}), at \in {N310, <<"3", ".", "9">>}, v \in 1..2}
  \cup {Publication("debian", fs, {[id |-> "CVE", src |-> x.name, release |-> "buster", fixed |-> x.fixed, urgency |-> IF x.fixed = 2 THEN "high" ELSE "low"] : x \in fs},
                    "", DebianLayer(at[1], at[2], TRUE), at[2] = "buster", v) : fs \in Facts({NoVersion, 0, 2}), at \in Debians, v \in 1..2}
  \cup {Publication("ubuntu", fs, Dpkg(fs), <<<<"1", "8", ".", "0", "4">>, "bionic">>, UbuntuLayer(at[1], at[2], TRUE), at[2] = "bionic", v) :
           fs \in Facts(AllFixes), at \in MCUbuntu, v \in 1..2}
  \cup {Publication("aws", fs, {[id |-> "ALAS", dated |-> TRUE, severity |-> "low", packages |->
                                   {[name |-> x.name, version |-> x.fixed, arch |-> ar] : ar \in {"x86_64", "i686"}}] : x \in fs}, "linux2",
                    Text("os-release", at[1], at[2]), at[1] = "Amazon Linux", v) :
           fs \in Facts({1, 2}), at \in {<<"Amazon Linux", <<"2">>>>, <<"Amazon Linux AMI", <<"2", "0", "1", "8", ".", "0", "3">>>>}, v \in 1..2}
  \cup {Publication("oracle", fs, Rpm(fs, {"7", "other"}), "", Text("os-release", "Oracle Linux Server", <<at>>), at = "7", v) :
           fs \in Facts(AllFixes), at \in {"6", "7"}, v \in 1..2}
  \cup {Publication("photon", fs, Rpm(fs, {}), "2", Text("photon-release", "VMware Photon OS", <<at, ".", "0">>), at = "2", v) :
           fs \in Facts(AllFixes), at \in {"2", "3"}, v \in 1..2}
  \cup {Publication("suse", fs, Rpm(fs, {}), <<"1", "5", ".", "0">>, Text("os-release", "openSUSE Leap", at), Len(at) = 4 /\ at[4] = "0", v) :
           fs \in Facts(AllFixes), at \in {<<"1", "5", ".", "0">>, <<"1", "5", ".", "1">>}, v \in 1..2}
  \cup {Publication("python", fs, {[id |-> "pyup", name |-> x.name, spec |-> IF x.fixed = NoVersion THEN {<<">=", 0>>} ELSE {<<"<", x.fixed>>}] : x \in fs},
                    "", OldAlpine, TRUE, v) : fs \in Facts(AllFixes), v \in 1..2}

-----------------------------------------------------------------------------
Tag(a, b, rev) == [ver |-> <<a, b>>, rev |-> <<rev>>]
Release(tag) == [container |-> TRUE, pkg |-> "c", advisory |-> "RHSA", severity |-> "Low", tag |-> tag]
MCContainers ==
  {[releases |-> [i \in DOMAIN rs |-> Release(rs[i])], tag |-> Tag(a, b, r)] :
     rs \in {<<Tag(4, 7, 2)>>, <<Tag(4, 7, 2), Tag(4, 9, 2)>>, <<Tag(4, 9, 1), Tag(4, 7, 2), Tag(5, 0, 2)>>},
     a \in {3, 4, 5}, b \in {0, 7, 8, 9}, r \in 1..3}

Event(kind, v) == [kind |-> kind, version |-> v]
Upper == {<<"fixed", 3>>, <<"last_affected", 3>>}
MCIntervals ==
  {[version |-> v,
    inside |-> v >= lo /\ (IF up[1] = "fixed" THEN v < up[2] ELSE v <= up[2]),
    advisory |-> [id |-> "GHSA", withdrawn |-> FALSE, affected |->
      <<[ecosystem |-> "Maven", name |-> "a", purl |-> "pkg:a", ranges |->
          LET r == [type |-> "ECOSYSTEM", events |-> <<Event("introduced", lo), Event(up[1], up[2])>>]
              g == [type |-> "GIT", events |-> <<Event("introduced", 0)>>]
          IN  IF git THEN <<g, r, g>> ELSE <<r>>]>>]] :
     v \in 1..4, lo \in {0, 2}, up \in Upper, git \in BOOLEAN}

-----------------------------------------------------------------------------
Spelled(release, l, n, post, dev) ==
  [epoch |-> V!Absent, release |-> release, preL |-> l, preN |-> n, post |-> post, dev |-> dev]
(* Of one version's dev releases after a pre- or post-release only one. *)
Spellings ==
  {v \in {Spelled(rel, pre[1], pre[2], post, dev) :
     rel \in {<<1>>, <<1, 0>>, <<1, 1>>, <<1, 0, 1>>}, pre \in {<<"", V!Absent>>, <<"alpha", 1>>, <<"c", 1>>},
     post \in {V!Absent, 1}, dev \in {V!Absent, 1, 2}} : v.dev = 2 => v.preL = "" /\ v.post = V!Absent}
MCPep440Pairs == Spellings \X Spellings

Num(n) == [kind |-> "num", n |-> n, s |-> ""]
Word(w) == [kind |-> "word", n |-> 0, s |-> w]
Dot == [kind |-> "dot", n |-> 0, s |-> ""]
Dash == [kind |-> "dash", n |-> 0, s |-> ""]
MavenStrings ==
  LET release == {<<Num(n)>> : n \in 0..1} \cup {<<Num(1), Dot, Num(n)>> : n \in 0..1}
      odd == {<<Num(1), Word("rc"), Num(1)>>, <<Word("rc"), Dash, Num(1)>>, <<Num(1), Dot, Dot, Num(1)>>,
              <<Word("rc"), Dot, Dot, Num(1)>>, <<Num(1), Dash, Num(1)>>, <<Num(1), Dash, Dash, Word("jre")>>}
  IN  release \cup odd \cup {r \o <<Dash, Word(w)>> : r \in release, w \in {"rc", "final", "sp", "jre", "snapshot"}}
MCMavenPairs == MavenStrings \X MavenStrings

-----------------------------------------------------------------------------
(* What two scanners stored, in three calls. *)
Art(name, source, kind) ==
  [name |-> name, kind |-> "binary", version |-> 1, module |-> "", arch |-> "", source |-> source, kindOfVersion |-> kind, minor |-> 1,
   db |-> "db", hint |-> "", path |-> <<>>]
SourceArt == [S!zeroPackage EXCEPT !.name = "a", !.kind = "source", !.version = 1]
Haul(l, s, pkgs, n) ==
  [layer |-> l, scnr |-> s, pkgs |-> pkgs, dists |-> SubSeq(<<"d1", "d2", "d3">>, 1, n),
   repos |-> SubSeq(<<[name |-> "r1", key |-> "", uri |-> "", cpe |-> ""], [name |-> "r1", key |-> "k", uri |-> "", cpe |-> "c"]>>, 1, n % 3),
   files |-> SubSeq(<<"f1", "f2", "f3">>, n, 3)]
Hauls ==
  {Haul(l, s, pkgs[1], pkgs[2]) : l \in {"l1", "l2"}, s \in {"s1", "s2"},
     pkgs \in {<<<<>>, 1>>, <<<<Art("a", None, ""), Art("b", SourceArt, "")>>, 2>>, <<<<Art("a", SourceArt, "pep440"), Art("", None, ""), Art("a", None, "pep440")>>, 3>>,
              <<<<Art("c", SourceArt, "pep440"), Art("b", None, ""), Art("a", None, "rhctag")>>, 3>>}}
MCStored == {<<h>> : h \in Hauls} \cup (Hauls \X Hauls)

-----------------------------------------------------------------------------
(* Images of files.  A part of one is its files, and what they install: a  *)
(* name, a version, a module, a source, a distribution and a repository.   *)
Entry(type, kind, rank, body) == [type |-> type, kind |-> kind, rank |-> rank, body |-> body]
Reg(kind, rank, body) == Entry("file", kind, rank, body)
Piece(files, says) == [files |-> files, says |-> says]
VarLib(names) == <<"var", "lib">> \o names

(* Package databases, from sequences of <<name, version, source>>. *)
Apk(ps, did) ==
  Piece(F!installedFile :> Reg("", 1, [i \in DOMAIN ps |-> LET p == ps[i] IN
          <<<<"C", "sum">>, <<"P", p[1]>>, <<"V", <<p[2]>>>>, <<"A", "x86_64">>, <<"o", p[3]>>, <<"c", "commit">>, <<"R", "file">>>>]),
        {<<p[1], <<p[2]>>, "", p[3], did, "">> : p \in ToSet(ps)})
Headers(p) == "Package" :> p[1] @@ "Version" :> <<p[2]>> @@ "Architecture" :> "amd64" @@ (IF p[3] = "" THEN <<>> ELSE "Source" :> p[3])
Block(hdr, end) == [hdr |-> hdr, end |-> end]
DpkgStatus(ps, did) ==
  LET on == {"install", "ok", "installed"} off == {"deinstall", "ok", "config-files"}
      removed == Block(Headers(<<"gone", 1, "">>) @@ "Status" :> off, "blank")
      garbled == Block(Headers(<<"half", 1, "">>), "bad")
  IN  Piece(VarLib(<<"dpkg", "status">>) :> Reg("", 2, <<removed, garbled, Block(<<>>, "blank")>>
                                                     \o [i \in DOMAIN ps |-> Block(Headers(ps[i]) @@ "Status" :> on, "blank")])
            @@ VarLib(<<"dpkg", "info">>) :> Entry("dir", "", 1, <<>>)
            @@ VarLib(<<"dpkg", "info", "libc6:amd64.md5sums">>) :> Reg("md5sums", 1, [of |-> "libc6", sum |-> "md5"])
            @@ <<"opt", "status">> :> Reg("", 3, <<>>),
            {<<p[1], <<p[2]>>, "", p[3], did, "">> : p \in ToSet(ps)})
StatusD(ps, did) ==
  Piece([f \in {VarLib(<<"dpkg", "status.d", p[1]>>) : p \in ToSet(ps)} |->
           Reg("", 1, <<Block(Headers(CHOOSE p \in ToSet(ps) : p[1] = Last(f)), "eof")>>)]
        @@ VarLib(<<"dpkg", "status.d">>) :> Entry("dir", "", 1, <<>>),
        {<<p[1], <<p[2]>>, "", p[3], did, "">> : p \in ToSet(ps)})
Rpms(base, ps, did, repos) ==
  LET info(p) == [name |-> p[1], epoch |-> p[2] - 1, version |-> p[2], release |-> 1, arch |-> "x86_64", module |-> <<"m:1", p[2] = 2>>,
                  digest |-> "d", algo |-> 8, keys |-> <<"k">>, nevr |-> [name |-> p[3], version |-> <<0, p[2], 1>>]]
      key == [info(<<"gpg-pubkey", 1, "(none)">>) EXCEPT !.nevr.version = <<>>]
      stale == Reg("", 9, [magic |-> FALSE, sound |-> FALSE, headers |-> <<>>])
      says(p, r) == <<p[1], IF p[2] = 1 THEN <<1, 1>> ELSE <<p[2] - 1, p[2], 1>>, IF p[2] = 2 THEN "m:1" ELSE "", p[3], did, r>>
  IN  Piece(VarLib(<<"rpm", base>>) :> Reg("", 1, [magic |-> TRUE, sound |-> TRUE, headers |-> <<key>> \o [i \in DOMAIN ps |-> info(ps[i])]])
            @@ <<"usr", "Packages">> :> stale,
            UNION {{says(p, r) : r \in repos} : p \in ToSet(ps)})

(* Language packages. *)
Wheel(dir, installer, kind) ==
  LET d == <<"usr">> \o dir \o <<"Req">>
      says == IF installer \in {"dpkg", "rpm"} /\ kind = "wheel" THEN {} ELSE {<<"req", <<1>>, "", "", "", "pypi">>}
  IN  Piece(Append(d, "METADATA") :> Reg(kind, 1, [lower |-> "req", version |-> <<1>>]) @@ Append(d, "INSTALLER") :> Reg("", 1, installer), says)
Jarred(sha) == [small |-> FALSE, zip |-> TRUE, sha |-> sha, named |-> <<>>, javax |-> FALSE, metainf |-> TRUE, poms |-> <<>>, manifest |-> <<>>, inner |-> <<>>]
Pom(a, v) == "groupId" :> "g" @@ "artifactId" :> a @@ "version" :> v
Manifest(t, v) == "Manifest-Version" :> <<1>> @@ "Implementation-Vendor" :> <<"Some", "Vendor">> @@ "Specification-Vendor" :> <<"g">>
                  @@ "Bundle-Name" :> <<t>> @@ "Implementation-Version" :> v
Jar(z, says) == Piece(<<"opt", "app.jar">> :> Reg("archive", 1, z), {<<p[1], p[2], "", "", "", "maven">> : p \in says})
Jars ==
  {Jar([Jarred("s1") EXCEPT !.poms = <<Pom("a", <<1>>), Pom("b", <<2>>)>>, !.manifest = <<Manifest("c", <<3>>)>>], {<<"g:a", <<1>>>>, <<"g:b", <<2>>>>}),
   Jar([Jarred("s1") EXCEPT !.poms = <<Pom("a", <<1>>), "version" :> <<1>>>>, !.manifest = <<Manifest("c", <<3>>)>>], {<<"g:c", <<3>>>>}),
   Jar([Jarred("s2") EXCEPT !.manifest = <<Manifest("c", <<3>>)>>, !.inner = <<[Jarred("s3") EXCEPT !.named = <<"n", <<4>>>>, !.javax = TRUE, !.metainf = FALSE], Jarred("s4")>>],
       {<<"g:c", <<3>>>>, <<"g:found", <<5>>>>}),
   Jar([Jarred("s1") EXCEPT !.named = <<"n", <<4>>>>, !.manifest = <<"Name" :> <<"x">>>>], {<<"n", <<4>>>>}),
   Jar([Jarred("s1") EXCEPT !.named = <<"n", <<4>>>>, !.metainf = FALSE], {}), Jar([Jarred("s1") EXCEPT !.zip = FALSE], {}), Jar([Jarred("s1") EXCEPT !.small = TRUE], {})}
Others ==
  {Piece(<<"gems", "specifications", "rake.gemspec">> :> Reg("gemspec", 1, <<"name" :> "rake", "version" :> <<1>>, "version" :> <<2>>>>),
         {<<"rake", <<2>>, "", "", "", "rubygems">>}),
   Piece(<<"gems", "specifications", "bad.gemspec">> :> Reg("gemspec", 1, <<"name" :> "bad">>), {}),
   Piece(<<"bin", "go">> :> Reg("exe", 1, [readable |-> TRUE, binary |-> TRUE, go |-> TRUE, buildinfo |->
           [goVersion |-> <<1>>, main |-> <<"main", <<1>>>>, deps |-> {<<"dep", <<1>>>>}]]), {}),
   Piece(<<"tmp", ".wh.a">> :> Entry("file", "whiteout", 1, "a") @@ <<"tmp", "Req.egg-info">> :> Reg("egg-info", 1, [lower |-> "req", version |-> <<BadVersion>>]), {})}
Dockerfile(rank, dashes, labels) ==
  Reg("Dockerfile", rank, [dashes |-> dashes, sound |-> TRUE, vr |-> <<4, 7, 1>>, labels |->
        "com.redhat.component" :> "ubi-container" @@ "architecture" :> "x86_64" @@ labels])
Catalog(name, source) == <<name, <<4, 7, 1>>, "", source, "", "Red Hat Container Catalog">>
Container(name, ships) ==
  Piece(<<"root", "buildinfo", "Dockerfile-ubi8-4.7-1">> :> Dockerfile(2, 3, "name" :> name),
        {Catalog("ubi-container", "")} \cup {Catalog(n, "ubi-container") : n \in ships})
ContentSets(sets, sound) ==
  Piece(<<"root", "buildinfo", "content_manifests", "ubi.json">> :> Reg("content manifest", 1, [sound |-> sound, sets |-> sets]), {})

(* The services: two builds are known to the API, one by its Dockerfile. *)
Cpes == "ubi8" :> {"rhel8/ubi", "ubi8"}
Net ==
  [maven |-> [on |-> TRUE, down |-> FALSE, docs |-> "s3" :> {[id |-> 1, group |-> "g", artifact |-> "found", version |-> <<5>>],
                                                            [id |-> 2, group |-> "g", artifact |-> "else", version |-> <<6>>]}],
   names |-> Cpes, mapping |-> "rhel-8-baseos" :> {"cpe:8:baseos"} @@ "rhel-8-extra" :> {"cpe:8:extra", "bad"},
   api |-> <<"ubi-container", <<4, 7, 1>>>> :> <<[arch |-> "s390x", cpes |-> {"cpe:z"}], [arch |-> "x86_64", cpes |-> {"cpe:8:api"}]>>]

(* A base image: the layer's release files, its files, and the upper layer *)
(* that an upgrade makes, which removes a package and changes another (but *)
(* removes none where each package has a file of its own).                 *)
RhelOs == Text("redhat-release", "Red Hat Enterprise Linux release", <<"8", ".", "3">>)
AmazonOs == Text("os-release", "Amazon Linux", <<"2">>)
NoOs == Layer(A!NoFile, A!NoFile, <<>>)
Both(p1, p2) == Piece(p1.files @@ p2.files, p1.says \cup p2.says)
Nothing == Piece(<<>>, {})
Of2 == <<<<"a", 1, "src">>, <<"b", 2, "src">>>>
Upgraded == <<<<"a", 2, "src">>>>
BaseImage(os, owner, piece, upgrade) == [os |-> os, owner |-> owner, piece |-> piece, upgrade |-> upgrade]
BaseImages ==
  {BaseImage(NoOs, "", Nothing, Nothing),
   BaseImage(AlpineLayer(N310 \o <<".", "3">>, N310), "", Apk(Of2, "alpine"), Apk(Upgraded, "alpine")),
   BaseImage(OldAlpine, "", Apk(Of2, "alpine"), Apk(Upgraded, "alpine")),
   BaseImage(DebianLayer(<<"8">>, "jessie", FALSE), "dpkg", DpkgStatus(Of2, "debian"), DpkgStatus(Upgraded, "debian")),
   BaseImage(DebianLayer(<<"8">>, "jessie", FALSE), "", StatusD(<<<<"a", 1, "">>, <<"b", 2, "src">>>>, "debian"),
             Piece(StatusD(<<<<"a", 2, "">>>>, "debian").files, StatusD(<<<<"a", 2, "">>, <<"b", 2, "src">>>>, "debian").says)),
   BaseImage(DebianLayer(<<"1", "0">>, "buster", TRUE), "dpkg", DpkgStatus(Of2, "debian"), DpkgStatus(Upgraded, "debian")),
   BaseImage(UbuntuLayer(<<"1", "8", ".", "0", "4">>, "bionic", TRUE), "dpkg", DpkgStatus(Of2, "ubuntu"), DpkgStatus(Upgraded, "ubuntu")),
   BaseImage(RhelOs, "rpm", Both(Rpms("Packages", Of2, "rhel", {"cpe:8:baseos"}), ContentSets({"rhel-8-baseos", "unknown"}, TRUE)),
             Both(Rpms("Packages", Upgraded, "rhel", {"cpe:8:extra"}), ContentSets({"rhel-8-extra"}, TRUE))),
   BaseImage(RhelOs, "rpm", Both(Rpms("rpmdb.sqlite", Of2, "rhel", {"cpe:8:api"}), Container("ubi8", {"rhel8/ubi", "ubi8"})),
             Piece(Rpms("rpmdb.sqlite", Upgraded, "rhel", {"cpe:8:api"}).files,
                   Rpms("rpmdb.sqlite", Upgraded, "rhel", {"cpe:8:api"}).says \cup Container("ubi8", {"rhel8/ubi", "ubi8"}).says)),
   BaseImage(AmazonOs, "rpm", Rpms("Packages", Of2, "amzn", {""}), Rpms("Packages", Upgraded, "amzn", {""}))}

(* What is put on a base image: `mine' is the package manager whose own    *)
(* directory it is put in.                                                 *)
AddOn(piece, mine) == [piece |-> piece, mine |-> mine]
AddOns ==
  {AddOn(p, "none") : p \in Jars \cup Others \cup {Nothing}}
  \cup {AddOn(Wheel(<<"local", "lib", "python3.9">>, i, k), "none") : i \in {"pip", "dpkg", "rpm"}, k \in {"wheel", "egg"}}
  \cup {AddOn(Wheel(<<"lib", "python3">>, "", k), "dpkg") : k \in {"wheel", "egg-info dir"}}
  \cup {AddOn(Wheel(<<"lib64", "python3.9">>, "", k), "rpm") : k \in {"wheel", "egg-info dir"}}

File1(hash, os, files) == os @@ [hash |-> hash, files |-> files]
Image(layers, says) == [layers |-> layers, net |-> Net, fails |-> FALSE, installed |-> says, deleted |-> {}]
InOneLayer(b, a) ==
  Image(<<File1("l1", b.os, b.piece.files @@ a.piece.files)>>, b.piece.says \cup (IF a.mine = b.owner THEN {} ELSE a.piece.says))
InTwo(b, a) ==
  Image(<<File1("l1", b.os, b.piece.files), File1("l2", NoOs, a.piece.files)>>, b.piece.says \cup a.piece.says)
(* The upper layer of an upgrade also holds the add-on. *)
UpgradedTo(b, a) ==
  Image(<<File1("l1", b.os, b.piece.files), File1("l2", NoOs, b.upgrade.files @@ a.piece.files)>>,
        b.upgrade.says \cup (IF a.mine = b.owner THEN {} ELSE a.piece.says))
(* A layer deletes the add-on by the directory it is in; another may bring *)
(* it back.                                                                *)
Deleting(a) == LET top == Head(CHOOSE f \in DOMAIN a.piece.files : TRUE)
               IN  File1("l2", NoOs, <<".wh.top">> :> Entry("file", "whiteout", 1, top))
Removed(b, a) ==
  LET put == InOneLayer(b, a)
  IN  [put EXCEPT !.layers = Append(@, Deleting(a)), !.installed = b.piece.says, !.deleted = put.installed \ b.piece.says]
BroughtBack(b, a) ==
  Image(<<File1("l1", b.os, b.piece.files @@ a.piece.files), Deleting(a), File1("l3", NoOs, a.piece.files)>>,
        b.piece.says \cup a.piece.says)
Bad(b, files, net) ==
  [layers |-> <<File1("l1", b.os, b.piece.files), File1("l2", NoOs, files)>>, net |-> net, fails |-> TRUE, installed |-> {}, deleted |-> {}]
Broken ==
  LET rpm(sound, hs) == VarLib(<<"rpm", "Packages">>) :> Reg("", 1, [magic |-> TRUE, sound |-> sound, headers |-> hs])
  IN  {Bad(b, x[1], x[2]) : b \in BaseImages, x \in
        {<<rpm(FALSE, <<>>), Net>>, <<ContentSets({}, FALSE).files, Net>>, <<<<>>, [Net EXCEPT !.mapping = None]>>,
         <<Container("ubi8", {}).files, [Net EXCEPT !.api = <<>>]>>, <<Container("ubi8", {}).files, [Net EXCEPT !.names = None]>>}}

MCImages ==
  {InOneLayer(b, a) : b \in BaseImages, a \in AddOns} \cup {InTwo(b, a) : b \in BaseImages, a \in AddOns}
  \cup {UpgradedTo(b, a) : b \in {x \in BaseImages : x.upgrade # Nothing}, a \in AddOns}
  \cup {Removed(b, a) : b \in BaseImages, a \in {x \in AddOns : x.piece.says # {}}}
  \cup {BroughtBack(b, a) : b \in BaseImages, a \in {x \in AddOns : x.piece.says # {} /\ x.mine = "none"}}
  \cup Broken
==============================================================================
