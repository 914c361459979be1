------------------------------ MODULE Distros -------------------------------
(***************************************************************************)
(* The distribution scanners and the distributions the updaters file their *)
(* vulnerabilities under.  A layer has an os-release file `osr' and an     *)
(* lsb-release file `lsb', sequences of lines or NoFile, and `text',       *)
(* what the regular expressions see: for each release file, a set  *)
(* of phrases, words followed by a number.  A number is the sequence of    *)
(* its characters; a VERSION is a number and a code name.                  *)
(***************************************************************************)
EXTENDS Matchers, Sequences, SequencesExt

CONSTANTS
  AlpineReleases,      \* what the alpine Factory finds on the server
  DebianReleases,      \* <<number, name>> pairs of the Debian mirror
  UbuntuReleases       \* <<number, name>> pairs of Launchpad

NoFile == [absent |-> TRUE, lines |-> <<>>]
NoCode == [name |-> "", title |-> FALSE]

Dist(did, name, pretty, num, code, id) ==
  [did |-> did, name |-> name, pretty |-> pretty, version |-> <<num, code>>, versionID |-> id]

Phrase(words, num) == [words |-> words, num |-> num]

(* osrelease.Parse: the last line with a key decides; a line without "="   *)
(* is an error, one without a value a panic.                               *)
Line(key, value) == [key |-> key, value |-> value, sep |-> TRUE, empty |-> FALSE]
Malformed(lines) == \E l \in ToSet(lines) : ~l.sep
ParsePanics(lines) == \E l \in ToSet(lines) : l.sep /\ l.empty

Parse(lines) ==
  [k \in {l.key : l \in ToSet(lines)} |-> Last(SelectSeq(lines, LAMBDA l : l.key = k)).value]

(* The value of a key, or "" when the file has no such key. *)
Value(kv, key, empty) == IF key \in DOMAIN kv THEN kv[key] ELSE empty

IsNumber(num) == num # <<>> /\ "." \notin Range(num)

-----------------------------------------------------------------------------
(* Releases that are tables in the code, and the regular expressions that  *)
(* find them, in their order: a phrase that the text must contain, whose   *)
(* number may go on, except in Photon's, which ends in a quote.            *)
AwsDist == [
  linux1 |-> Dist("amzn", "Amazon Linux AMI", Phrase("Amazon Linux AMI", <<"2","0","1","8",".","0","3">>),
                  <<"2","0","1","8",".","0","3">>, NoCode, <<"2","0","1","8",".","0","3">>),
  linux2 |-> Dist("amzn", "Amazon Linux", Phrase("Amazon Linux", <<"2">>), <<"2">>, NoCode, <<"2">>)]

awsRegexes == <<<<"linux1", Phrase("Amazon Linux AMI", <<"2","0","1","8",".","0","3">>)>>,
                <<"linux2", Phrase("Amazon Linux", <<"2">>)>>>>

OracleDist == [n \in {"5", "6", "7", "8"} |->
  Dist("ol", "Oracle Linux Server", Phrase("Oracle Linux Server", <<n>>), <<n>>, NoCode, <<n>>)]

oracleRegexes == <<<<"5", Phrase("Oracle Linux Server release", <<"5">>)>>, <<"6", Phrase("Oracle Linux Server", <<"6">>)>>,
                   <<"7", Phrase("Oracle Linux Server", <<"7">>)>>, <<"8", Phrase("Oracle Linux Server", <<"8">>)>>>>

PhotonDist == [n \in {"1", "2", "3"} |->
  Dist("photon", "VMware Photon OS", Phrase("VMware Photon OS/Linux", <<>>), <<n, ".", "0">>, NoCode, <<n, ".", "0">>)]

photonRegexes == <<<<"1", Phrase("VMware Photon", <<"1", ".", "0">>)>>, <<"2", Phrase("VMware Photon OS", <<"2", ".", "0">>)>>,
                   <<"3", Phrase("VMware Photon OS", <<"3", ".", "0">>)>>>>

SuseDist ==
  [n \in {<<"1","5">>, <<"1","2">>, <<"1","1">>} |->
     Dist("sles", "SLES", Phrase("SUSE Linux Enterprise Server", n), n, NoCode, n)]
  @@ [n \in {<<"1","5",".","1">>, <<"1","5",".","0">>, <<"4","2",".","3">>} |->
     Dist(IF n[1] = "4" THEN "opensuse" ELSE "opensuse-leap", "openSUSE Leap", Phrase("openSUSE Leap", n), n, NoCode, n)]

suseRegexes ==
  LET sles(n) == <<n, Phrase("SUSE Linux Enterprise Server", n)>>
      leap(n) == <<n, Phrase("openSUSE Leap", n)>>
  IN  <<sles(<<"1","5">>), sles(<<"1","2">>), sles(<<"1","1">>),
        leap(<<"1","5",".","1">>), leap(<<"1","5",".","0">>), leap(<<"4","2",".","3">>)>>

(* What a scanner may report: the first expression that matches a file.     *)
(* The files are tried in no fixed order.                                   *)
FirstMatch(regexes, dists, matches(_, _), phrases) ==
  LET hits == {i \in DOMAIN regexes : \E t \in phrases : t.words = regexes[i][2].words /\ matches(regexes[i][2].num, t.num)}
  IN  {dists[regexes[i][1]] : i \in {j \in hits : \A k \in hits : j <= k}}

Starts(num, text) == IsPrefix(num, text)
Equals(num, text) == num = text

ScanAws(l) == FirstMatch(awsRegexes, AwsDist, Starts, l.text["os-release"])
ScanOracle(l) == UNION {FirstMatch(oracleRegexes, OracleDist, Starts, l.text[f]) : f \in {"os-release", "issue"}}
ScanPhoton(l) == UNION {FirstMatch(photonRegexes, PhotonDist, Equals, l.text[f]) : f \in {"os-release", "photon-release"}}
ScanSuse(l) == UNION {FirstMatch(suseRegexes, SuseDist, Starts, l.text[f]) : f \in {"os-release", "SuSE-release"}}

-----------------------------------------------------------------------------
(* Releases that are made up as they are met. *)
AlpineDist(rel) == Dist("alpine", "Alpine Linux", Phrase("Alpine Linux v", rel), <<>>, NoCode, rel)

DebianDist(name, ver) ==
  Dist("debian", "Debian GNU/Linux", Phrase("Debian GNU/Linux", ver), ver, [name |-> name, title |-> FALSE], ver)

UbuntuDist(ver, name) ==
  Dist("ubuntu", "Ubuntu", Phrase("Ubuntu", ver), ver, [name |-> name, title |-> TRUE], ver)

RhelDist(n) == Dist("rhel", "Red Hat Enterprise Linux Server", Phrase("Red Hat Enterprise Linux Server", n), n, NoCode, n)

LastDot(num) == LET dots == {i \in DOMAIN num : num[i] = "."}
                IN  IF dots = {} THEN 0 ELSE CHOOSE i \in dots : \A j \in dots : j <= i

(* alpine: os-release when it says alpine and has a dotted version, or else *)
(* the first two numbers that /etc/issue announces.                         *)
MajorMinor(num) ==
  LET dots == {i \in DOMAIN num : num[i] = "."}
      ends == {i \in DOMAIN num : Cardinality({j \in dots : j <= i}) = 1 /\ num[i] # "."}
  IN  IF ends = {} THEN <<>> ELSE SubSeq(num, 1, CHOOSE i \in ends : \A j \in ends : j <= i)

ScanAlpine(l) ==
  LET kv == IF l.osr = NoFile THEN <<>> ELSE Parse(l.osr.lines)
      vid == Value(kv, "VERSION_ID", <<>>)
      issue == {MajorMinor(t.num) : t \in {p \in l.text["issue"] : p.words = "Alpine Linux"}} \ {<<>>}
  IN  CASE l.osr # NoFile /\ Malformed(l.osr.lines) -> {Error}
        [] Value(kv, "ID", "") = "alpine" /\ LastDot(vid) # 0 ->
             {Dist("alpine", Value(kv, "NAME", ""), Value(kv, "PRETTY_NAME", Phrase("", <<>>)),
                   SubSeq(vid, 1, LastDot(vid) - 1), NoCode, <<>>)}
        [] OTHER -> {Dist("alpine", "Alpine Linux", Phrase("Alpine Linux v", v), v, NoCode, <<>>) : v \in issue}

ScanDebian(l) ==
  LET kv == IF l.osr = NoFile \/ Malformed(l.osr.lines) THEN <<>> ELSE Parse(l.osr.lines)
      name == Value(kv, "VERSION_CODENAME", Value(kv, "VERSION", <<<<>>, NoCode>>)[2].name)
      id == Value(kv, "VERSION_ID", <<>>)
  IN  IF Value(kv, "ID", "") = "debian" /\ name # "" /\ IsNumber(id) THEN {DebianDist(name, id)} ELSE {}

(* ubuntu: lsb-release, or else os-release; the ID is not looked at, and a *)
(* line without "=" is passed over.                                        *)
ScanUbuntu(l) ==
  LET lsb == l.lsb # NoFile
      file == IF lsb THEN l.lsb ELSE l.osr
      kv == IF file = NoFile THEN <<>> ELSE Parse(SelectSeq(file.lines, LAMBDA x : x.sep))
      ver == Value(kv, IF lsb THEN "DISTRIB_RELEASE" ELSE "VERSION_ID", <<>>)
      name == Value(kv, IF lsb THEN "DISTRIB_CODENAME" ELSE "VERSION_CODENAME", "")
  IN  IF name # "" /\ ver # <<>> THEN {UbuntuDist(ver, name)} ELSE {}

(* rhel: the digits after the product's name, in redhat-release first. *)
Major(num) == IF LastDot(num) = 0 THEN num ELSE SubSeq(num, 1, (CHOOSE i \in DOMAIN num :
                num[i] = "." /\ \A j \in 1..(i - 1) : num[j] # ".") - 1)

ScanRhel(l) ==
  LET in(f) == {RhelDist(Major(t.num)) : t \in {p \in l.text[f] :
                  p.words \in {"Red Hat Enterprise Linux", "Red Hat Enterprise Linux release",
                               "Red Hat Enterprise Linux Server", "Red Hat Enterprise Linux Server release"}
                  /\ p.num # <<>>}}
  IN  IF in("redhat-release") # {} THEN in("redhat-release") ELSE in("os-release")

Scan(fam, l) ==
  CASE fam = "alpine" -> ScanAlpine(l)
    [] fam = "debian" -> ScanDebian(l)
    [] fam = "ubuntu" -> ScanUbuntu(l)
    [] fam = "rhel" -> ScanRhel(l)
    [] fam = "aws" -> ScanAws(l)
    [] fam = "oracle" -> ScanOracle(l)
    [] fam = "photon" -> ScanPhoton(l)
    [] fam = "suse" -> ScanSuse(l)

-----------------------------------------------------------------------------
(* The distributions the updaters of each family give their vulnerabilities. *)
AwsUpdaterSet == {AwsDist["linux1"], AwsDist["linux2"]}
OracleUpdaterSet == {OracleDist[n] : n \in {"5", "6", "7", "8"}}
PhotonUpdaterSet == {PhotonDist[n] : n \in {"1", "2", "3"}}
SuseUpdaterSet == {SuseDist[n] : n \in DOMAIN SuseDist \ {<<"4","2",".","3">>}}

UpdaterDists(fam) ==
  CASE fam = "alpine" -> {AlpineDist(r) : r \in AlpineReleases}
    [] fam = "debian" -> {DebianDist(r[2], r[1]) : r \in DebianReleases}
    [] fam = "ubuntu" -> {UbuntuDist(r[1], r[2]) : r \in UbuntuReleases}
    [] fam = "aws" -> AwsUpdaterSet
    [] fam = "oracle" -> OracleUpdaterSet
    [] fam = "photon" -> PhotonUpdaterSet
    [] fam = "suse" -> SuseUpdaterSet

(* The updater distributions whose vulnerabilities the matcher of a family  *)
(* gets for a package of distribution d.                                    *)
FedBy(fam, d) ==
  {u \in UpdaterDists(fam) : /\ Filter(fam, [dist |-> d])
                             /\ \A c \in Query(fam) : u[c] = d[c]}

Families == {"alpine", "aws", "debian", "oracle", "photon", "suse", "ubuntu"}
=============================================================================
