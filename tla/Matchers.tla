------------------------------ MODULE Matchers ------------------------------
(***************************************************************************)
(* Which vulnerabilities a matcher reports for the packages of an index    *)
(* report: IndexReport.IndexRecords, the matchers' Filter, Query and       *)
(* Vulnerable, the vulnerability store's Get, the remote CRDA matcher, and *)
(* the Controller that puts them together.  A version is a natural number, *)
(* ordered as its scheme orders it; NoVersion is "", 0 is "0", BadVersion  *)
(* is a string the scheme's parser refuses.                                *)
(***************************************************************************)
EXTENDS Integers, FiniteSets

NoVersion == -1
BadVersion == -2
None == [none |-> TRUE]      \* a nil *Distribution, *Repository or source

(* "65535:0", later than every version (rhel/matcher.go, aws/matcher.go). *)
Unfixed == 65535

-----------------------------------------------------------------------------
(* A record per environment of a package, and per repository of it. *)
IndexRecords(ir) ==
  UNION {UNION {
    LET dist == IF e.dist \in DOMAIN ir.dists THEN ir.dists[e.dist] ELSE None
    IN  IF e.repos = {}
        THEN {[pkg |-> p, dist |-> dist, repo |-> None]}
        ELSE {[pkg |-> p, dist |-> dist,
               repo |-> IF r \in DOMAIN ir.repos THEN ir.repos[r] ELSE None] : r \in e.repos}
    : e \in ir.envs[p.id]} : p \in ir.pkgs}

-----------------------------------------------------------------------------
(* Filter: the records a matcher is interested in. *)
OfDistribution(r, dids, names) == r.dist # None /\ (r.dist.did \in dids \/ r.dist.name \in names)
FromRepository(r, repository) == r.repo # None /\ r.repo.name = repository

OSReleaseIDs == {"sles", "opensuse", "opensuse-leap"}
OSReleaseNames == {"SLES", "openSUSE Leap"}
goldRepo == "Red Hat Container Catalog"

AlpineFilter(r) == OfDistribution(r, {"alpine"}, {"Alpine Linux"})
AwsFilter(r) == OfDistribution(r, {"amzn"}, {"Amazon Linux", "Amazon Linux AMI"})
DebianFilter(r) == OfDistribution(r, {"debian"}, {"Debian GNU/Linux"})
OracleFilter(r) == OfDistribution(r, {"ol"}, {"Oracle Linux Server"})
PhotonFilter(r) == OfDistribution(r, {"photon"}, {})
SuseFilter(r) == OfDistribution(r, OSReleaseIDs, OSReleaseNames)
UbuntuFilter(r) == OfDistribution(r, {"ubuntu"}, {"Ubuntu"})
RhelFilter(r) == r.repo # None /\ r.repo.key = "rhel-cpe-repository"
RhccFilter(r) == FromRepository(r, goldRepo)
JavaFilter(r) == FromRepository(r, "maven")
PythonFilter(r) == r.pkg.kindOfVersion = "pep440"
CrdaFilter(ecosystem, r) == FromRepository(r, ecosystem)

Filter(m, r) ==
  CASE m = "alpine" -> AlpineFilter(r)
    [] m = "aws" -> AwsFilter(r)
    [] m = "debian" -> DebianFilter(r)
    [] m = "oracle" -> OracleFilter(r)
    [] m = "photon" -> PhotonFilter(r)
    [] m = "suse" -> SuseFilter(r)
    [] m = "ubuntu" -> UbuntuFilter(r)
    [] m = "rhel" -> RhelFilter(r)
    [] m = "rhcc" -> RhccFilter(r)
    [] m = "java" -> JavaFilter(r)
    [] m = "python" -> PythonFilter(r)
    [] OTHER -> CrdaFilter(m, r)

FindInterested(m, records) == {r \in records : Filter(m, r)}

-----------------------------------------------------------------------------
(* Query: the columns, besides the package's name and kind, that must be equal. *)
AlpineQuery == {"did", "name", "pretty"}
AwsQuery == {"did", "versionID"}
DebianQuery == {"did", "name", "version"}
OracleQuery == {"did", "name", "version"}
PhotonQuery == {"did", "name", "version"}
SuseQuery == {"did", "name", "version"}
UbuntuQuery == {"did", "name", "version"}
RhelQuery == {"module", "repository"}
RhccQuery == {"repository"}
JavaQuery == {"repository"}
PythonQuery == {}

Query(m) ==
  CASE m = "alpine" -> AlpineQuery
    [] m = "aws" -> AwsQuery
    [] m = "debian" -> DebianQuery
    [] m = "oracle" -> OracleQuery
    [] m = "photon" -> PhotonQuery
    [] m = "suse" -> SuseQuery
    [] m = "ubuntu" -> UbuntuQuery
    [] m = "rhel" -> RhelQuery
    [] m = "rhcc" -> RhccQuery
    [] m = "java" -> JavaQuery
    [] m = "python" -> PythonQuery

(* rhcc has the database filter by normalized version, and filters again. *)
DbFilter(m) == m = "rhcc"

Constrained(c, r, v) ==
  CASE c = "module" -> v.module = r.pkg.module
    [] c = "repository" -> v.repo = r.repo.name
    [] OTHER -> v.dist[c] = r.dist[c]

InRange(r, v) ==
  /\ v.kindOfVersion = r.pkg.kindOfVersion
  /\ v.range[1] <= r.pkg.minor /\ r.pkg.minor < v.range[2]

BuildGetQuery(r, constraints, dbSide, v) ==
  /\ \/ v.pkg = r.pkg.name /\ v.kind = r.pkg.kind
     \/ r.pkg.source # None /\ v.pkg = r.pkg.source.name /\ v.kind = r.pkg.source.kind
  /\ \A c \in constraints : Constrained(c, r, v)
  /\ dbSide => InRange(r, v)

(* A record that no query can be built for is left out of the batch but    *)
(* not of the loop over its results, which then runs out of them.          *)
GetFails(records) == \E r \in records : r.pkg.name = ""

Get(vulns, records, constraints, dbSide) ==
  [id \in {r.pkg.id : r \in records} |->
     {v \in vulns : \E r \in records : r.pkg.id = id /\ BuildGetQuery(r, constraints, dbSide, v)}]

-----------------------------------------------------------------------------
(* ArchOp.Cmp; b is the set of what a name or a pattern matches, {} for "". *)
ArchCmp(op, a, b) ==
  \/ b = {}
  \/ /\ a # ""
     /\ CASE op = "equals" -> b = {a}
          [] op = "not equals" -> b # {a}
          [] op = "pattern match" -> a \in b
          [] OTHER -> FALSE

(* Vulnerable is "yes", "no", or "error", which ends the whole match. *)
YesIf(b) == IF b THEN "yes" ELSE "no"

RpmVulnerable(lastKnown, p, v) ==
  YesIf(IF v.fixed # NoVersion THEN p.version < v.fixed ELSE p.version <= lastKnown)

AndArch(res, p, v) == IF ArchCmp(v.archOp, p.arch, v.arch) THEN res ELSE "no"

(* The last version known to be vulnerable, where none is known to be fixed. *)
RhelVulnerable(p, v) == AndArch(RpmVulnerable(Unfixed, p, v), p, v)
AwsVulnerable(p, v) == AndArch(RpmVulnerable(Unfixed, p, v), p, v)
OracleVulnerable(p, v) == AndArch(RpmVulnerable(v.version, p, v), p, v)
SuseVulnerable(p, v) == AndArch(RpmVulnerable(v.version, p, v), p, v)
PhotonVulnerable(p, v) == RpmVulnerable(v.version, p, v)
RhccVulnerable(p, v) == YesIf(p.version < v.fixed)

DebianVulnerable(p, v) ==
  CASE v.fixed = NoVersion -> "yes"
    [] v.fixed = 0 -> "no"
    [] p.version = BadVersion -> "no"
    [] v.fixed = BadVersion -> "error"
    [] OTHER -> YesIf(p.version < v.fixed)

UbuntuVulnerable(p, v) ==
  CASE v.fixed = NoVersion -> "yes"
    [] BadVersion \in {p.version, v.fixed} -> "error"
    [] v.fixed = 0 -> "yes"
    [] OTHER -> YesIf(p.version < v.fixed)

AlpineVulnerable(p, v) ==
  CASE BadVersion \in {p.version, v.fixed} -> "no"
    [] v.fixed = NoVersion -> "yes"
    [] v.fixed = 0 -> "no"
    [] OTHER -> YesIf(p.version < v.fixed)

(* The bounds are an encoded query: "fixed", or else "lastAffected", is the *)
(* upper one, and a bound that is absent is NoVersion.                      *)
JavaVulnerable(p, v) ==
  LET b == v.bounds
      upper == IF b.fixed # NoVersion THEN b.fixed ELSE b.lastAffected
  IN  CASE b = None -> "yes"
        [] upper = NoVersion -> "error"
        [] BadVersion \in {p.version, upper} -> "error"
        [] b.lastAffected # NoVersion /\ p.version > upper -> "no"
        [] b.fixed # NoVersion /\ p.version >= upper -> "no"
        [] b.introduced = BadVersion -> "error"
        [] OTHER -> YesIf(b.introduced = NoVersion \/ p.version >= b.introduced)

(* pep440's Range.Match: every criterion <<operator, version>> holds. *)
Criterion(c, x) ==
  CASE c[1] = "==" -> x = c[2]
    [] c[1] = "!=" -> x # c[2]
    [] c[1] = "<=" -> x <= c[2]
    [] c[1] = ">=" -> x >= c[2]
    [] c[1] = "<" -> x < c[2]
    [] c[1] = ">" -> x > c[2]

PythonVulnerable(p, v) ==
  YesIf(/\ p.version # BadVersion
        /\ \A c \in v.spec : c[2] # BadVersion /\ Criterion(c, p.version))

Vulnerable(m, r, v) ==
  LET p == r.pkg
  IN  CASE m = "rhel" -> RhelVulnerable(p, v)
        [] m = "aws" -> AwsVulnerable(p, v)
        [] m = "oracle" -> OracleVulnerable(p, v)
        [] m = "suse" -> SuseVulnerable(p, v)
        [] m = "photon" -> PhotonVulnerable(p, v)
        [] m = "rhcc" -> RhccVulnerable(p, v)
        [] m = "debian" -> DebianVulnerable(p, v)
        [] m = "ubuntu" -> UbuntuVulnerable(p, v)
        [] m = "alpine" -> AlpineVulnerable(p, v)
        [] m = "java" -> JavaVulnerable(p, v)
        [] m = "python" -> PythonVulnerable(p, v)

-----------------------------------------------------------------------------
(* Controller.filter asks about every vulnerability of a package once for  *)
(* each of its records, in any order, and keeps the last answer: `last' is *)
(* the record that comes last.                                             *)
FilterVulns(m, last, vulns) ==
  [id \in DOMAIN vulns |-> {v \in vulns[id] : Vulnerable(m, last[id], v) = "yes"}]

LastOf(interested) ==
  LET ids == {r.pkg.id : r \in interested}
  IN  {f \in [ids -> interested] : \A id \in ids : f[id].pkg.id = id}

FilterErrs(m, interested, vulns) ==
  \E r \in interested : \E v \in vulns[r.pkg.id] : Vulnerable(m, r, v) = "error"

(* What Controller.Match may return for a matcher that asks the store. *)
Error == [error |-> TRUE]

MatchStore(m, vulns, records) ==
  LET interested == FindInterested(m, records)
      found == Get(vulns, interested, Query(m), DbFilter(m))
  IN  CASE interested = {} -> {<<>>}
        [] GetFails(interested) -> {Error}
        [] FilterErrs(m, interested, found) -> {Error}
        [] OTHER -> {FilterVulns(m, last, found) : last \in LastOf(interested)}

(* The remote matcher asks in batches of batchSize records; what a batch   *)
(* that fails asked for is left out.  Answers go to the last record of     *)
(* their name and version.  `advice' gives the service's answers.          *)
Answered(interested, batchSize) ==
  {a \in SUBSET interested : Cardinality(a) % batchSize \in {0, Cardinality(interested) % batchSize}}

QueryRemoteMatcher(advice, interested, answered) ==
  LET key(r) == <<r.pkg.name, r.pkg.version>>
      asked == {key(r) : r \in answered}
      last == {f \in [{key(r) : r \in interested} -> interested] : \A k \in DOMAIN f : key(f[k]) = k}
  IN  {[id \in {f[k].pkg.id : k \in asked} |->
          UNION {IF k \in DOMAIN advice THEN advice[k] ELSE {} : k \in {a \in asked : f[a].pkg.id = id}}]
       : f \in last}

batchSize == 10

(* Controller.Match: an error of the remote matcher is an empty result. *)
ControllerMatch(m, vulns, advice, records) ==
  LET interested == FindInterested(m, records)
  IN  IF m \in {"maven", "pypi"}
      THEN IF interested = {} THEN {<<>>}
           ELSE UNION {QueryRemoteMatcher(advice, interested, a) : a \in Answered(interested, batchSize)}
      ELSE MatchStore(m, vulns, records)
=============================================================================
