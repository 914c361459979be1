------------------------------- MODULE Feeds --------------------------------
(***************************************************************************)
(* How updaters decide whether their source has anything new: the Fetch    *)
(* of every updater, run again and again against a server that publishes   *)
(* while a Fetch is under way.  What a Fetch returns is stored with its    *)
(* fingerprint, and the fingerprint is what the next Fetch is given.       *)
(*                                                                         *)
(* A behaviour is about one kind of updater:                               *)
(*   alpine, ubuntu, rhcc  one file, known by its Etag                     *)
(*   pyupio  the same, but an answer without an Etag keeps the old one     *)
(*   oval    pkg/ovalutil.Fetcher (suse, oracle, photon, rhel)             *)
(*   debian  one file known by its date, and the Sources files             *)
(*   aws     a checksum from one mirror, the contents from another         *)
(*   cvss    a checksum and a file for each year                           *)
(*   osv     a list of ecosystems and a file for each                      *)
(***************************************************************************)
EXTENDS Integers, FiniteSets

(* The updaters that fetch one file. *)
Single == {"alpine", "ubuntu", "rhcc", "pyupio", "oval", "debian"}

CONSTANTS
  Kinds,
  Parts,      \* Sources files, years or ecosystems
  Mirrors,
  MaxVer,     \* bound: versions of a file
  MaxFault    \* bound: failed requests, restarts and changes of the server's ways

ASSUME FeedsAssumption ==
  /\ Kinds \subseteq Single \union {"aws", "cvss", "osv"}
  /\ IsFiniteSet(Parts) /\ Parts \cap {"db", "list"} = {}
  /\ IsFiniteSet(Mirrors) /\ Mirrors # {}
  /\ MaxVer \in Nat \ {0} /\ MaxFault \in Nat

VARIABLES
  kind,
  srv,      \* the version of every file; 0 is a file that is not there yet
  mirror,   \* the version a mirror has
  tagged,   \* the server sends Etag and Last-Modified
  honours,  \* the server answers 304
  stored,   \* the contents and the fingerprint of the last operation
  mapped,   \* debian: what sourcesMap has read of a Sources file
  etagMap,  \* debian: sourcesMap.etagMap
  f,        \* the Fetch under way
  fault

vars == <<kind, srv, mirror, tagged, honours, stored, mapped, etagMap, f, fault>>
server == <<srv, mirror, tagged, honours>>
sources == <<mapped, etagMap>>

(* The files a kind of updater reads.                                      *)
Files == CASE kind = "debian"          -> {"db"} \union Parts
           [] kind \in {"cvss", "osv"} -> Parts
           [] OTHER                    -> {"db"}

Names == Parts \union {"db", "list"}
None == [x \in Names |-> 0]

(* Fingerprints: a validator for every file that has one, and ovalutil's   *)
(* date.                                                                   *)
NoFp == [tag |-> None, date |-> 0, known |-> {}]

Idle == [pc |-> "idle", res |-> "none", start |-> None, todo |-> {}, got |-> None,
         fp |-> NoFp, whole |-> TRUE]

Init ==
  /\ kind \in Kinds
  /\ srv \in [Names -> {0, 1}] /\ srv["list"] = 1
  /\ \A x \in Names \ {"list"} : /\ x \notin Files => srv[x] = 0
                               /\ (x \in Files /\ kind \notin {"cvss", "osv"}) => srv[x] = 1
  /\ mirror = [m \in Mirrors |-> 1]
  /\ tagged = TRUE
  /\ honours \in BOOLEAN
  /\ stored = [data |-> None, fp |-> NoFp, whole |-> TRUE, list |-> {}]
  /\ mapped = [x \in Parts |-> 0]
  /\ etagMap = [x \in Parts |-> 0]
  /\ f = Idle
  /\ fault = 0

Fault == fault < MaxFault /\ fault' = fault + 1

-----------------------------------------------------------------------------
(* The server.                                                             *)
Publish(x) ==
  /\ x \in Files /\ srv[x] < MaxVer
  /\ srv' = [srv EXCEPT ![x] = @ + 1,
                        !["list"] = IF kind = "osv" /\ srv[x] = 0 THEN @ + 1 ELSE @]
  /\ UNCHANGED <<kind, mirror, tagged, honours, stored, sources, f, fault>>

Sync(m) ==
  /\ kind = "aws" /\ mirror[m] < srv["db"]
  /\ mirror' = [mirror EXCEPT ![m] = srv["db"]]
  /\ UNCHANGED <<kind, srv, tagged, honours, stored, sources, f, fault>>

Retag ==
  /\ Fault
  /\ tagged' = ~tagged
  /\ UNCHANGED <<kind, srv, mirror, honours, stored, sources, f>>

(* The answer to a GET of a file, conditional when the tag is not 0.       *)
Header(x) == IF tagged THEN srv[x] ELSE 0
NotModified(x, tag) == honours /\ tagged /\ tag # 0 /\ tag = srv[x]

-----------------------------------------------------------------------------
Slowest == CHOOSE n \in 1..MaxVer :
             (\E m \in Mirrors : mirror[m] = n) /\ \A m \in Mirrors : mirror[m] >= n

Begin ==
  /\ f.pc = "idle"
  /\ f' = [Idle EXCEPT !.start = IF kind = "aws" THEN [srv EXCEPT !["db"] = Slowest] ELSE srv,
             !.pc = CASE kind \in Single -> "get"
                      [] kind = "aws"  -> "repomd"
                      [] kind = "cvss" -> "meta"
                      [] kind = "osv"  -> "list",
             !.todo = IF kind = "cvss" THEN Parts ELSE {}]
  /\ UNCHANGED <<kind, server, stored, sources, fault>>

Return(r) == f' = [f EXCEPT !.pc = "idle", !.res = r]

(* The operation is stored with the fingerprint.                           *)
Store(data, fp, whole, list) ==
  /\ stored' = [data |-> data, fp |-> fp, whole |-> whole, list |-> list]
  /\ Return("new")

(* A request fails, the status is not one the code expects, a body ends    *)
(* early, or what was fetched cannot be parsed: nothing is stored.         *)
Failed ==
  /\ f.pc \notin {"idle", "sources"}
  /\ Fault
  /\ Return("error")
  /\ UNCHANGED <<kind, server, stored, sources>>

-----------------------------------------------------------------------------
(* One file.  Each Fetch says what it returns when its request is          *)
(* answered: Unchanged, or the fingerprint that goes with the contents.    *)
Unchanged == [NoFp EXCEPT !.date = -1]

(* The validator of the hint, and an answer that has the same one although *)
(* its status is 200.                                                      *)
Tag == stored.fp.tag["db"]
SameTag == Tag # 0 /\ (NotModified("db", Tag) \/ Tag = Header("db"))
WithTag(t) == [NoFp EXCEPT !.tag["db"] = t]

AlpineFetch == IF SameTag THEN Unchanged ELSE WithTag(Header("db"))
UbuntuFetch == IF SameTag THEN Unchanged ELSE WithTag(Header("db"))
RhccFetch   == IF SameTag THEN Unchanged ELSE WithTag(Header("db"))

(* pyupio keeps the hint when the answer has no Etag.                      *)
PyupFetch == CASE SameTag           -> Unchanged
               [] Header("db") # 0 -> WithTag(Header("db"))
               [] OTHER            -> WithTag(Tag)

(* ovalutil sends Etag and date, compares the Etag, keeps an old Etag and  *)
(* takes the date as it comes.                                             *)
OvalFetch ==
  IF SameTag \/ (Tag = 0 /\ NotModified("db", stored.fp.date)) THEN Unchanged
  ELSE [WithTag(IF Header("db") # 0 THEN Header("db") ELSE Tag) EXCEPT !.date = Header("db")]

(* debian's validator is Last-Modified.                                    *)
DebianFetch == IF SameTag THEN Unchanged ELSE WithTag(Header("db"))

Answer == CASE kind = "alpine" -> AlpineFetch
            [] kind = "ubuntu" -> UbuntuFetch
            [] kind = "rhcc"   -> RhccFetch
            [] kind = "pyupio" -> PyupFetch
            [] kind = "oval"   -> OvalFetch
            [] kind = "debian" -> DebianFetch

GetUnchanged ==
  /\ f.pc = "get"
  /\ Answer = Unchanged
  /\ Return("unchanged")
  /\ UNCHANGED <<kind, server, stored, sources, fault>>

GetNew ==
  /\ f.pc = "get"
  /\ Answer # Unchanged
  /\ IF kind = "debian"
     THEN f' = [f EXCEPT !.pc = "sources", !.todo = Parts, !.got["db"] = srv["db"], !.fp = Answer]
          /\ UNCHANGED stored
     ELSE Store([None EXCEPT !["db"] = srv["db"]], Answer, TRUE, {})
  /\ UNCHANGED <<kind, server, sources, fault>>

-----------------------------------------------------------------------------
(* debian: sourcesMap.Update runs a fetchSources for every file.           *)
SourceUnchanged(x) ==
  /\ f.pc = "sources" /\ x \in f.todo
  /\ NotModified(x, etagMap[x]) \/ (etagMap[x] # 0 /\ etagMap[x] = Header(x))
  /\ f' = [f EXCEPT !.todo = @ \ {x}]
  /\ UNCHANGED <<kind, server, stored, sources, fault>>

(* The tag is kept before the body is read, and the map only grows.        *)
SourceRead(x) ==
  /\ f.pc = "sources" /\ x \in f.todo
  /\ ~NotModified(x, etagMap[x]) /\ ~(etagMap[x] # 0 /\ etagMap[x] = Header(x))
  /\ etagMap' = [etagMap EXCEPT ![x] = Header(x)]
  /\ \E n \in 0..srv[x] :
       /\ mapped' = [mapped EXCEPT ![x] = IF n > @ THEN n ELSE @]
       /\ IF n = srv[x] THEN f' = [f EXCEPT !.todo = @ \ {x}] /\ UNCHANGED fault
                        ELSE f' = [f EXCEPT !.todo = @ \ {x}, !.res = "error"] /\ Fault
  /\ UNCHANGED <<kind, server, stored>>

(* The request fails, by itself or because another has and ended the       *)
(* group's context.                                                        *)
SourceFailed(x) ==
  /\ f.pc = "sources" /\ x \in f.todo
  /\ (f.res = "error" /\ UNCHANGED fault) \/ Fault
  /\ f' = [f EXCEPT !.todo = @ \ {x}, !.res = "error"]
  /\ UNCHANGED <<kind, server, stored, sources>>

SourcesDone ==
  /\ f.pc = "sources" /\ f.todo = {}
  /\ IF f.res = "error" THEN Return("error") /\ UNCHANGED stored
                        ELSE Store([x \in Names |-> IF x \in Parts THEN mapped[x] ELSE f.got[x]],
                                   f.fp, TRUE, {})
  /\ UNCHANGED <<kind, server, sources, fault>>

(* The process starts again with what is in the database.                  *)
Restart ==
  /\ Fault
  /\ f' = [Idle EXCEPT !.res = "error"]
  /\ mapped' = [x \in Parts |-> 0] /\ etagMap' = [x \in Parts |-> 0]
  /\ UNCHANGED <<kind, server, stored>>

-----------------------------------------------------------------------------
(* aws: each call asks the mirrors in the order of the list until one      *)
(* answers.                                                                *)
Answers(m) ==
  \/ m = (CHOOSE n \in Mirrors : TRUE) /\ UNCHANGED fault
  \/ Fault

RepoMD(m) ==
  /\ f.pc = "repomd" /\ Answers(m)
  /\ IF stored.fp.tag["db"] = mirror[m]
     THEN Return("unchanged")
     ELSE f' = [f EXCEPT !.pc = "updates", !.fp.tag["db"] = mirror[m], !.fp.known = {m}]
  /\ UNCHANGED <<kind, server, stored, sources>>

Updates(m) ==
  /\ f.pc = "updates" /\ Answers(m)
  /\ Store([None EXCEPT !["db"] = mirror[m]], f.fp, m \in f.fp.known, {})
  /\ UNCHANGED <<kind, server, sources>>

-----------------------------------------------------------------------------
(* cvss: the meta files of all years, then the files of all years.  The    *)
(* status is not looked at: the meta file of a year that is not there has  *)
(* no checksum, and its file cannot be read.  Years are asked for in order. *)
Next1(todo) == CHOOSE y \in todo : TRUE

Meta(y) ==
  /\ f.pc = "meta" /\ f.todo # {} /\ y = Next1(f.todo)
  /\ f' = [f EXCEPT !.todo = @ \ {y}, !.fp.tag[y] = srv[y]]
  /\ UNCHANGED <<kind, server, stored, sources, fault>>

(* Mutant: the years that were known before are compared and no other.     *)
MetaDoneOld ==
  /\ f.pc = "meta" /\ f.todo = {}
  /\ IF \A y \in Parts : stored.fp.tag[y] \in {0, f.fp.tag[y]} /\ stored.fp # NoFp
     THEN Return("unchanged")
     ELSE f' = [f EXCEPT !.pc = "json", !.todo = Parts]
  /\ UNCHANGED <<kind, server, stored, sources, fault>>

MetaDone ==
  /\ f.pc = "meta" /\ f.todo = {}
  /\ IF stored.fp.tag = f.fp.tag
     THEN Return("unchanged")
     ELSE f' = [f EXCEPT !.pc = "json", !.todo = Parts]
  /\ UNCHANGED <<kind, server, stored, sources, fault>>

Json(y) ==
  /\ f.pc = "json" /\ f.todo # {} /\ y = Next1(f.todo)
  /\ IF srv[y] = 0 THEN Return("error")
                   ELSE f' = [f EXCEPT !.todo = @ \ {y}, !.got[y] = srv[y]]
  /\ UNCHANGED <<kind, server, stored, sources, fault>>

(* Mutant: the checksums are read after the files.                         *)
JsonDoneLate ==
  /\ f.pc = "json" /\ f.todo = {}
  /\ Store(f.got, [f.fp EXCEPT !.tag = srv], TRUE, {})
  /\ UNCHANGED <<kind, server, sources, fault>>

JsonDone ==
  /\ f.pc = "json" /\ f.todo = {}
  /\ Store(f.got, f.fp, TRUE, {})
  /\ UNCHANGED <<kind, server, sources, fault>>

-----------------------------------------------------------------------------
(* osv: ecosystems.txt, then the file of each ecosystem.                   *)
Ecosystems == {x \in Parts : srv[x] > 0}

List ==
  /\ f.pc = "list"
  /\ IF NotModified("list", stored.fp.tag["list"])
     THEN f' = [f EXCEPT !.pc = "zips", !.todo = stored.fp.known, !.whole = FALSE]
     ELSE f' = [f EXCEPT !.pc = "zips", !.todo = Ecosystems, !.fp.tag["list"] = Header("list")]
  /\ UNCHANGED <<kind, server, stored, sources, fault>>

(* Mutant: an ecosystem's old tag is sent whether the list changed or not. *)
ZipTagged(x) ==
  /\ f.pc = "zips" /\ x \in f.todo
  /\ f' = [f EXCEPT !.todo = @ \ {x},
                    !.got[x] = IF NotModified(x, stored.fp.tag[x]) THEN 0 ELSE srv[x],
                    !.fp.tag[x] = Header(x),
                    !.fp.known = @ \union {x}]
  /\ UNCHANGED <<kind, server, stored, sources, fault>>

(* The tag of an ecosystem is sent only when the list has not changed.     *)
Zip(x) ==
  LET tag == IF f.whole THEN 0 ELSE stored.fp.tag[x] IN
  /\ f.pc = "zips" /\ x \in f.todo
  /\ f' = [f EXCEPT !.todo = @ \ {x},
                    !.got[x] = IF NotModified(x, tag) THEN 0 ELSE srv[x],
                    !.fp.tag[x] = Header(x),
                    !.fp.known = @ \union {x}]
  /\ UNCHANGED <<kind, server, stored, sources, fault>>

ZipsDone ==
  /\ f.pc = "zips" /\ f.todo = {}
  /\ IF f.got = None THEN Return("unchanged") /\ UNCHANGED stored
                     ELSE Store(f.got, f.fp, f.whole, f.fp.known)
  /\ UNCHANGED <<kind, server, sources, fault>>

-----------------------------------------------------------------------------
Fetch ==
  \/ Begin \/ GetUnchanged \/ GetNew \/ SourcesDone \/ MetaDone \/ JsonDone \/ List \/ ZipsDone
  \/ \E x \in Parts : SourceUnchanged(x) \/ SourceRead(x) \/ Meta(x) \/ Json(x) \/ Zip(x)
  \/ \E m \in Mirrors : RepoMD(m) \/ Updates(m)

Next ==
  \/ Fetch
  \/ Failed \/ Restart \/ Retag
  \/ \E x \in Names : Publish(x)
  \/ \E x \in Parts : SourceFailed(x)
  \/ \E m \in Mirrors : Sync(m)

(* The manager calls Fetch periodically, a request is answered, and a      *)
(* mirror follows its origin.                                              *)
Fairness == WF_vars(Fetch) /\ \A m \in Mirrors : WF_vars(Sync(m))

Spec == Init /\ [][Next]_vars
FairSpec == Spec /\ Fairness

-----------------------------------------------------------------------------
(* Every variable stays in its type.                                       *)
TypeOK ==
  /\ kind \in Kinds
  /\ srv \in [Names -> 0..MaxVer + Cardinality(Parts)]
  /\ mirror \in [Mirrors -> 1..MaxVer]
  /\ tagged \in BOOLEAN /\ honours \in BOOLEAN
  /\ stored.data \in [Names -> 0..MaxVer] /\ stored.fp.tag \in [Names -> 0..MaxVer + Cardinality(Parts)]
  /\ mapped \in [Parts -> 0..MaxVer] /\ etagMap \in [Parts -> 0..MaxVer]
  /\ f.pc \in {"idle", "get", "sources", "repomd", "updates", "meta", "json", "list", "zips"}
  /\ f.res \in {"none", "unchanged", "new", "error"}
  /\ fault \in 0..MaxFault

(* When a Fetch says that the database is unchanged, every file of it was  *)
(* stored as the server had it at some moment of that Fetch.  The          *)
(* fingerprint was taken in an earlier Fetch from answers that came at     *)
(* other moments than the contents did.  For aws it is said of contents    *)
(* and checksum from one mirror, for osv of a whole operation, for debian  *)
(* of the database and not of the Sources files.                           *)
UnchangedIsCurrent ==
  (f.pc = "idle" /\ f.res = "unchanged" /\ stored.whole) =>
    \A x \in IF kind = "debian" THEN {"db"} ELSE Files : stored.data[x] >= f.start[x]

(* The fingerprint that is stored names no version later than the contents *)
(* stored with it, so that the next Fetch gets what is missing.  Of two    *)
(* operations that is not so: one of aws with the checksum of one mirror   *)
(* and the contents of another, which may lag behind (client.go:102), and  *)
(* one of osv with the files that changed and no other.  Theirs is not     *)
(* ahead of the server, so that what it publishes next is fetched.         *)
FingerprintNotAhead ==
  \A x \in Names \ {"list"} :
    stored.fp.tag[x] <= IF stored.whole THEN stored.data[x] ELSE srv[x]

(* osv: an operation stored with the tag of ecosystems.txt holds the file  *)
(* of every ecosystem that the fingerprint lists.                          *)
TaggedListIsWhole ==
  (kind = "osv" /\ stored.fp.tag["list"] # 0) =>
    \A x \in stored.list : stored.data[x] > 0

(* What is stored fits the fingerprint it is stored with: see the two      *)
(* above.                                                                  *)
Consistent == TypeOK /\ FingerprintNotAhead /\ TaggedListIsWhole

(* osv: what is stored holds every ecosystem that the updater follows.     *)
StoredWhole ==
  kind = "osv" => \A x \in stored.list : stored.data[x] > 0

(* debian: a Fetch that returns a database leaves a map that holds what    *)
(* the Sources files had when it began.                                    *)
MapComplete ==
  (kind = "debian" /\ f.pc = "idle" /\ f.res = "new") =>
    \A x \in Parts : stored.data[x] >= f.start[x]

(* Once the server publishes no more and requests are answered, what is    *)
(* stored becomes what the server has and stays so: no fingerprint hides   *)
(* a file for good, and the operation of osv becomes whole again.  Not so  *)
(* for aws once checksum and contents came from two mirrors.               *)
Current ==
  \/ \A x \in IF kind = "debian" THEN {"db"} ELSE Files : stored.data[x] = srv[x]
  \/ kind = "aws" /\ ~stored.whole

Converges == (<>[](\A x \in Files : srv[x] > 0)) => <>[]Current
=============================================================================
