---------------------------- MODULE FeedsProofs -----------------------------
(***************************************************************************)
(* The Fetch of every updater, for any number of Sources files, years,     *)
(* ecosystems and mirrors, any number of versions and of failed requests.  *)
(***************************************************************************)
EXTENDS Feeds, FiniteSetTheorems, WellFoundedInduction, TLAPS

USE FeedsAssumption

PCs == {"idle", "get", "sources", "repomd", "updates", "meta", "json", "list", "zips"}
Vers == 0..MaxVer
Fps == [tag : [Names -> Nat], date : Nat, known : SUBSET (Parts \union Mirrors)]
Fetches == [pc : PCs, res : {"none", "unchanged", "new", "error"}, start : [Names -> Nat],
            todo : SUBSET (Parts \union Mirrors), got : [Names -> Vers], fp : Fps, whole : BOOLEAN]
Stores == [data : [Names -> Vers], fp : Fps, whole : BOOLEAN, list : SUBSET (Parts \union Mirrors)]

(* A new ecosystem is a new version of the list.                           *)
ServerTypes ==
  /\ kind \in Kinds /\ srv \in [Names -> Nat] /\ mirror \in [Mirrors -> 1..MaxVer]
  /\ tagged \in BOOLEAN /\ honours \in BOOLEAN
  /\ \A x \in Names : x # "list" => srv[x] <= MaxVer
  /\ srv["list"] <= 1 + Cardinality(Ecosystems)

Types ==
  /\ ServerTypes
  /\ stored \in Stores /\ f \in Fetches
  /\ mapped \in [Parts -> Vers] /\ etagMap \in [Parts -> Vers]
  /\ fault \in 0..MaxFault

(* Which updater can be where.                                             *)
Where ==
  /\ f.pc = "get" => kind \in Single
  /\ f.pc = "sources" => kind = "debian"
  /\ f.pc \in {"repomd", "updates"} => kind = "aws"
  /\ f.pc \in {"meta", "json"} => kind = "cvss"
  /\ f.pc \in {"list", "zips"} => kind = "osv"
  /\ kind = "osv" => stored.fp.known \subseteq Parts

(* What was seen of the server is not ahead of it.                         *)
Behind(t) == \A x \in Names : t[x] <= srv[x]
Seen ==
  /\ Behind(stored.fp.tag) /\ Behind(f.fp.tag) /\ Behind(f.start)
  /\ kind = "aws" => \A m \in Mirrors : mirror[m] <= srv["db"] /\ f.start["db"] <= mirror[m]

(* The list that a tag names has the ecosystems E, if it is still current. *)
Lists(tag, E) == (tag # 0 /\ tag = srv["list"]) => Ecosystems \subseteq E

(* What is stored fits its fingerprint.                                    *)
NotAhead == stored.whole => \A x \in Names \ {"list"} : stored.fp.tag[x] <= stored.data[x]

Fits ==
  /\ NotAhead /\ TaggedListIsWhole
  /\ stored.whole => stored.fp.date <= stored.data["db"]
  /\ kind = "osv" => Lists(stored.fp.tag["list"], stored.fp.known)

(* What a Fetch has learnt, by where it is.                                *)
Undated(P) == f.fp.date = 0 /\ \A x \in P : f.fp.tag[x] = 0
Started == {x \in Parts : f.start[x] > 0}

AtSources == Undated(Parts) /\ f.fp.tag["db"] <= f.got["db"]
AtRepomd == f.fp = NoFp
AtUpdates == Undated(Parts) /\ \E m \in Mirrors : f.fp.known = {m} /\ f.fp.tag["db"] <= mirror[m]
AtMeta == Undated({"db"}) /\ f.got = None /\ \A y \in Parts \ f.todo : f.fp.tag[y] >= f.start[y]
AtJson == Undated({"db"}) /\ \A y \in Parts \ f.todo : f.fp.tag[y] <= f.got[y]
AtList == f.fp = NoFp /\ f.got = None /\ f.whole
AtZips ==
  LET all == f.todo \union f.fp.known IN
  /\ Undated({"db"} \union (Parts \ f.fp.known)) /\ all \subseteq Parts
  /\ f.whole =>
       /\ \A x \in f.fp.known : f.got[x] > 0 /\ f.fp.tag[x] <= f.got[x]
       /\ f.todo \subseteq Ecosystems /\ Started \subseteq all
       /\ Lists(f.fp.tag["list"], all)
  /\ ~f.whole =>
       /\ f.fp.tag["list"] = 0 /\ Started \subseteq stored.fp.known /\ stored.fp.known \subseteq all
       /\ \A x \in f.fp.known : f.got[x] = 0 => stored.fp.tag[x] >= f.start[x]

Learnt ==
  /\ f.pc = "idle" => UnchangedIsCurrent
  /\ f.pc = "sources" => AtSources
  /\ f.pc = "repomd" => AtRepomd
  /\ f.pc = "updates" => AtUpdates
  /\ f.pc = "meta" => AtMeta
  /\ f.pc = "json" => AtJson
  /\ f.pc = "list" => AtList
  /\ f.pc = "zips" => AtZips

IInv == Types /\ Where /\ Seen /\ Fits /\ Learnt

-----------------------------------------------------------------------------
(* The records of a Fetch.                                                 *)
LEMMA Blank == /\ None \in [Names -> Vers] /\ None \in [Names -> Nat] /\ \A x \in Names : None[x] = 0
               /\ NoFp \in Fps /\ NoFp.tag = None /\ NoFp.date = 0 /\ NoFp.known = {}
               /\ Idle \in Fetches /\ Idle.fp = NoFp /\ Idle.got = None /\ Idle.start = None /\ Idle.whole
<1>1. None \in [Names -> Vers] /\ None \in [Names -> Nat] /\ \A x \in Names : None[x] = 0  BY DEF None, Vers
<1>2. NoFp \in Fps /\ NoFp.tag = None /\ NoFp.date = 0 /\ NoFp.known = {}  BY Zenon, <1>1 DEF NoFp, Fps
<1> QED  BY Zenon, <1>1, <1>2 DEF Idle, Fetches, PCs

(* The fields of a running Fetch.                                          *)
LEMMA FetchFields ==
  ASSUME NEW g \in Fetches
  PROVE  /\ g.pc \in PCs /\ g.start \in [Names -> Nat] /\ g.todo \subseteq Parts \union Mirrors /\ g.got \in [Names -> Vers]
         /\ g.fp \in Fps /\ g.fp.tag \in [Names -> Nat] /\ g.fp.date \in Nat /\ g.fp.known \subseteq Parts \union Mirrors
         /\ g.whole \in BOOLEAN
BY Zenon DEF Fetches, Fps

(* A function that is changed in one place.                                *)
LEMMA Updated ==
  ASSUME NEW S, NEW T, NEW g \in [S -> T], NEW x \in S, NEW v \in T
  PROVE  /\ [g EXCEPT ![x] = v] \in [S -> T] /\ [g EXCEPT ![x] = v][x] = v
         /\ \A z \in S : z # x => [g EXCEPT ![x] = v][z] = g[z]
BY Zenon

(* The fields after one ecosystem's file was read.                         *)
LEMMA ZipFields ==
  ASSUME NEW x \in Parts, NEW v \in Vers, NEW t \in Nat, f \in Fetches,
         f' = [f EXCEPT !.todo = @ \ {x}, !.got[x] = v, !.fp.tag[x] = t, !.fp.known = @ \union {x}]
  PROVE  /\ f' \in Fetches
         /\ f'.pc = f.pc /\ f'.start = f.start /\ f'.whole = f.whole /\ f'.todo = f.todo \ {x}
         /\ f'.got = [f.got EXCEPT ![x] = v] /\ f'.fp.tag = [f.fp.tag EXCEPT ![x] = t]
         /\ f'.fp.known = f.fp.known \union {x} /\ f'.fp.date = f.fp.date
<1>1. x \in Names  BY Zenon DEF Names
<1>2. /\ f'.pc = f.pc /\ f'.start = f.start /\ f'.whole = f.whole /\ f'.todo = f.todo \ {x} /\ f'.res = f.res
         /\ f'.got = [f.got EXCEPT ![x] = v] /\ f'.fp.tag = [f.fp.tag EXCEPT ![x] = t]
         /\ f'.fp.known = f.fp.known \union {x} /\ f'.fp.date = f.fp.date
  BY Zenon DEF Fetches, Fps
<1>3. f' \in Fetches
  <2>1. f'.got \in [Names -> Vers]  BY <1>1, <1>2, FetchFields
  <2>2. f'.fp.tag \in [Names -> Nat]  BY <1>1, <1>2, FetchFields
  <2>3. f'.fp = [f.fp EXCEPT !.tag = [f.fp.tag EXCEPT ![x] = t], !.known = f.fp.known \union {x}]
    BY Zenon DEF Fetches, Fps
  <2>4. f'.fp \in Fps
    <3>1. f.fp.known \union {x} \in SUBSET (Parts \union Mirrors)  BY Zenon, FetchFields
    <3> QED  BY Zenon, <1>2, <2>2, <2>3, <3>1 DEF Fetches, Fps
  <2>5. f.todo \ {x} \in SUBSET (Parts \union Mirrors)  BY Zenon, FetchFields
  <2>6. f' = [f EXCEPT !.todo = f.todo \ {x}, !.got = f'.got, !.fp = f'.fp]
    BY Zenon, <1>2 DEF Fetches, Fps
  <2> QED  BY Zenon, <2>1, <2>4, <2>5, <2>6 DEF Fetches
<1> QED  BY Zenon, <1>2, <1>3

(* The list is no file of an updater.                                      *)
LEMMA FileNames == /\ Files \subseteq Names \ {"list"} /\ Parts \subseteq Names \ {"list"} /\ {"db", "list"} \subseteq Names
                   /\ "db" \notin Parts
<1>1. Parts \subseteq Names \ {"list"} /\ {"db", "list"} \subseteq Names /\ "db" \notin Parts  BY Zenon DEF Names
<1>2. "db" # "list"  BY Zenon
<1> QED  BY Zenon, <1>1, <1>2 DEF Files

(* The invariant holds before the first Fetch.                             *)
LEMMA InitInv == Init => IInv
<1> SUFFICES ASSUME Init PROVE IInv  BY Zenon
<1>1. /\ srv \in [Names -> {0, 1}] /\ srv["list"] = 1 /\ mirror = [m \in Mirrors |-> 1] /\ tagged = TRUE
      /\ honours \in BOOLEAN /\ stored = [data |-> None, fp |-> NoFp, whole |-> TRUE, list |-> {}]
      /\ mapped = [x \in Parts |-> 0] /\ etagMap = [x \in Parts |-> 0] /\ f = Idle /\ fault = 0 /\ kind \in Kinds
      /\ \A x \in Names \ {"list"} : (x \in Files /\ kind \notin {"cvss", "osv"}) => srv[x] = 1
  BY Zenon DEF Init
<1>2. \A x \in Names : srv[x] \in {0, 1} /\ srv[x] \in Nat /\ srv[x] <= MaxVer  BY <1>1
<1>3. Cardinality(Ecosystems) \in Nat
  <2>1. Ecosystems \subseteq Parts  BY Zenon DEF Ecosystems
  <2> QED  BY Zenon, <2>1, FS_Subset, FS_CardinalityType
<1>4. ServerTypes
  <2>1. srv \in [Names -> Nat] /\ mirror \in [Mirrors -> 1..MaxVer]  BY <1>1, <1>2
  <2>2. 1 <= 1 + Cardinality(Ecosystems)  BY <1>3
  <2> QED  BY Zenon, <1>1, <1>2, <2>1, <2>2 DEF ServerTypes
<1>5. /\ stored.data = None /\ stored.fp = NoFp /\ stored.whole = TRUE /\ stored.list = {}
      /\ stored.fp.tag = None /\ stored.fp.date = 0 /\ stored.fp.known = {}
  BY Zenon, <1>1, Blank
<1>6. f \in Fetches /\ f.fp.tag = None /\ f.start = None /\ f.pc = "idle" /\ f.res = "none"
  <2>1. Idle.pc = "idle" /\ Idle.res = "none"  BY Zenon DEF Idle
  <2> QED  BY Zenon, <1>1, <2>1, Blank
<1>7. Types
  <2>1. stored \in Stores  BY Zenon, <1>1, Blank DEF Stores
  <2>2. mapped \in [Parts -> Vers] /\ etagMap \in [Parts -> Vers] /\ fault \in 0..MaxFault  BY <1>1 DEF Vers
  <2> QED  BY Zenon, <1>4, <1>6, <2>1, <2>2 DEF Types
<1>8. Where  BY Zenon, <1>5, <1>6 DEF Where
<1>9. Seen
  <2>1. \A x \in Names : 0 <= srv[x]  BY <1>2
  <2>2. Behind(None)  BY Zenon, <2>1, Blank DEF Behind
  <2>3. ASSUME kind = "aws", NEW m \in Mirrors PROVE mirror[m] <= srv["db"] /\ f.start["db"] <= mirror[m]
    <3>1. "db" \in Files  BY Zenon, <2>3 DEF Files
    <3>2. "db" \in Names \ {"list"} /\ srv["db"] = 1  BY Zenon, <1>1, <2>3, <3>1, FileNames
    <3>3. f.start["db"] = 0 /\ mirror[m] = 1  BY Zenon, <1>1, <1>6, <3>2, Blank
    <3> QED  BY <3>2, <3>3
  <2> QED  BY Zenon, <1>5, <1>6, <2>2, <2>3 DEF Seen
<1>10. Fits
  <2>1. \A x \in Names : None[x] <= None[x] /\ NoFp.date <= None[x]  BY Blank
  <2>2. "list" \in Names /\ "db" \in Names /\ stored.fp.tag["list"] = 0  BY Zenon, <1>5, FileNames, Blank
  <2> QED  BY Zenon, <1>5, <2>1, <2>2 DEF Fits, NotAhead, TaggedListIsWhole, Lists
<1>11. Learnt  BY Zenon, <1>6 DEF Learnt, UnchangedIsCurrent
<1> QED  BY Zenon, <1>7, <1>8, <1>9, <1>10, <1>11 DEF IInv

-----------------------------------------------------------------------------
(* The server moves on: files and mirrors get newer, and the list gets     *)
(* newer when an ecosystem is added.                                       *)
LEMMA ServerStep ==
  ASSUME IInv, ServerTypes', UNCHANGED <<kind, stored, mapped, etagMap, f>>, fault' \in 0..MaxFault,
         \A x \in Names : srv[x] <= srv'[x], \A m \in Mirrors : mirror[m] <= mirror'[m],
         kind = "aws" => \A m \in Mirrors : mirror'[m] <= srv'["db"],
         (kind = "osv" /\ srv'["list"] = srv["list"]) => Ecosystems' = Ecosystems,
         Ecosystems \subseteq Ecosystems'
  PROVE  IInv'
<1>0. /\ Types /\ Where /\ Seen /\ Fits /\ Learnt /\ ServerTypes
      /\ stored \in Stores /\ f \in Fetches /\ mapped \in [Parts -> Vers] /\ etagMap \in [Parts -> Vers]
  BY Zenon DEF IInv, Types
<1>1. /\ srv \in [Names -> Nat] /\ srv' \in [Names -> Nat]
      /\ mirror \in [Mirrors -> 1..MaxVer] /\ mirror' \in [Mirrors -> 1..MaxVer]
  BY Zenon, <1>0 DEF ServerTypes
<1>2. Types'  BY Zenon, <1>0 DEF Types
<1>3. Where'  BY Zenon, <1>0 DEF Where
<1>4. ASSUME NEW t \in [Names -> Nat], Behind(t) PROVE \A x \in Names : t[x] <= srv'[x]
  BY <1>1, <1>4 DEF Behind
<1>5. f.start \in [Names -> Nat] /\ f.fp.tag \in [Names -> Nat] /\ stored.fp.tag \in [Names -> Nat]
  BY Zenon, <1>0, FetchFields DEF Stores, Fps
<1>6. Seen'
  <2>1. Behind(stored.fp.tag)' /\ Behind(f.fp.tag)' /\ Behind(f.start)'
    BY Zenon, <1>0, <1>4, <1>5 DEF Seen, Behind
  <2>2. ASSUME kind = "aws", NEW m \in Mirrors PROVE f.start["db"] <= mirror'[m]
    <3>1. f.start["db"] <= mirror[m] /\ mirror[m] <= mirror'[m]  BY Zenon, <1>0, <2>2 DEF Seen
    <3>2. f.start["db"] \in Nat /\ mirror[m] \in Nat /\ mirror'[m] \in Nat  BY <1>1, <1>5, FileNames
    <3> QED  BY <3>1, <3>2
  <2> QED  BY Zenon, <2>1, <2>2 DEF Seen
<1>7. ASSUME NEW t \in [Names -> Nat], Behind(t), NEW E, kind = "osv", Lists(t["list"], E)
      PROVE  Lists(t["list"], E)'
  <2>1. t["list"] \in Nat /\ srv["list"] \in Nat /\ srv'["list"] \in Nat /\ srv["list"] <= srv'["list"] /\ t["list"] <= srv["list"]
    BY Zenon, <1>1, <1>7, FileNames DEF Behind
  <2>2. t["list"] = srv'["list"] => srv'["list"] = srv["list"]  BY <2>1
  <2> QED  BY Zenon, <1>7, <2>2 DEF Lists
<1>8. Fits'
  <2>1. NotAhead' /\ TaggedListIsWhole'  BY Zenon, <1>0 DEF Fits, NotAhead, TaggedListIsWhole
  <2>2. kind = "osv" => Lists(stored.fp.tag["list"], stored.fp.known)'
    BY Zenon, <1>0, <1>5, <1>7 DEF Fits, Seen, Lists
  <2> QED  BY Zenon, <1>0, <2>1, <2>2 DEF Fits
<1>9. f.pc = "updates" => AtUpdates'
  <2>1. ASSUME AtUpdates PROVE AtUpdates'
    <3>1. PICK m \in Mirrors : f.fp.known = {m} /\ f.fp.tag["db"] <= mirror[m]  BY Zenon, <2>1 DEF AtUpdates
    <3>2. f.fp.tag["db"] \in Nat /\ mirror[m] \in Nat /\ mirror'[m] \in Nat /\ mirror[m] <= mirror'[m]  BY <1>1, <1>5, FileNames
    <3>3. f.fp.tag["db"] <= mirror'[m]  BY <3>1, <3>2
    <3> QED  BY Zenon, <2>1, <3>1, <3>3 DEF AtUpdates, Undated
  <2> QED  BY Zenon, <1>0, <2>1 DEF Learnt
<1>10. f.pc = "zips" => AtZips'
  <2>1. ASSUME AtZips, kind = "osv" PROVE AtZips'
    <3>1. f.whole => Lists(f.fp.tag["list"], f.todo \union f.fp.known)'
      BY Zenon, <1>0, <1>5, <1>7, <2>1 DEF AtZips, Seen, Lists
    <3>2. f.todo \subseteq Ecosystems => f.todo \subseteq Ecosystems'  BY Zenon
    <3>3. Started' = Started /\ \A P : Undated(P)' = Undated(P)  BY Zenon DEF Started, Undated
    <3> QED  BY Zenon, <2>1, <3>1, <3>2, <3>3 DEF AtZips
  <2> QED  BY Zenon, <1>0, <2>1 DEF Learnt, Where
<1>11. /\ UnchangedIsCurrent' = UnchangedIsCurrent /\ AtSources' = AtSources /\ AtRepomd' = AtRepomd
       /\ AtMeta' = AtMeta /\ AtJson' = AtJson /\ AtList' = AtList
  BY Zenon DEF UnchangedIsCurrent, Files, AtSources, AtRepomd, AtMeta, AtJson, AtList, Undated
<1>12. Learnt'  BY Zenon, <1>0, <1>9, <1>10, <1>11 DEF Learnt
<1> QED  BY Zenon, <1>2, <1>3, <1>6, <1>8, <1>12 DEF IInv

(* A file of the server gets a new version.                                *)
LEMMA PublishStep ==
  ASSUME IInv, NEW x \in Names, Publish(x)
  PROVE  IInv'
<1>0. /\ ServerTypes /\ Seen /\ UNCHANGED <<kind, mirror, tagged, honours, stored, mapped, etagMap, f, fault>>
      /\ fault \in 0..MaxFault /\ x \in Files /\ srv[x] < MaxVer
      /\ srv' = [srv EXCEPT ![x] = @ + 1, !["list"] = IF kind = "osv" /\ srv[x] = 0 THEN @ + 1 ELSE @]
  BY Zenon DEF IInv, Types, Publish, sources
<1>1. srv \in [Names -> Nat] /\ "list" \in Names /\ x # "list"  BY Zenon, <1>0, FileNames DEF ServerTypes
<1>2. /\ srv' \in [Names -> Nat] /\ srv'[x] = srv[x] + 1
      /\ srv'["list"] = (IF kind = "osv" /\ srv[x] = 0 THEN srv["list"] + 1 ELSE srv["list"])
      /\ \A y \in Names : y # x /\ y # "list" => srv'[y] = srv[y]
  BY <1>0, <1>1
<1>3. \A y \in Names : srv[y] <= srv'[y]  BY <1>1, <1>2
<1>4. \A y \in Names : y # "list" => srv'[y] <= MaxVer  BY <1>0, <1>1, <1>2 DEF ServerTypes
<1>5. Ecosystems \subseteq Ecosystems' /\ Ecosystems' \subseteq Ecosystems \union {x}
  <2>1. \A y \in Parts : srv[y] > 0 => srv'[y] > 0  BY <1>1, <1>3, <1>2, FileNames
  <2>2. \A y \in Parts : y # x => srv'[y] = srv[y]  BY Zenon, <1>2, FileNames
  <2> QED  BY Zenon, <2>1, <2>2 DEF Ecosystems
<1>6. (kind # "osv" \/ srv[x] # 0) => srv'["list"] = srv["list"]  BY Zenon, <1>2
<1>7. (kind = "osv" /\ srv'["list"] = srv["list"]) => Ecosystems' = Ecosystems
  <2>1. ASSUME kind = "osv", srv'["list"] = srv["list"] PROVE srv[x] > 0  BY <1>1, <1>2, <2>1
  <2>2. ASSUME kind = "osv" PROVE x \in Parts  BY Zenon, <1>0, <2>2 DEF Files
  <2>3. (kind = "osv" /\ srv'["list"] = srv["list"]) => x \in Ecosystems  BY Zenon, <2>1, <2>2 DEF Ecosystems
  <2> QED  BY Zenon, <1>5, <2>3
<1>8. srv'["list"] <= 1 + Cardinality(Ecosystems')
  <2>1. IsFiniteSet(Ecosystems) /\ IsFiniteSet(Ecosystems')
    <3>1. Ecosystems \subseteq Parts /\ Ecosystems' \subseteq Parts  BY Zenon DEF Ecosystems
    <3> QED  BY Zenon, <3>1, FS_Subset
  <2>2. Cardinality(Ecosystems) \in Nat /\ Cardinality(Ecosystems') \in Nat /\ Cardinality(Ecosystems) <= Cardinality(Ecosystems')
    BY Zenon, <1>5, <2>1, FS_Subset, FS_CardinalityType
  <2>3. srv["list"] <= 1 + Cardinality(Ecosystems) /\ srv["list"] \in Nat  BY Zenon, <1>0, <1>1 DEF ServerTypes
  <2>4. CASE kind = "osv" /\ srv[x] = 0
    <3>1. x \in Parts /\ x \notin Ecosystems  BY <1>0, <2>4 DEF Files, Ecosystems
    <3>2. x \in Ecosystems'  BY <1>1, <1>2, <3>1 DEF Ecosystems
    <3>3. Ecosystems' = Ecosystems \union {x}  BY Zenon, <1>5, <3>2
    <3>4. Cardinality(Ecosystems') = Cardinality(Ecosystems) + 1  BY Zenon, <2>1, <3>1, <3>3, FS_AddElement
    <3>5. srv'["list"] = srv["list"] + 1  BY Zenon, <1>2, <2>4
    <3> QED  BY <2>2, <2>3, <3>4, <3>5
  <2>5. CASE ~(kind = "osv" /\ srv[x] = 0)  BY <1>6, <2>2, <2>3, <2>5
  <2> QED  BY Zenon, <2>4, <2>5
<1>9. ServerTypes'  BY Zenon, <1>0, <1>2, <1>4, <1>8 DEF ServerTypes
<1>10. \A m \in Mirrors : mirror[m] <= mirror'[m]  BY <1>0 DEF ServerTypes
<1>11. kind = "aws" => \A m \in Mirrors : mirror'[m] <= srv'["db"]
  <2>1. "db" \in Names /\ srv["db"] <= srv'["db"] /\ srv["db"] \in Nat /\ srv'["db"] \in Nat
    BY Zenon, <1>1, <1>2, <1>3, FileNames
  <2> QED  BY <1>0, <2>1 DEF Seen, ServerTypes
<1> QED  BY Zenon, <1>0, <1>3, <1>5, <1>7, <1>9, <1>10, <1>11, ServerStep

(* A mirror catches up with its origin.                                    *)
LEMMA SyncStep ==
  ASSUME IInv, NEW m \in Mirrors, Sync(m)
  PROVE  IInv'
<1>0. /\ ServerTypes /\ Seen /\ UNCHANGED <<kind, srv, tagged, honours, stored, mapped, etagMap, f, fault>>
      /\ fault \in 0..MaxFault /\ kind = "aws" /\ mirror[m] < srv["db"] /\ mirror' = [mirror EXCEPT ![m] = srv["db"]]
  BY Zenon DEF IInv, Types, Sync, sources
<1>1. /\ srv \in [Names -> Nat] /\ mirror \in [Mirrors -> 1..MaxVer] /\ srv["db"] \in Nat /\ srv["db"] <= MaxVer
      /\ "db" # "list" /\ "db" \in Names
  BY Zenon, <1>0, FileNames DEF ServerTypes
<1>2. mirror' \in [Mirrors -> 1..MaxVer] /\ \A n \in Mirrors : mirror[n] <= mirror'[n]  BY <1>0, <1>1
<1>3. \A n \in Mirrors : mirror'[n] <= srv'["db"]  BY <1>0, <1>1 DEF Seen
<1>4. Ecosystems' = Ecosystems  BY Zenon, <1>0 DEF Ecosystems
<1>5. ServerTypes'  BY Zenon, <1>0, <1>2, <1>4 DEF ServerTypes
<1>6. \A x \in Names : srv[x] <= srv'[x]  BY <1>0, <1>1
<1> QED  BY Zenon, <1>0, <1>2, <1>3, <1>4, <1>5, <1>6, ServerStep

(* The server starts or stops sending validators.                          *)
LEMMA RetagStep ==
  ASSUME IInv, Retag
  PROVE  IInv'
<1>0. /\ ServerTypes /\ Seen /\ UNCHANGED <<kind, srv, mirror, honours, stored, mapped, etagMap, f>>
      /\ fault \in 0..MaxFault /\ Fault /\ tagged' = ~tagged
  BY Zenon DEF IInv, Types, Retag, sources
<1>1. fault' \in 0..MaxFault  BY <1>0 DEF Fault
<1>2. Ecosystems' = Ecosystems  BY Zenon, <1>0 DEF Ecosystems
<1>3. tagged' \in BOOLEAN  BY Zenon, <1>0 DEF ServerTypes
<1>4. ServerTypes'  BY Zenon, <1>0, <1>2, <1>3 DEF ServerTypes
<1>5. (\A x \in Names : srv[x] <= srv'[x]) /\ \A m \in Mirrors : mirror[m] <= mirror'[m]  BY <1>0 DEF ServerTypes
<1> QED  BY Zenon, <1>0, <1>1, <1>2, <1>4, <1>5, ServerStep DEF Seen

-----------------------------------------------------------------------------
(* A step of a Fetch, while the server stands still.                       *)
Quiet == UNCHANGED <<kind, srv, mirror, tagged, honours>>
Typed == mapped' \in [Parts -> Vers] /\ etagMap' \in [Parts -> Vers] /\ fault' \in 0..MaxFault

(* Nothing of the server changes while an updater moves.                   *)
LEMMA QuietServer ==
  ASSUME Quiet
  PROVE  /\ Ecosystems' = Ecosystems /\ Files' = Files /\ ServerTypes' = ServerTypes
         /\ \A t, E : Lists(t, E)' = Lists(t, E)
         /\ \A t : Behind(t)' = Behind(t)
<1>1. Ecosystems' = Ecosystems  BY Zenon DEF Quiet, Ecosystems
<1> QED  BY Zenon, <1>1 DEF Quiet, Files, ServerTypes, Lists, Behind

(* A Fetch goes on.                                                        *)
LEMMA GoesOn ==
  ASSUME IInv, Quiet, Typed, UNCHANGED stored, f' \in Fetches, f'.start = f.start,
         Behind(f'.fp.tag), Where', Learnt'
  PROVE  IInv'
<1>0. Types /\ Seen /\ Fits /\ ServerTypes /\ stored \in Stores  BY Zenon DEF IInv, Types
<1>1. Types'  BY Zenon, <1>0, QuietServer DEF Types, Typed
<1>2. Seen'  BY Zenon, <1>0, QuietServer DEF Seen, Quiet, Behind
<1>3. Fits'  BY Zenon, <1>0, QuietServer DEF Fits, NotAhead, TaggedListIsWhole, Quiet, Lists
<1> QED  BY Zenon, <1>1, <1>2, <1>3 DEF IInv

(* A Fetch returns.                                                        *)
LEMMA ReturnFields ==
  ASSUME f \in Fetches, NEW r \in {"unchanged", "new", "error"}, Return(r)
  PROVE  /\ f' \in Fetches /\ f'.pc = "idle" /\ f'.res = r /\ f'.start = f.start /\ f'.fp = f.fp
<1>1. f' = [f EXCEPT !.pc = "idle", !.res = r]  BY Zenon DEF Return
<1>2. f'.pc = "idle" /\ f'.res = r /\ f'.start = f.start /\ f'.fp = f.fp  BY Zenon, <1>1 DEF Fetches
<1>3. f' \in Fetches  BY Zenon, <1>1 DEF Fetches, PCs
<1> QED  BY Zenon, <1>2, <1>3

(* A Fetch that stores nothing: an error, or Unchanged where that is true. *)
LEMMA Returns ==
  ASSUME IInv, Quiet, Typed, UNCHANGED stored, NEW r \in {"unchanged", "error"}, Return(r),
         (r = "unchanged" /\ stored.whole) =>
           \A x \in IF kind = "debian" THEN {"db"} ELSE Files : stored.data[x] >= f.start[x]
  PROVE  IInv'
<1>0. f \in Fetches /\ Seen /\ Where  BY Zenon DEF IInv, Types
<1>1. f' \in Fetches /\ f'.pc = "idle" /\ f'.res = r /\ f'.start = f.start /\ f'.fp = f.fp  BY Zenon, <1>0, ReturnFields
<1>2. Behind(f'.fp.tag)  BY Zenon, <1>0, <1>1 DEF Seen
<1>3. Where'  BY Zenon, <1>0, <1>1 DEF Where, Quiet
<1>4. UnchangedIsCurrent'  BY Zenon, <1>1, QuietServer DEF UnchangedIsCurrent, Quiet
<1>5. Learnt'  BY Zenon, <1>1, <1>4 DEF Learnt
<1> QED  BY Zenon, <1>1, <1>2, <1>3, <1>5, GoesOn

(* A Fetch returns a database, which is stored with its fingerprint.       *)
LEMMA Stored ==
  ASSUME IInv, Quiet, Typed,
         NEW data \in [Names -> Vers], NEW fp \in Fps, NEW whole \in BOOLEAN, NEW list \in SUBSET (Parts \union Mirrors),
         Store(data, fp, whole, list), Behind(fp.tag),
         whole => fp.date <= data["db"] /\ \A x \in Names \ {"list"} : fp.tag[x] <= data[x],
         kind = "osv" => /\ fp.known \subseteq Parts /\ Lists(fp.tag["list"], fp.known)
                         /\ fp.tag["list"] # 0 => \A x \in list : data[x] > 0
  PROVE  IInv'
<1>0. f \in Fetches /\ Seen /\ Where /\ ServerTypes  BY Zenon DEF IInv, Types
<1>1. stored' = [data |-> data, fp |-> fp, whole |-> whole, list |-> list] /\ Return("new")  BY Zenon DEF Store
<1>2. f' \in Fetches /\ f'.pc = "idle" /\ f'.res = "new" /\ f'.start = f.start /\ f'.fp = f.fp
  BY Zenon, <1>0, <1>1, ReturnFields
<1>3. stored' \in Stores /\ stored'.data = data /\ stored'.fp = fp /\ stored'.whole = whole /\ stored'.list = list
  BY Zenon, <1>1 DEF Stores
<1>4. Types'  BY Zenon, <1>0, <1>2, <1>3, QuietServer DEF Types, Typed
<1>5. Where'  BY Zenon, <1>0, <1>2, <1>3 DEF Where, Quiet
<1>6. Seen'  BY Zenon, <1>0, <1>2, <1>3, QuietServer DEF Seen, Quiet, Behind
<1>7. Fits'
  <2>1. NotAhead'  BY Zenon, <1>3 DEF NotAhead
  <2>2. TaggedListIsWhole'  BY Zenon, <1>3 DEF TaggedListIsWhole, Quiet
  <2>3. kind' = "osv" => Lists(stored.fp.tag["list"], stored.fp.known)'
    BY Zenon, <1>3, QuietServer DEF Quiet, Lists
  <2> QED  BY Zenon, <1>3, <2>1, <2>2, <2>3 DEF Fits
<1>8. Learnt'  BY Zenon, <1>2 DEF Learnt, UnchangedIsCurrent
<1> QED  BY Zenon, <1>4, <1>5, <1>6, <1>7, <1>8 DEF IInv

(* What the steps of a Fetch have in common.                               *)
LEMMA StillTyped ==
  ASSUME IInv, UNCHANGED sources, UNCHANGED fault \/ Fault
  PROVE  Typed
<1>1. mapped \in [Parts -> Vers] /\ etagMap \in [Parts -> Vers] /\ fault \in 0..MaxFault  BY Zenon DEF IInv, Types
<1>2. fault' \in 0..MaxFault  BY <1>1 DEF Fault
<1> QED  BY Zenon, <1>1, <1>2 DEF Typed, sources

-----------------------------------------------------------------------------
(* The slowest mirror.                                                     *)
LEMMA LeastNat ==
  ASSUME NEW T \in SUBSET Nat, T # {}
  PROVE  \E x \in T : \A y \in T : x <= y
<1> DEFINE R == {p \in Nat \X Nat : p[1] < p[2]}
<1>1. IsWellFoundedOn(R, Nat)
  BY Zenon, NatLessThanWellFounded DEF OpToRel
<1> HIDE DEF R
<1>2. PICK x \in T : \A y \in T : <<y, x>> \notin R
  BY <1>1, WFMin, Zenon
<1>3. ASSUME NEW y \in T PROVE x <= y
  <2>1. <<y, x>> \notin R  BY Zenon, <1>2
  <2>2. <<y, x>> \in Nat \X Nat /\ x \in Nat /\ y \in Nat  BY Zenon
  <2>3. ~(y < x)  BY Zenon, <2>1, <2>2 DEF R
  <2> QED  BY <2>2, <2>3
<1> QED  BY Zenon, <1>3

(* Some mirror is behind all others.                                       *)
LEMMA SlowestMirror ==
  ASSUME ServerTypes
  PROVE  Slowest \in Nat /\ \A m \in Mirrors : Slowest <= mirror[m]
<1>1. mirror \in [Mirrors -> 1..MaxVer]  BY Zenon DEF ServerTypes
<1> DEFINE T == {n \in Nat : \E m \in Mirrors : mirror[m] = n}
<1>2. T \in SUBSET Nat /\ T # {} /\ \A m \in Mirrors : mirror[m] \in T  BY <1>1
<1>3. PICK n \in T : \A k \in T : n <= k  BY Zenon, <1>2, LeastNat
<1>4. n \in 1..MaxVer /\ \E m \in Mirrors : mirror[m] = n  BY Zenon, <1>1, <1>3
<1>5. \A m \in Mirrors : mirror[m] >= n  BY Zenon, <1>1, <1>2, <1>3
<1>6. Slowest \in 1..MaxVer /\ \A m \in Mirrors : mirror[m] >= Slowest  BY Zenon, <1>4, <1>5 DEF Slowest
<1> QED  BY <1>1, <1>6

(* A Fetch begins.                                                         *)
LEMMA BeginStep ==
  ASSUME IInv, Begin
  PROVE  IInv'
<1> DEFINE start == IF kind = "aws" THEN [srv EXCEPT !["db"] = Slowest] ELSE srv
           pc == CASE kind \in Single -> "get"
                   [] kind = "aws"  -> "repomd"
                   [] kind = "cvss" -> "meta"
                   [] kind = "osv"  -> "list"
           todo == IF kind = "cvss" THEN Parts ELSE {}
<1>0. /\ Types /\ ServerTypes /\ Seen /\ Fits /\ Where /\ Quiet /\ UNCHANGED stored /\ stored \in Stores
      /\ f' = [Idle EXCEPT !.start = start, !.pc = pc, !.todo = todo]
  BY Zenon DEF IInv, Types, Begin, Quiet, server
<1>1. srv \in [Names -> Nat] /\ kind \in Single \union {"aws", "cvss", "osv"} /\ "db" \in Names
  BY Zenon, <1>0, FileNames DEF ServerTypes
<1>2. start \in [Names -> Nat] /\ Behind(start) /\ (kind = "aws" => \A m \in Mirrors : start["db"] <= mirror[m])
  <2>1. CASE kind = "aws"
    <3>1. Slowest \in Nat /\ \A m \in Mirrors : Slowest <= mirror[m]  BY Zenon, <1>0, SlowestMirror
    <3>2. start = [srv EXCEPT !["db"] = Slowest]  BY Zenon, <2>1
    <3> HIDE DEF start
    <3>3. start \in [Names -> Nat] /\ start["db"] = Slowest /\ \A x \in Names : x # "db" => start[x] = srv[x]
      BY Zenon, <1>1, <3>1, <3>2
    <3>4. Slowest <= srv["db"]
      <4>1. PICK m \in Mirrors : TRUE  BY Zenon
      <4>2. Slowest <= mirror[m] /\ mirror[m] <= srv["db"] /\ mirror[m] \in Nat /\ srv["db"] \in Nat
        BY <1>0, <1>1, <2>1, <3>1 DEF Seen, ServerTypes
      <4> QED  BY <3>1, <4>2
    <3>5. \A x \in Names : srv[x] <= srv[x]  BY <1>1
    <3>6. Behind(start)  BY Zenon, <3>3, <3>4, <3>5 DEF Behind
    <3> QED  BY Zenon, <3>1, <3>3, <3>6
  <2>2. CASE kind # "aws"
    <3>1. start = srv  BY Zenon, <2>2
    <3>2. \A x \in Names : srv[x] <= srv[x]  BY <1>1
    <3> QED  BY Zenon, <1>1, <2>2, <3>1, <3>2 DEF Behind
  <2> QED  BY Zenon, <2>1, <2>2
<1>3. /\ pc \in {"get", "repomd", "meta", "list"} /\ todo \subseteq Parts \union Mirrors
      /\ pc = "get" => kind \in Single
      /\ pc = "repomd" => kind = "aws"
      /\ pc = "meta" => kind = "cvss" /\ todo = Parts
      /\ pc = "list" => kind = "osv"
  <2>1. Single \cap {"aws", "cvss", "osv"} = {}  BY Zenon DEF Single
  <2>2. CASE kind \in Single
    <3>1. pc = "get"  BY Zenon, <2>1, <2>2
    <3> QED  BY Zenon, <2>2, <3>1
  <2>3. CASE kind = "aws"
    <3>1. pc = "repomd"  BY Zenon, <2>1, <2>3
    <3> QED  BY Zenon, <2>3, <3>1
  <2>4. CASE kind = "cvss"
    <3>1. pc = "meta"  BY Zenon, <2>1, <2>4
    <3> QED  BY Zenon, <2>4, <3>1
  <2>5. CASE kind = "osv"
    <3>1. pc = "list"  BY Zenon, <2>1, <2>5
    <3> QED  BY Zenon, <2>5, <3>1
  <2> QED  BY Zenon, <1>1, <2>2, <2>3, <2>4, <2>5
<1> HIDE DEF start, pc, todo
<1>4. /\ f'.pc = pc /\ f'.start = start /\ f'.todo = todo /\ f'.fp = NoFp /\ f'.got = None /\ f'.whole
  BY Zenon, <1>0, Blank DEF Idle
<1>5. f' \in Fetches  BY Zenon, <1>0, <1>2, <1>3, Blank DEF Fetches, PCs
<1>6. Types'
  <2>1. Typed  BY Zenon, StillTyped DEF Begin
  <2> QED  BY Zenon, <1>0, <1>5, <2>1, QuietServer DEF Types, Typed
<1>7. Where'  BY Zenon, <1>0, <1>3, <1>4 DEF Where, Quiet
<1>8. Seen'
  <2>1. \A x \in Names : 0 <= srv[x]  BY <1>1
  <2>2. Behind(NoFp.tag)  BY Zenon, <2>1, Blank DEF Behind
  <2> QED  BY Zenon, <1>0, <1>2, <1>4, <2>2, QuietServer DEF Seen, Quiet, Behind
<1>9. Fits'  BY Zenon, <1>0, QuietServer DEF Fits, NotAhead, TaggedListIsWhole, Quiet, Lists
<1>10. Learnt'
  <2>1. f'.pc = "meta" => AtMeta'
    <3>1. f'.pc = "meta" => Parts \ f'.todo = {}  BY Zenon, <1>3, <1>4
    <3>2. Undated({"db"})'  BY Zenon, <1>4, Blank, FileNames DEF Undated
    <3> QED  BY Zenon, <1>4, <3>1, <3>2 DEF AtMeta
  <2>2. f'.pc = "list" => AtList'  BY Zenon, <1>4 DEF AtList
  <2>3. f'.pc = "repomd" => AtRepomd'  BY Zenon, <1>4 DEF AtRepomd
  <2> QED  BY Zenon, <1>3, <1>4, <2>1, <2>2, <2>3 DEF Learnt
<1> QED  BY Zenon, <1>6, <1>7, <1>8, <1>9, <1>10 DEF IInv

-----------------------------------------------------------------------------
(* One file.                                                               *)
LEMMA TagFields ==
  ASSUME NEW t \in Nat
  PROVE  /\ WithTag(t) \in Fps /\ WithTag(t).date = 0 /\ WithTag(t).known = {} /\ WithTag(t).tag["db"] = t
         /\ \A x \in Names : x # "db" => WithTag(t).tag[x] = 0
<1>1. WithTag(t).date = 0 /\ WithTag(t).known = {} /\ WithTag(t).tag = [None EXCEPT !["db"] = t]
  BY Zenon DEF WithTag, NoFp
<1>2. [None EXCEPT !["db"] = t] \in [Names -> Nat]  BY Zenon, Blank
<1>3. WithTag(t) \in Fps
  <2>1. WithTag(t) = [tag |-> [None EXCEPT !["db"] = t], date |-> 0, known |-> {}]  BY DEF WithTag, NoFp
  <2> QED  BY <1>2, <2>1 DEF Fps
<1>4. WithTag(t).tag["db"] = t /\ \A x \in Names : x # "db" => WithTag(t).tag[x] = 0
  BY Zenon, <1>1, Blank, FileNames
<1> QED  BY Zenon, <1>1, <1>3, <1>4

(* The fields of a fingerprint whose date is set.                          *)
LEMMA DateFields ==
  ASSUME NEW fp \in Fps, NEW d \in Nat, NEW g, g = [fp EXCEPT !.date = d]
  PROVE  g \in Fps /\ g.date = d /\ g.known = fp.known /\ g.tag = fp.tag
BY Zenon DEF Fps

(* The fields of what is stored, of the server and of its headers.         *)
LEMMA StoredFields ==
  ASSUME IInv
  PROVE  /\ stored.data \in [Names -> Vers] /\ stored.fp.tag \in [Names -> Nat] /\ stored.fp.date \in Nat
         /\ stored.whole \in BOOLEAN /\ stored.fp.known \subseteq Parts \union Mirrors
         /\ srv \in [Names -> Nat] /\ f \in Fetches /\ mirror \in [Mirrors -> 1..MaxVer]
         /\ \A x \in Names : x # "list" => srv[x] \in Vers
         /\ \A x \in Names : Header(x) \in Nat /\ Header(x) <= srv[x]
<1>1. stored \in Stores /\ f \in Fetches /\ ServerTypes  BY Zenon DEF IInv, Types
<1>2. /\ stored.data \in [Names -> Vers] /\ stored.fp.tag \in [Names -> Nat] /\ stored.fp.date \in Nat
      /\ stored.whole \in BOOLEAN /\ stored.fp.known \subseteq Parts \union Mirrors
  BY Zenon, <1>1 DEF Stores, Fps
<1>3. srv \in [Names -> Nat] /\ mirror \in [Mirrors -> 1..MaxVer]  BY Zenon, <1>1 DEF ServerTypes
<1>4. \A x \in Names : x # "list" => srv[x] \in Vers  BY <1>1, <1>3 DEF ServerTypes, Vers
<1>5. \A x \in Names : Header(x) \in Nat /\ Header(x) <= srv[x]  BY <1>3 DEF Header
<1> QED  BY Zenon, <1>1, <1>2, <1>3, <1>4, <1>5

(* An answer says that the file is the one that was stored, or comes with  *)
(* a validator of the file or with the one it was asked with.              *)
Fresh(fp) ==
  /\ fp \in Fps /\ fp.known = {} /\ fp.tag["db"] <= srv["db"] /\ fp.date <= srv["db"]
  /\ \A x \in Names : x # "db" => fp.tag[x] = 0
  /\ kind = "debian" => fp.date = 0

(* What the answer to a single request says of the file.                   *)
LEMMA Answered ==
  ASSUME IInv, kind \in Single
  PROVE  \/ Answer = Unchanged /\ (stored.whole => stored.data["db"] >= srv["db"])
         \/ Answer # Unchanged /\ Fresh(Answer)
<1>0. /\ stored.data["db"] \in Nat /\ Tag \in Nat /\ stored.fp.date \in Nat /\ srv["db"] \in Nat
      /\ Header("db") \in Nat /\ Header("db") <= srv["db"] /\ Tag <= srv["db"]
  BY StoredFields, FileNames DEF Vers, Tag, IInv, Seen, Behind
<1>1. stored.whole => stored.fp.date <= stored.data["db"] /\ Tag <= stored.data["db"]
  <2>1. "db" \in Names \ {"list"}  BY Zenon, FileNames
  <2> QED  BY Zenon, <2>1 DEF IInv, Fits, NotAhead, Tag
<1>2. SameTag => Tag = srv["db"]  BY Zenon DEF SameTag, NotModified, Header
<1>3. NotModified("db", stored.fp.date) => stored.fp.date = srv["db"]  BY Zenon DEF NotModified
<1>4. \A fp \in Fps : fp # Unchanged
  <2>1. Unchanged.date = -1  BY Zenon DEF Unchanged, NoFp
  <2>2. \A fp \in Fps : fp.date \in Nat  BY Zenon DEF Fps
  <2>3. -1 \notin Nat  OBVIOUS
  <2> QED  BY Zenon, <2>1, <2>2, <2>3
<1> DEFINE Old == Answer = Unchanged /\ (stored.whole => stored.data["db"] >= srv["db"])
           New == Answer # Unchanged /\ Fresh(Answer)
<1>5. ASSUME NEW t \in {Header("db"), Tag}, Answer = WithTag(t) PROVE New
  <2>1. t \in Nat /\ t <= srv["db"] /\ 0 <= srv["db"]  BY <1>0
  <2>2. WithTag(t) \in Fps  BY Zenon, <2>1, TagFields
  <2>3. Answer # Unchanged  BY Zenon, <1>4, <1>5, <2>2
  <2>4. Fresh(Answer)
    <3>1. /\ WithTag(t) \in Fps /\ WithTag(t).known = {} /\ WithTag(t).tag["db"] = t /\ WithTag(t).date = 0
          /\ \A x \in Names : x # "db" => WithTag(t).tag[x] = 0
      BY Zenon, <1>0, <2>1, TagFields
    <3> QED  BY Zenon, <1>5, <2>1, <3>1 DEF Fresh
  <2> QED  BY Zenon, <2>3, <2>4
<1>6. ASSUME Answer = Unchanged, SameTag PROVE Old  BY Zenon, <1>0, <1>1, <1>2, <1>6
<1>7. CASE kind \in {"alpine", "ubuntu", "rhcc", "debian"}
  <2>1. Answer = IF SameTag THEN Unchanged ELSE WithTag(Header("db"))
    BY Zenon, <1>7 DEF Answer, AlpineFetch, UbuntuFetch, RhccFetch, DebianFetch
  <2> QED  BY Zenon, <1>5, <1>6, <2>1
<1>8. CASE kind = "pyupio"
  <2>1. Answer = PyupFetch  BY Zenon, <1>8 DEF Answer
  <2>2. CASE SameTag
    <3>1. CASE Header("db") = 0  BY Zenon, <1>6, <2>1, <2>2, <3>1 DEF PyupFetch
    <3>2. CASE Header("db") # 0
      <4>1. Answer = Unchanged \/ Answer = WithTag(Header("db"))  BY <2>1, <2>2, <3>2 DEF PyupFetch
      <4> QED  BY Zenon, <1>5, <1>6, <2>2, <4>1
    <3> QED  BY Zenon, <3>1, <3>2
  <2>3. CASE ~SameTag
    <3>1. Answer = WithTag(Header("db")) \/ Answer = WithTag(Tag)  BY Zenon, <2>1, <2>3 DEF PyupFetch
    <3> QED  BY Zenon, <1>5, <3>1
  <2> QED  BY Zenon, <2>2, <2>3
<1>9. CASE kind = "oval"
  <2>1. Answer = OvalFetch  BY Zenon, <1>9 DEF Answer
  <2>2. CASE SameTag \/ (Tag = 0 /\ NotModified("db", stored.fp.date))
    <3>1. Answer = Unchanged  BY Zenon, <2>1, <2>2 DEF OvalFetch
    <3>2. CASE SameTag  BY Zenon, <1>6, <3>1, <3>2
    <3>3. CASE NotModified("db", stored.fp.date)  BY Zenon, <1>0, <1>1, <1>3, <3>1, <3>3
    <3> QED  BY Zenon, <2>2, <3>2, <3>3
  <2>3. CASE ~(SameTag \/ (Tag = 0 /\ NotModified("db", stored.fp.date)))
    <3>1. PICK t \in {Header("db"), Tag} : Answer = [WithTag(t) EXCEPT !.date = Header("db")]
      BY Zenon, <2>1, <2>3 DEF OvalFetch
    <3>2. t \in Nat /\ t <= srv["db"] /\ 0 <= srv["db"] /\ kind # "debian"  BY <1>0, <1>9
    <3>3. /\ Answer \in Fps /\ Answer.known = {} /\ Answer.tag["db"] = t /\ Answer.date = Header("db")
          /\ \A x \in Names : x # "db" => Answer.tag[x] = 0
      <4>1. /\ WithTag(t) \in Fps /\ WithTag(t).known = {} /\ WithTag(t).tag["db"] = t
            /\ \A x \in Names : x # "db" => WithTag(t).tag[x] = 0
        BY Zenon, <3>2, TagFields
      <4>2. /\ Answer \in Fps /\ Answer.date = Header("db") /\ Answer.known = WithTag(t).known
            /\ Answer.tag = WithTag(t).tag
        BY <1>0, <3>1, <4>1, DateFields
      <4> QED  BY Zenon, <4>1, <4>2
    <3>4. Answer # Unchanged  BY Zenon, <1>4, <3>3
    <3>5. Fresh(Answer)  BY Zenon, <1>0, <3>2, <3>3 DEF Fresh
    <3> QED  BY Zenon, <3>4, <3>5
  <2> QED  BY Zenon, <2>2, <2>3
<1> QED  BY Zenon, <1>7, <1>8, <1>9 DEF Single

(* Such an answer is not ahead of the server.                              *)
LEMMA FreshBehind ==
  ASSUME IInv, NEW fp, Fresh(fp)
  PROVE  Behind(fp.tag)
<1>1. \A x \in Names : 0 <= srv[x]  BY StoredFields
<1>2. fp.tag["db"] <= srv["db"] /\ \A x \in Names : x # "db" => fp.tag[x] = 0  BY Zenon DEF Fresh
<1> SUFFICES ASSUME NEW x \in Names PROVE fp.tag[x] <= srv[x]  BY Zenon DEF Behind
<1>3. CASE x = "db"  BY Zenon, <1>2, <1>3
<1>4. CASE x # "db"
  <2>1. fp.tag[x] = 0  BY Zenon, <1>2, <1>4
  <2> QED  BY Zenon, <1>1, <2>1
<1> QED  BY Zenon, <1>3, <1>4

(* The updaters that read one file: not modified, or read.                 *)
LEMMA GetStep ==
  ASSUME IInv, GetUnchanged \/ GetNew
  PROVE  IInv'
<1>0. Quiet /\ UNCHANGED sources /\ UNCHANGED fault /\ f.pc = "get"  BY Zenon DEF GetUnchanged, GetNew, Quiet, server
<1>1. Typed /\ kind \in Single  BY Zenon, <1>0, StillTyped DEF IInv, Where
<1>2. \/ Answer = Unchanged /\ (stored.whole => stored.data["db"] >= srv["db"])
      \/ Answer # Unchanged /\ Fresh(Answer)
  BY Zenon, <1>1, Answered
<1>3. f \in Fetches /\ f.start \in [Names -> Nat] /\ stored.data["db"] \in Nat /\ srv["db"] \in Nat /\ srv["db"] \in Vers
      /\ f.start["db"] \in Nat /\ f.start["db"] <= srv["db"] /\ "db" # "list" /\ "db" \in Names
  BY StoredFields, FetchFields, FileNames DEF IInv, Seen, Behind, Vers
<1>4. CASE GetUnchanged
  <2>1. Answer = Unchanged /\ Return("unchanged") /\ UNCHANGED stored  BY Zenon, <1>4 DEF GetUnchanged
  <2>2. stored.whole => stored.data["db"] >= f.start["db"]  BY <1>2, <1>3, <2>1
  <2>3. \A x \in IF kind = "debian" THEN {"db"} ELSE Files : x = "db"  BY Zenon, <1>1 DEF Files, Single
  <2> QED  BY Zenon, <1>0, <1>1, <2>1, <2>2, <2>3, Returns
<1>5. CASE GetNew /\ kind = "debian"
  <2>1. Fresh(Answer) /\ UNCHANGED stored
        /\ f' = [f EXCEPT !.pc = "sources", !.todo = Parts, !.got["db"] = srv["db"], !.fp = Answer]
    BY Zenon, <1>2, <1>5 DEF GetNew
  <2>2. /\ f'.pc = "sources" /\ f'.start = f.start /\ f'.todo = Parts /\ f'.whole = f.whole /\ f'.res = f.res
        /\ f'.got = [f.got EXCEPT !["db"] = srv["db"]] /\ f'.fp = Answer
    BY Zenon, <1>3, <2>1 DEF Fetches
  <2>3. f'.got \in [Names -> Vers] /\ f'.got["db"] = srv["db"]  BY <1>3, <2>2, FetchFields
  <2>4. f' \in Fetches  BY Zenon, <1>3, <2>1, <2>2, <2>3 DEF Fetches, PCs, Fresh
  <2>5. Behind(f'.fp.tag)  BY Zenon, <2>1, <2>2, FreshBehind
  <2>6. Where'  BY Zenon, <1>0, <1>5, <2>1, <2>2 DEF IInv, Where, Quiet
  <2>7. AtSources'
    <3>1. Answer.date = 0 /\ \A x \in Parts : Answer.tag[x] = 0
      <4>1. \A x \in Parts : x \in Names /\ x # "db"  BY Zenon, FileNames
      <4> QED  BY Zenon, <1>5, <2>1, <4>1 DEF Fresh
    <3>2. Undated(Parts)'  BY Zenon, <2>2, <3>1 DEF Undated
    <3> QED  BY Zenon, <2>1, <2>2, <2>3, <3>2 DEF AtSources, Fresh
  <2>8. Learnt'  BY Zenon, <2>2, <2>7 DEF Learnt
  <2> QED  BY Zenon, <1>0, <1>1, <2>1, <2>2, <2>4, <2>5, <2>6, <2>8, GoesOn
<1>6. CASE GetNew /\ kind # "debian"
  <2> DEFINE data == [None EXCEPT !["db"] = srv["db"]]
  <2>1. Fresh(Answer) /\ Store(data, Answer, TRUE, {})  BY Zenon, <1>2, <1>6 DEF GetNew
  <2>2. data \in [Names -> Vers] /\ data["db"] = srv["db"] /\ \A x \in Names : x # "db" => data[x] = 0
    BY Zenon, <1>3, Blank
  <2> HIDE DEF data
  <2>3. Behind(Answer.tag)  BY Zenon, <2>1, FreshBehind
  <2>4. Answer.date <= data["db"] /\ \A x \in Names \ {"list"} : Answer.tag[x] <= data[x]
    <3>1. 0 <= 0  OBVIOUS
    <3> QED  BY Zenon, <2>1, <2>2, <3>1 DEF Fresh
  <2>5. kind # "osv"  BY Zenon, <1>1 DEF Single
  <2>6. Answer \in Fps /\ {} \in SUBSET (Parts \union Mirrors)  BY Zenon, <2>1 DEF Fresh
  <2> QED  BY Zenon, <1>0, <1>1, <2>1, <2>2, <2>3, <2>4, <2>5, <2>6, Stored
<1> QED  BY Zenon, <1>4, <1>5, <1>6

-----------------------------------------------------------------------------
(* debian's Sources files.                                                 *)
LEMMA SourceMoves ==
  ASSUME IInv, f.pc = "sources", Quiet, Typed, UNCHANGED stored, NEW T \in SUBSET (Parts \union Mirrors),
         NEW r \in {f.res, "error"}, f' = [f EXCEPT !.todo = T, !.res = r]
  PROVE  IInv'
<1>0. f \in Fetches /\ Where /\ Learnt /\ Seen  BY Zenon DEF IInv, Types
<1>1. /\ f'.pc = "sources" /\ f'.start = f.start /\ f'.fp = f.fp /\ f'.got = f.got
  BY Zenon, <1>0 DEF Fetches
<1>2. f' \in Fetches  BY Zenon, <1>0 DEF Fetches
<1>3. Behind(f'.fp.tag)  BY Zenon, <1>0, <1>1 DEF Seen
<1>4. Where'  BY Zenon, <1>0, <1>1 DEF Where, Quiet
<1>5. AtSources'  BY Zenon, <1>0, <1>1 DEF Learnt, AtSources, Undated
<1>6. Learnt'  BY Zenon, <1>1, <1>5 DEF Learnt
<1> QED  BY Zenon, <1>1, <1>2, <1>3, <1>4, <1>6, GoesOn

(* debian: one Sources file is unchanged, read, or could not be read.      *)
LEMMA SourceStep ==
  ASSUME IInv, NEW x \in Parts, SourceUnchanged(x) \/ SourceRead(x) \/ SourceFailed(x)
  PROVE  IInv'
<1>0. /\ f \in Fetches /\ f.todo \subseteq Parts \union Mirrors /\ Quiet /\ UNCHANGED stored /\ f.pc = "sources"
      /\ mapped \in [Parts -> Vers] /\ etagMap \in [Parts -> Vers] /\ fault \in 0..MaxFault
  BY Zenon, FetchFields DEF IInv, Types, SourceUnchanged, SourceRead, SourceFailed, Quiet, server
<1> DEFINE T == f.todo \ {x}
<1>1. T \in SUBSET (Parts \union Mirrors)  BY Zenon, <1>0
<1>2. f' = [f EXCEPT !.todo = T] => f' = [f EXCEPT !.todo = T, !.res = f.res]  BY Zenon, <1>0 DEF Fetches
<1>3. CASE SourceUnchanged(x)
  <2>1. Typed /\ f' = [f EXCEPT !.todo = T]  BY Zenon, <1>3, StillTyped DEF SourceUnchanged
  <2> HIDE DEF T
  <2> QED  BY Zenon, <1>0, <1>1, <1>2, <2>1, SourceMoves
<1>4. CASE SourceFailed(x)
  <2>1. Typed /\ f' = [f EXCEPT !.todo = T, !.res = "error"]  BY Zenon, <1>4, StillTyped DEF SourceFailed
  <2> HIDE DEF T
  <2> QED  BY Zenon, <1>0, <1>1, <2>1, SourceMoves
<1>5. CASE SourceRead(x)
  <2>1. PICK n \in 0..srv[x] :
          /\ mapped' = [mapped EXCEPT ![x] = IF n > @ THEN n ELSE @]
          /\ IF n = srv[x] THEN f' = [f EXCEPT !.todo = T] /\ UNCHANGED fault
                           ELSE f' = [f EXCEPT !.todo = T, !.res = "error"] /\ Fault
    BY Zenon, <1>5 DEF SourceRead
  <2>2. x \in Names /\ srv[x] \in Vers /\ Header(x) \in Nat /\ Header(x) <= srv[x] /\ x # "list"
    BY Zenon, StoredFields, FileNames
  <2>3. n \in Vers /\ Header(x) \in Vers  BY <2>2 DEF Vers
  <2>4. mapped' \in [Parts -> Vers]  BY Zenon, <1>0, <2>1, <2>3
  <2>5. etagMap' \in [Parts -> Vers]
    <3>1. etagMap' = [etagMap EXCEPT ![x] = Header(x)]  BY Zenon, <1>5 DEF SourceRead
    <3> QED  BY Zenon, <1>0, <2>3, <3>1
  <2>6. fault' \in 0..MaxFault  BY <1>0, <2>1 DEF Fault
  <2>7. Typed  BY Zenon, <2>4, <2>5, <2>6 DEF Typed
  <2> HIDE DEF T
  <2>8. CASE n = srv[x]  BY Zenon, <1>0, <1>1, <1>2, <2>1, <2>7, <2>8, SourceMoves
  <2>9. CASE n # srv[x]  BY Zenon, <1>0, <1>1, <2>1, <2>7, <2>9, SourceMoves
  <2> QED  BY Zenon, <2>8, <2>9
<1> QED  BY Zenon, <1>3, <1>4, <1>5

(* debian: all Sources files were tried.                                   *)
LEMMA SourcesDoneStep ==
  ASSUME IInv, SourcesDone
  PROVE  IInv'
<1>0. /\ Quiet /\ UNCHANGED sources /\ UNCHANGED fault /\ f.pc = "sources" /\ f \in Fetches /\ Seen
      /\ mapped \in [Parts -> Vers]
  BY Zenon DEF IInv, Types, SourcesDone, Quiet, server
<1>1. Typed /\ AtSources /\ kind = "debian"  BY Zenon, <1>0, StillTyped DEF IInv, Learnt, Where
<1>2. CASE f.res = "error"
  <2>1. Return("error") /\ UNCHANGED stored  BY Zenon, <1>2 DEF SourcesDone
  <2>2. "error" # "unchanged"  BY Zenon
  <2> QED  BY Zenon, <1>0, <1>1, <2>1, <2>2, Returns
<1>3. CASE f.res # "error"
  <2> DEFINE data == [x \in Names |-> IF x \in Parts THEN mapped[x] ELSE f.got[x]]
  <2>1. Store(data, f.fp, TRUE, {})  BY Zenon, <1>3 DEF SourcesDone
  <2>2. f.got \in [Names -> Vers] /\ f.fp \in Fps  BY Zenon, <1>0, FetchFields
  <2>3. /\ data \in [Names -> Vers] /\ data["db"] = f.got["db"]
        /\ \A x \in Parts : data[x] = mapped[x] /\ mapped[x] \in Vers
        /\ f.got["db"] \in Vers
    BY Zenon, <1>0, <2>2, FileNames
  <2> HIDE DEF data
  <2>4. f.fp.date = 0 /\ (\A x \in Parts : f.fp.tag[x] = 0) /\ f.fp.tag["db"] <= f.got["db"]
    BY Zenon, <1>1 DEF AtSources, Undated
  <2>5. \A n \in Vers : 0 <= n  BY DEF Vers
  <2>6. f.fp.date <= data["db"]  BY Zenon, <2>3, <2>4, <2>5
  <2>7. ASSUME NEW x \in Names \ {"list"} PROVE f.fp.tag[x] <= data[x]
    <3>1. CASE x \in Parts  BY Zenon, <2>3, <2>4, <2>5, <3>1
    <3>2. CASE x = "db"  BY Zenon, <2>3, <2>4, <3>2
    <3> QED  BY Zenon, <2>7, <3>1, <3>2 DEF Names
  <2>8. Behind(f.fp.tag) /\ kind # "osv" /\ {} \in SUBSET (Parts \union Mirrors) /\ TRUE \in BOOLEAN
    BY Zenon, <1>0, <1>1 DEF Seen
  <2> QED  BY Zenon, <1>0, <1>1, <2>1, <2>2, <2>3, <2>6, <2>7, <2>8, Stored
<1> QED  BY Zenon, <1>2, <1>3

(* A request fails, or the process starts again.                           *)
LEMMA FailedStep ==
  ASSUME IInv, Failed \/ Restart
  PROVE  IInv'
<1>0. Quiet /\ UNCHANGED stored /\ Fault  BY Zenon DEF Failed, Restart, Quiet, server
<1>1. CASE Failed
  <2>1. Typed /\ Return("error")  BY Zenon, <1>0, <1>1, StillTyped DEF Failed
  <2>2. "error" # "unchanged"  BY Zenon
  <2> QED  BY Zenon, <1>0, <2>1, <2>2, Returns
<1>2. CASE Restart
  <2>1. /\ f' = [Idle EXCEPT !.res = "error"]
        /\ mapped' = [x \in Parts |-> 0] /\ etagMap' = [x \in Parts |-> 0]
    BY Zenon, <1>2 DEF Restart
  <2>2. fault \in 0..MaxFault /\ ServerTypes /\ stored \in Stores /\ Seen /\ Fits /\ Where  BY Zenon DEF IInv, Types
  <2>3. mapped' \in [Parts -> Vers] /\ etagMap' \in [Parts -> Vers] /\ fault' \in 0..MaxFault
    BY <1>0, <2>1, <2>2 DEF Fault, Vers
  <2>4. f'.pc = "idle" /\ f'.res = "error" /\ f'.start = None /\ f'.fp = NoFp  BY Zenon, <2>1 DEF Idle
  <2>5. f' \in Fetches  BY Zenon, <2>1, Blank DEF Fetches
  <2>6. Types'  BY Zenon, <1>0, <2>2, <2>3, <2>5, QuietServer DEF Types
  <2>7. Where'  BY Zenon, <1>0, <2>2, <2>4 DEF Where, Quiet
  <2>8. Seen'
    <3>1. \A x \in Names : 0 <= srv[x]  BY StoredFields
    <3>2. Behind(None)  BY Zenon, <3>1, Blank DEF Behind
    <3>3. \A m \in Mirrors : 0 <= mirror[m]  BY StoredFields
    <3>4. None["db"] = 0 /\ NoFp.tag = None  BY Zenon, Blank, FileNames
    <3> QED  BY Zenon, <1>0, <2>2, <2>4, <3>2, <3>3, <3>4, QuietServer DEF Seen, Quiet, Behind
  <2>9. Fits'  BY Zenon, <1>0, <2>2, QuietServer DEF Fits, NotAhead, TaggedListIsWhole, Quiet, Lists
  <2>10. Learnt'  BY Zenon, <2>4 DEF Learnt, UnchangedIsCurrent
  <2> QED  BY Zenon, <2>6, <2>7, <2>8, <2>9, <2>10 DEF IInv
<1> QED  BY Zenon, <1>1, <1>2

-----------------------------------------------------------------------------
(* aws: the checksum of one mirror and the contents of another.            *)
LEMMA RepoMDStep ==
  ASSUME IInv, NEW m \in Mirrors, RepoMD(m)
  PROVE  IInv'
<1>0. /\ Quiet /\ UNCHANGED sources /\ UNCHANGED stored /\ (UNCHANGED fault \/ Fault) /\ f.pc = "repomd"
      /\ f \in Fetches /\ Seen /\ Where /\ Fits
  BY Zenon DEF IInv, Types, RepoMD, Answers, Quiet, server
<1>1. Typed /\ f.fp = NoFp /\ kind = "aws"  BY Zenon, <1>0, StillTyped DEF IInv, Learnt, AtRepomd, Where
<1>2. /\ mirror[m] \in Nat /\ mirror[m] <= srv["db"] /\ f.start["db"] <= mirror[m] /\ f.start["db"] \in Nat
      /\ stored.data["db"] \in Nat /\ "db" \in Names \ {"list"}
  BY <1>0, <1>1, StoredFields, FetchFields, FileNames DEF Seen, Vers
<1>3. CASE stored.fp.tag["db"] = mirror[m]
  <2>1. Return("unchanged")  BY Zenon, <1>3 DEF RepoMD
  <2>2. stored.whole => mirror[m] <= stored.data["db"]  BY Zenon, <1>0, <1>2, <1>3 DEF Fits, NotAhead
  <2>3. stored.whole => stored.data["db"] >= f.start["db"]  BY <1>2, <2>2
  <2>4. \A x \in IF kind = "debian" THEN {"db"} ELSE Files : x = "db"  BY Zenon, <1>1 DEF Files
  <2> QED  BY Zenon, <1>0, <1>1, <2>1, <2>3, <2>4, Returns
<1>4. CASE stored.fp.tag["db"] # mirror[m]
  <2>1. f' = [f EXCEPT !.pc = "updates", !.fp.tag["db"] = mirror[m], !.fp.known = {m}]  BY Zenon, <1>4 DEF RepoMD
  <2>2. /\ f'.pc = "updates" /\ f'.start = f.start /\ f'.got = f.got /\ f'.todo = f.todo /\ f'.whole = f.whole
        /\ f'.res = f.res /\ f'.fp.tag = [NoFp.tag EXCEPT !["db"] = mirror[m]] /\ f'.fp.known = {m}
        /\ f'.fp.date = NoFp.date
    BY Zenon, <1>0, <1>1, <2>1 DEF Fetches, Fps
  <2>3. /\ f'.fp.tag \in [Names -> Nat] /\ f'.fp.tag["db"] = mirror[m] /\ f'.fp.date = 0
        /\ \A x \in Names : x # "db" => f'.fp.tag[x] = 0
    BY <1>2, <2>2, Blank
  <2>4. f' \in Fetches
    <3>1. {m} \subseteq Parts \union Mirrors /\ 0 \in Nat /\ "updates" \in PCs  BY Zenon DEF PCs
    <3>2. f'.fp.tag \in [Names -> Nat] /\ f'.fp.date \in Nat /\ f'.fp.known \in SUBSET (Parts \union Mirrors)
      BY Zenon, <2>2, <2>3, <3>1
    <3>3. f' = [f EXCEPT !.pc = "updates", !.fp = [f.fp EXCEPT !.tag = [f.fp.tag EXCEPT !["db"] = mirror[m]], !.known = {m}]]
      BY Zenon, <1>0, <2>1 DEF Fetches, Fps
    <3>4. f'.fp = [f.fp EXCEPT !.tag = [f.fp.tag EXCEPT !["db"] = mirror[m]], !.known = {m}]  BY Zenon, <1>0, <3>3 DEF Fetches
    <3>5. f'.fp \in Fps  BY Zenon, <1>0, <3>2, <3>4 DEF Fps, Fetches
    <3> QED  BY Zenon, <1>0, <3>1, <3>3, <3>4, <3>5 DEF Fetches
  <2>5. Behind(f'.fp.tag)
    <3>1. \A x \in Names : 0 <= srv[x]  BY StoredFields
    <3> SUFFICES ASSUME NEW x \in Names PROVE f'.fp.tag[x] <= srv[x]  BY Zenon DEF Behind
    <3> QED  BY Zenon, <1>2, <2>3, <3>1
  <2>6. Where'  BY Zenon, <1>0, <1>1, <2>2 DEF Where, Quiet
  <2>7. AtUpdates'
    <3>1. Undated(Parts)'  BY Zenon, <2>3, FileNames DEF Undated
    <3>2. mirror[m] <= mirror'[m]  BY <1>0, <1>2 DEF Quiet
    <3> QED  BY Zenon, <2>2, <2>3, <3>1, <3>2 DEF AtUpdates
  <2>8. Learnt'  BY Zenon, <2>2, <2>7 DEF Learnt
  <2> QED  BY Zenon, <1>0, <1>1, <2>2, <2>4, <2>5, <2>6, <2>8, GoesOn
<1> QED  BY Zenon, <1>3, <1>4

(* aws: updateinfo is read, from this mirror or from another.              *)
LEMMA UpdatesStep ==
  ASSUME IInv, NEW m \in Mirrors, Updates(m)
  PROVE  IInv'
<1> DEFINE data == [None EXCEPT !["db"] = mirror[m]]
           whole == m \in f.fp.known
<1>0. /\ Quiet /\ UNCHANGED sources /\ (UNCHANGED fault \/ Fault) /\ f.pc = "updates"
      /\ f \in Fetches /\ Seen /\ Where /\ Store(data, f.fp, whole, {})
  BY Zenon DEF IInv, Types, Updates, Answers, Quiet, server
<1>1. Typed /\ AtUpdates /\ kind = "aws"  BY Zenon, <1>0, StillTyped DEF IInv, Learnt, Where
<1>2. PICK n \in Mirrors : f.fp.known = {n} /\ f.fp.tag["db"] <= mirror[n]  BY Zenon, <1>1 DEF AtUpdates
<1>3. f.fp.date = 0 /\ \A x \in Parts : f.fp.tag[x] = 0  BY Zenon, <1>1 DEF AtUpdates, Undated
<1>4. /\ mirror[m] \in Vers /\ 0 <= mirror[m] /\ "db" \in Names
  BY StoredFields, FileNames DEF Vers
<1>5. data \in [Names -> Vers] /\ data["db"] = mirror[m] /\ \A x \in Names : x # "db" => data[x] = 0
  BY Zenon, <1>4, Blank
<1>6. whole => mirror[n] = mirror[m]  BY Zenon, <1>2
<1>7. /\ whole \in BOOLEAN
      /\ {} \in SUBSET (Parts \union Mirrors)
      /\ f.fp \in Fps /\ Behind(f.fp.tag)
  <2>1. f.fp \in Fps /\ Behind(f.fp.tag)  BY Zenon, <1>0 DEF Seen, Fetches
  <2> QED  BY <2>1
<1>8. kind # "osv"  BY Zenon, <1>1
<1> HIDE DEF data, whole
<1>9. whole => f.fp.date <= data["db"]  BY Zenon, <1>3, <1>4, <1>5
<1>10. ASSUME whole, NEW x \in Names \ {"list"} PROVE f.fp.tag[x] <= data[x]
  <2>1. CASE x = "db"  BY Zenon, <1>2, <1>5, <1>6, <1>10, <2>1
  <2>2. CASE x \in Parts
    <3>1. x # "db" /\ f.fp.tag[x] = 0 /\ data[x] = 0  BY Zenon, <1>3, <1>5, <2>2, FileNames
    <3> QED  BY <3>1
  <2> QED  BY Zenon, <1>10, <2>1, <2>2 DEF Names
<1> QED  BY Zenon, <1>0, <1>1, <1>5, <1>7, <1>8, <1>9, <1>10, Stored

-----------------------------------------------------------------------------
(* cvss: the checksums of all years, then their files.                     *)
LEMMA MetaStep ==
  ASSUME IInv, NEW y \in Parts, Meta(y)
  PROVE  IInv'
<1>0. /\ Quiet /\ UNCHANGED sources /\ UNCHANGED stored /\ UNCHANGED fault /\ f.pc = "meta"
      /\ f \in Fetches /\ Seen /\ Where /\ f' = [f EXCEPT !.todo = @ \ {y}, !.fp.tag[y] = srv[y]]
  BY Zenon DEF IInv, Types, Meta, Quiet, server
<1>1. Typed /\ AtMeta /\ kind = "cvss"  BY Zenon, <1>0, StillTyped DEF IInv, Learnt, Where
<1>2. /\ f'.pc = "meta" /\ f'.start = f.start /\ f'.got = f.got /\ f'.todo = f.todo \ {y} /\ f'.whole = f.whole
      /\ f'.res = f.res /\ f'.fp.tag = [f.fp.tag EXCEPT ![y] = srv[y]] /\ f'.fp.known = f.fp.known
      /\ f'.fp.date = f.fp.date
  BY Zenon, <1>0 DEF Fetches, Fps
<1>3. y \in Names /\ y # "db" /\ srv[y] \in Nat /\ f.fp.tag \in [Names -> Nat] /\ f.start[y] <= srv[y] /\ f.start[y] \in Nat
  BY Zenon, <1>0, StoredFields, FetchFields, FileNames DEF Seen, Behind
<1>4. f'.fp.tag \in [Names -> Nat] /\ f'.fp.tag[y] = srv[y] /\ \A x \in Names : x # y => f'.fp.tag[x] = f.fp.tag[x]
  BY Zenon, <1>2, <1>3
<1>5. f' \in Fetches  BY Zenon, <1>0, <1>2, <1>4, FetchFields DEF Fetches, Fps
<1>6. Behind(f'.fp.tag)
  <2>1. srv[y] <= srv[y]  BY <1>3
  <2> SUFFICES ASSUME NEW x \in Names PROVE f'.fp.tag[x] <= srv[x]  BY Zenon DEF Behind
  <2> QED  BY Zenon, <1>0, <1>4, <2>1 DEF Seen, Behind
<1>7. Where'  BY Zenon, <1>0, <1>1, <1>2 DEF Where, Quiet
<1>8. AtMeta'
  <2>0. f.fp.date = 0 /\ f.fp.tag["db"] = 0 /\ "db" \in Names  BY Zenon, <1>1, FileNames DEF AtMeta, Undated
  <2>3. f'.fp.date = 0 /\ f'.fp.tag["db"] = 0  BY Zenon, <1>2, <1>3, <1>4, <2>0
  <2>1. Undated({"db"})'  BY Zenon, <2>3 DEF Undated
  <2>2. ASSUME NEW x \in Parts \ f'.todo PROVE f'.fp.tag[x] >= f'.start[x]
    <3>1. CASE x = y
      <4>1. srv[y] >= f.start[y]  BY Zenon, <1>3
      <4> QED  BY Zenon, <1>2, <1>4, <3>1, <4>1
    <3>2. CASE x # y
      <4>1. x \in Parts \ f.todo /\ x \in Names  BY Zenon, <1>2, <2>2, <3>2, FileNames
      <4>2. f.fp.tag[x] >= f.start[x] /\ f'.fp.tag[x] = f.fp.tag[x]  BY Zenon, <1>1, <1>4, <3>2, <4>1 DEF AtMeta
      <4> QED  BY Zenon, <1>2, <4>2
    <3> QED  BY Zenon, <3>1, <3>2
  <2> QED  BY Zenon, <1>1, <1>2, <2>1, <2>2 DEF AtMeta
<1>9. Learnt'  BY Zenon, <1>2, <1>8 DEF Learnt
<1> QED  BY Zenon, <1>0, <1>1, <1>2, <1>5, <1>6, <1>7, <1>9, GoesOn

(* cvss: all checksums are known and compared with the stored ones.        *)
LEMMA MetaDoneStep ==
  ASSUME IInv, MetaDone
  PROVE  IInv'
<1>0. /\ Quiet /\ UNCHANGED sources /\ UNCHANGED stored /\ UNCHANGED fault /\ f.pc = "meta" /\ f.todo = {}
      /\ f \in Fetches /\ Seen /\ Where /\ Fits
  BY Zenon DEF IInv, Types, MetaDone, Quiet, server
<1>1. Typed /\ AtMeta /\ kind = "cvss"  BY Zenon, <1>0, StillTyped DEF IInv, Learnt, Where
<1>2. CASE stored.fp.tag = f.fp.tag
  <2>1. Return("unchanged")  BY Zenon, <1>2 DEF MetaDone
  <2>2. ASSUME stored.whole, NEW x \in Parts PROVE stored.data[x] >= f.start[x]
    <3>1. x \in Parts \ f.todo /\ x \in Names \ {"list"}  BY Zenon, <1>0, FileNames
    <3>2. f.fp.tag[x] >= f.start[x] /\ f.fp.tag[x] <= stored.data[x]
      BY Zenon, <1>0, <1>1, <1>2, <2>2, <3>1 DEF AtMeta, Fits, NotAhead
    <3>3. f.fp.tag[x] \in Nat /\ f.start[x] \in Nat /\ stored.data[x] \in Nat
      BY <1>0, <3>1, FetchFields, StoredFields DEF Vers
    <3> QED  BY <3>2, <3>3
  <2>3. (IF kind = "debian" THEN {"db"} ELSE Files) = Parts  BY Zenon, <1>1 DEF Files
  <2> QED  BY Zenon, <1>0, <1>1, <2>1, <2>2, <2>3, Returns
<1>3. CASE stored.fp.tag # f.fp.tag
  <2>1. f' = [f EXCEPT !.pc = "json", !.todo = Parts]  BY Zenon, <1>3 DEF MetaDone
  <2>2. f'.pc = "json" /\ f'.start = f.start /\ f'.todo = Parts /\ f'.fp = f.fp /\ f'.got = f.got
    BY Zenon, <1>0, <2>1 DEF Fetches
  <2>3. f' \in Fetches  BY Zenon, <1>0, <2>1 DEF Fetches, PCs
  <2>4. Behind(f'.fp.tag)  BY Zenon, <1>0, <2>2 DEF Seen
  <2>5. Where'  BY Zenon, <1>0, <1>1, <2>2 DEF Where, Quiet
  <2>6. AtJson'
    <3>1. Undated({"db"})'  BY Zenon, <1>1, <2>2 DEF AtMeta, Undated
    <3>2. Parts \ f'.todo = {}  BY Zenon, <2>2
    <3> QED  BY Zenon, <3>1, <3>2 DEF AtJson
  <2>7. Learnt'  BY Zenon, <2>2, <2>6 DEF Learnt
  <2> QED  BY Zenon, <1>0, <1>1, <2>2, <2>3, <2>4, <2>5, <2>7, GoesOn
<1> QED  BY Zenon, <1>2, <1>3

(* cvss: the file of one year.                                             *)
LEMMA JsonStep ==
  ASSUME IInv, NEW y \in Parts, Json(y)
  PROVE  IInv'
<1>0. /\ Quiet /\ UNCHANGED sources /\ UNCHANGED stored /\ UNCHANGED fault /\ f.pc = "json"
      /\ f \in Fetches /\ Seen /\ Where
      /\ IF srv[y] = 0 THEN Return("error") ELSE f' = [f EXCEPT !.todo = @ \ {y}, !.got[y] = srv[y]]
  BY Zenon DEF IInv, Types, Json, Quiet, server
<1>1. Typed /\ AtJson /\ kind = "cvss"  BY Zenon, <1>0, StillTyped DEF IInv, Learnt, Where
<1>2. CASE srv[y] = 0
  <2>1. "error" # "unchanged" /\ Return("error")  BY Zenon, <1>0, <1>2
  <2> QED  BY Zenon, <1>0, <1>1, <2>1, Returns
<1>3. CASE srv[y] # 0
  <2>1. f' = [f EXCEPT !.todo = @ \ {y}, !.got[y] = srv[y]]  BY Zenon, <1>0, <1>3
  <2>2. /\ f'.pc = "json" /\ f'.start = f.start /\ f'.got = [f.got EXCEPT ![y] = srv[y]] /\ f'.todo = f.todo \ {y}
        /\ f'.fp = f.fp
    BY Zenon, <1>0, <2>1 DEF Fetches
  <2>3. y \in Names /\ srv[y] \in Vers /\ f.got \in [Names -> Vers] /\ f.fp.tag[y] <= srv[y]
    BY Zenon, <1>0, StoredFields, FetchFields, FileNames DEF Seen, Behind
  <2>4. f'.got \in [Names -> Vers] /\ f'.got[y] = srv[y] /\ \A x \in Names : x # y => f'.got[x] = f.got[x]
    BY Zenon, <2>2, <2>3
  <2>5. f' \in Fetches  BY Zenon, <1>0, <2>1, <2>2, <2>4, FetchFields DEF Fetches
  <2>6. Behind(f'.fp.tag)  BY Zenon, <1>0, <2>2 DEF Seen
  <2>7. Where'  BY Zenon, <1>0, <1>1, <2>2 DEF Where, Quiet
  <2>8. AtJson'
    <3>1. Undated({"db"})'  BY Zenon, <1>1, <2>2 DEF AtJson, Undated
    <3>2. ASSUME NEW x \in Parts \ f'.todo PROVE f'.fp.tag[x] <= f'.got[x]
      <4>1. CASE x = y  BY Zenon, <2>2, <2>3, <2>4, <4>1
      <4>2. CASE x # y
        <5>1. x \in Parts \ f.todo /\ x \in Names  BY Zenon, <2>2, <3>2, <4>2, FileNames
        <5>2. f.fp.tag[x] <= f.got[x] /\ f'.got[x] = f.got[x]  BY Zenon, <1>1, <2>4, <4>2, <5>1 DEF AtJson
        <5> QED  BY Zenon, <2>2, <5>2
      <4> QED  BY Zenon, <4>1, <4>2
    <3> QED  BY Zenon, <3>1, <3>2 DEF AtJson
  <2>9. Learnt'  BY Zenon, <2>2, <2>8 DEF Learnt
  <2> QED  BY Zenon, <1>0, <1>1, <2>2, <2>5, <2>6, <2>7, <2>9, GoesOn
<1> QED  BY Zenon, <1>2, <1>3

(* cvss: the files of all years are stored.                                *)
LEMMA JsonDoneStep ==
  ASSUME IInv, JsonDone
  PROVE  IInv'
<1>0. /\ Quiet /\ UNCHANGED sources /\ UNCHANGED fault /\ f.pc = "json" /\ f.todo = {}
      /\ f \in Fetches /\ Seen /\ Where /\ Store(f.got, f.fp, TRUE, {})
  BY Zenon DEF IInv, Types, JsonDone, Quiet, server
<1>1. Typed /\ AtJson /\ kind = "cvss"  BY Zenon, <1>0, StillTyped DEF IInv, Learnt, Where
<1>2. f.got \in [Names -> Vers] /\ f.fp \in Fps /\ \A x \in Names : f.got[x] >= 0 /\ 0 <= f.got[x]
  BY <1>0, FetchFields DEF Vers
<1>3. f.fp.date = 0 /\ f.fp.tag["db"] = 0 /\ \A x \in Parts : f.fp.tag[x] <= f.got[x]
  BY Zenon, <1>0, <1>1 DEF AtJson, Undated
<1>4. f.fp.date <= f.got["db"]  BY Zenon, <1>2, <1>3, FileNames
<1>5. \A x \in Names \ {"list"} : f.fp.tag[x] <= f.got[x]  BY Zenon, <1>2, <1>3 DEF Names
<1>6. kind # "osv" /\ {} \in SUBSET (Parts \union Mirrors) /\ TRUE \in BOOLEAN /\ Behind(f.fp.tag)
  BY Zenon, <1>0, <1>1 DEF Seen
<1> QED  BY Zenon, <1>0, <1>1, <1>2, <1>4, <1>5, <1>6, Stored

-----------------------------------------------------------------------------
(* osv: the list of ecosystems, then the file of each.                     *)
LEMMA ListStep ==
  ASSUME IInv, List
  PROVE  IInv'
<1>0. /\ Quiet /\ UNCHANGED sources /\ UNCHANGED stored /\ UNCHANGED fault /\ f.pc = "list"
      /\ f \in Fetches /\ Seen /\ Where /\ Fits
  BY Zenon DEF IInv, Types, List, Quiet, server
<1>1. Typed /\ AtList /\ kind = "osv" /\ stored.fp.known \subseteq Parts
  BY Zenon, <1>0, StillTyped DEF IInv, Learnt, Where
<1>2. f.fp = NoFp /\ f.got = None /\ f.whole  BY Zenon, <1>1 DEF AtList
<1>3. Started \subseteq Ecosystems
  <2> SUFFICES ASSUME NEW x \in Parts, f.start[x] > 0 PROVE srv[x] > 0  BY Zenon DEF Started, Ecosystems
  <2>1. x \in Names /\ f.start[x] <= srv[x] /\ f.start[x] \in Nat /\ srv[x] \in Nat
    BY Zenon, <1>0, FileNames, FetchFields, StoredFields DEF Seen, Behind
  <2> QED  BY <2>1
<1>4. /\ f.fp.date = 0 /\ f.fp.known = {} /\ \A x \in Names : f.fp.tag[x] = 0
  BY Zenon, <1>2, Blank
<1>5. {"db"} \union Parts \subseteq Names /\ "list" \in Names /\ "list" \notin {"db"} \union Parts  BY Zenon DEF Names
<1>6. CASE NotModified("list", stored.fp.tag["list"])
  <2>1. f' = [f EXCEPT !.pc = "zips", !.todo = stored.fp.known, !.whole = FALSE]  BY Zenon, <1>6 DEF List
  <2>2. /\ f'.pc = "zips" /\ f'.start = f.start /\ f'.got = f.got /\ f'.todo = stored.fp.known /\ f'.whole = FALSE
        /\ f'.fp = f.fp
    BY Zenon, <1>0, <2>1 DEF Fetches
  <2>3. f' \in Fetches  BY Zenon, <1>0, <2>1, StoredFields DEF Fetches, PCs
  <2>4. Behind(f'.fp.tag)  BY Zenon, <1>0, <2>2 DEF Seen
  <2>5. Where'  BY Zenon, <1>0, <1>1, <2>2 DEF Where, Quiet
  <2>6. Ecosystems \subseteq stored.fp.known
    BY Zenon, <1>0, <1>1, <1>6 DEF NotModified, Fits, Lists
  <2>7. AtZips'
    <3>1. Undated({"db"} \union (Parts \ f.fp.known))'  BY Zenon, <1>4, <1>5, <2>2 DEF Undated
    <3>2. Started' = Started  BY Zenon, <2>2 DEF Started
    <3>3. f'.fp.known = {} /\ f'.fp.tag["list"] = 0 /\ ~f'.whole /\ stored'.fp.known = stored.fp.known
      BY Zenon, <1>0, <1>4, <1>5, <2>2
    <3>4. f'.todo \union f'.fp.known = stored.fp.known  BY Zenon, <2>2, <3>3
    <3>5. Started' \subseteq stored'.fp.known  BY Zenon, <1>3, <2>6, <3>2, <3>3
    <3> QED  BY Zenon, <1>1, <3>1, <3>3, <3>4, <3>5 DEF AtZips
  <2>8. Learnt'  BY Zenon, <2>2, <2>7 DEF Learnt
  <2> QED  BY Zenon, <1>0, <1>1, <2>2, <2>3, <2>4, <2>5, <2>8, GoesOn
<1>7. CASE ~NotModified("list", stored.fp.tag["list"])
  <2>1. f' = [f EXCEPT !.pc = "zips", !.todo = Ecosystems, !.fp.tag["list"] = Header("list")]
    BY Zenon, <1>7 DEF List
  <2>2. /\ f'.pc = "zips" /\ f'.start = f.start /\ f'.got = f.got /\ f'.todo = Ecosystems /\ f'.whole = f.whole
        /\ f'.res = f.res /\ f'.fp.tag = [f.fp.tag EXCEPT !["list"] = Header("list")]
        /\ f'.fp.known = f.fp.known /\ f'.fp.date = f.fp.date
    BY Zenon, <1>0, <2>1 DEF Fetches, Fps
  <2>3. /\ Header("list") \in Nat /\ Header("list") <= srv["list"] /\ f.fp.tag \in [Names -> Nat]
        /\ Ecosystems \subseteq Parts
    BY Zenon, <1>0, <1>5, StoredFields, FetchFields DEF Ecosystems
  <2>4. /\ f'.fp.tag \in [Names -> Nat] /\ f'.fp.tag["list"] = Header("list")
        /\ \A x \in Names : x # "list" => f'.fp.tag[x] = 0
    <3> DEFINE t == [f.fp.tag EXCEPT !["list"] = Header("list")]
    <3>1. t \in [Names -> Nat] /\ t["list"] = Header("list") /\ \A x \in Names : x # "list" => t[x] = f.fp.tag[x]
      <4>1. f.fp.tag \in [Names -> Nat] /\ "list" \in Names /\ Header("list") \in Nat  BY Zenon, <1>5, <2>3
      <4> QED  BY Zenon, <4>1, Updated
    <3>2. f'.fp.tag = t  BY Zenon, <2>2
    <3> HIDE DEF t
    <3> QED  BY Zenon, <1>4, <3>1, <3>2
  <2>5. f' \in Fetches
    <3>1. "zips" \in PCs /\ Ecosystems \subseteq Parts \union Mirrors  BY Zenon, <2>3 DEF PCs
    <3> QED  BY Zenon, <1>0, <2>1, <2>2, <2>4, <3>1, FetchFields DEF Fetches, Fps
  <2>6. Behind(f'.fp.tag)
    <3>1. \A x \in Names : 0 <= srv[x]  BY StoredFields
    <3> SUFFICES ASSUME NEW x \in Names PROVE f'.fp.tag[x] <= srv[x]  BY Zenon DEF Behind
    <3> QED  BY Zenon, <2>3, <2>4, <3>1
  <2>7. Where'  BY Zenon, <1>0, <1>1, <2>2 DEF Where, Quiet
  <2>8. AtZips'
    <3>1. Undated({"db"} \union (Parts \ f.fp.known))'
      <4>1. \A x \in {"db"} \union Parts : f'.fp.tag[x] = 0  BY Zenon, <1>5, <2>4
      <4> QED  BY Zenon, <1>4, <2>2, <4>1 DEF Undated
    <3>2. Started' = Started /\ Ecosystems' = Ecosystems  BY Zenon, <1>0, <2>2 DEF Started, Ecosystems, Quiet, server
    <3>3. f'.fp.known = {} /\ f'.whole  BY Zenon, <1>2, <1>4, <2>2
    <3>4. f'.todo \union f'.fp.known = Ecosystems  BY Zenon, <2>2, <3>3
    <3>5. Lists(f.fp.tag["list"], f.todo \union f.fp.known)'  BY Zenon, <3>2, <3>4 DEF Lists
    <3> QED  BY Zenon, <1>3, <2>2, <2>3, <3>1, <3>2, <3>3, <3>4, <3>5 DEF AtZips
  <2>9. Learnt'  BY Zenon, <2>2, <2>8 DEF Learnt
  <2> QED  BY Zenon, <1>0, <1>1, <2>2, <2>5, <2>6, <2>7, <2>9, GoesOn
<1> QED  BY Zenon, <1>6, <1>7

(* osv: the file of one ecosystem.                                         *)
LEMMA ZipStep ==
  ASSUME IInv, NEW x \in Parts, Zip(x)
  PROVE  IInv'
<1> DEFINE tag == IF f.whole THEN 0 ELSE stored.fp.tag[x]
           v == IF NotModified(x, tag) THEN 0 ELSE srv[x]
<1>0. /\ Quiet /\ UNCHANGED sources /\ UNCHANGED stored /\ UNCHANGED fault /\ f.pc = "zips" /\ x \in f.todo
      /\ f \in Fetches /\ Seen /\ Where /\ Fits
      /\ f' = [f EXCEPT !.todo = @ \ {x}, !.got[x] = v, !.fp.tag[x] = Header(x), !.fp.known = @ \union {x}]
  BY Zenon DEF IInv, Types, Zip, Quiet, server
<1>1. Typed /\ AtZips /\ kind = "osv"  BY Zenon, <1>0, StillTyped DEF IInv, Learnt, Where
<1>2. /\ x \in Names /\ x # "list" /\ srv[x] \in Vers /\ srv[x] \in Nat /\ Header(x) \in Nat /\ Header(x) <= srv[x]
      /\ f.start[x] <= srv[x] /\ f.start[x] \in Nat /\ stored.fp.tag[x] \in Nat
  BY Zenon, <1>0, FileNames, StoredFields, FetchFields DEF Seen, Behind
<1>3. v \in Vers  BY <1>2 DEF Vers
<1>4. f.whole => v = srv[x]  BY Zenon DEF NotModified
<1>5. ~f.whole /\ v = 0 => stored.fp.tag[x] >= f.start[x]
  <2> SUFFICES ASSUME ~f.whole, v = 0 PROVE stored.fp.tag[x] >= f.start[x]  BY Zenon
  <2>1. CASE NotModified(x, tag)
    <3>1. stored.fp.tag[x] = srv[x]  BY Zenon, <2>1 DEF NotModified
    <3> QED  BY Zenon, <1>2, <3>1
  <2>2. CASE ~NotModified(x, tag)
    <3>1. srv[x] = 0  BY Zenon, <2>2
    <3> QED  BY <1>2, <3>1
  <2> QED  BY Zenon, <2>1, <2>2
<1> HIDE DEF v, tag
<1>6. /\ f' \in Fetches
      /\ f'.pc = f.pc /\ f'.start = f.start /\ f'.whole = f.whole /\ f'.todo = f.todo \ {x}
      /\ f'.got = [f.got EXCEPT ![x] = v] /\ f'.fp.tag = [f.fp.tag EXCEPT ![x] = Header(x)]
      /\ f'.fp.known = f.fp.known \union {x} /\ f'.fp.date = f.fp.date
  BY Zenon, <1>0, <1>2, <1>3, ZipFields
<1>7. /\ f'.got[x] = v /\ \A z \in Names : z # x => f'.got[z] = f.got[z]
      /\ f'.fp.tag[x] = Header(x) /\ \A z \in Names : z # x => f'.fp.tag[z] = f.fp.tag[z]
  <2> DEFINE t == [f.fp.tag EXCEPT ![x] = Header(x)]
             g == [f.got EXCEPT ![x] = v]
  <2>1. f.fp.tag \in [Names -> Nat] /\ f.got \in [Names -> Vers]  BY Zenon, <1>0, FetchFields
  <2>2. t[x] = Header(x) /\ \A z \in Names : z # x => t[z] = f.fp.tag[z]  BY Zenon, <1>2, <2>1, Updated
  <2>3. g[x] = v /\ \A z \in Names : z # x => g[z] = f.got[z]  BY Zenon, <1>2, <1>3, <2>1, Updated
  <2>4. f'.fp.tag = t /\ f'.got = g  BY Zenon, <1>6
  <2> HIDE DEF t, g
  <2> QED  BY Zenon, <2>2, <2>3, <2>4
<1>8. Behind(f'.fp.tag)
  <2> SUFFICES ASSUME NEW z \in Names PROVE f'.fp.tag[z] <= srv[z]  BY Zenon DEF Behind
  <2> QED  BY Zenon, <1>0, <1>2, <1>7 DEF Seen, Behind
<1>9. Where'  BY Zenon, <1>0, <1>1, <1>6 DEF Where, Quiet
<1>10. f'.todo \union f'.fp.known = f.todo \union f.fp.known
  <2>1. x \in f.todo /\ f'.todo = f.todo \ {x} /\ f'.fp.known = f.fp.known \union {x}  BY Zenon, <1>0, <1>6
  <2> QED  BY Zenon, <2>1
<1>11. /\ Undated({"db"} \union (Parts \ f.fp.known)) /\ f.todo \union f.fp.known \subseteq Parts
       /\ f.whole =>
            /\ \A z \in f.fp.known : f.got[z] > 0 /\ f.fp.tag[z] <= f.got[z]
            /\ f.todo \subseteq Ecosystems /\ Started \subseteq f.todo \union f.fp.known
            /\ Lists(f.fp.tag["list"], f.todo \union f.fp.known)
       /\ ~f.whole =>
            /\ f.fp.tag["list"] = 0 /\ Started \subseteq stored.fp.known
            /\ stored.fp.known \subseteq f.todo \union f.fp.known
            /\ \A z \in f.fp.known : f.got[z] = 0 => stored.fp.tag[z] >= f.start[z]
  BY Zenon, <1>1 DEF AtZips
<1>12. f.fp.known \subseteq Names /\ "list" \in Names /\ "db" \in Names /\ x # "db"  BY Zenon, <1>11, FileNames
<1>13. f'.fp.tag["list"] = f.fp.tag["list"]  BY Zenon, <1>2, <1>7, <1>12
<1>14. Started' = Started /\ Ecosystems' = Ecosystems /\ srv' = srv
  BY Zenon, <1>0, <1>6 DEF Started, Ecosystems, Quiet, server
<1>15. Undated({"db"} \union (Parts \ f.fp.known))'
  <2> SUFFICES ASSUME NEW z \in {"db"} \union (Parts \ f'.fp.known) PROVE f'.fp.tag[z] = 0
    BY Zenon, <1>6, <1>11 DEF Undated
  <2>1. z \in {"db"} \union (Parts \ f.fp.known) /\ z # x /\ z \in Names  BY Zenon, <1>6, <1>12, FileNames
  <2> QED  BY Zenon, <1>7, <1>11, <2>1 DEF Undated
<1>16. ASSUME f'.whole
       PROVE  /\ \A z \in f'.fp.known : f'.got[z] > 0 /\ f'.fp.tag[z] <= f'.got[z]
              /\ f'.todo \subseteq Ecosystems' /\ Started' \subseteq f'.todo \union f'.fp.known
              /\ Lists(f.fp.tag["list"], f.todo \union f.fp.known)'
  <2>1. f.whole  BY Zenon, <1>6, <1>16
  <2>2. srv[x] > 0 /\ v = srv[x]  BY Zenon, <1>0, <1>4, <1>11, <2>1 DEF Ecosystems
  <2>3. ASSUME NEW z \in f'.fp.known PROVE f'.got[z] > 0 /\ f'.fp.tag[z] <= f'.got[z]
    <3>1. CASE z = x  BY Zenon, <1>2, <1>7, <2>2, <3>1
    <3>2. CASE z # x
      <4>1. z \in f.fp.known /\ z \in Names  BY Zenon, <1>6, <1>12, <2>3, <3>2
      <4> QED  BY Zenon, <1>7, <1>11, <2>1, <3>2, <4>1
    <3> QED  BY Zenon, <3>1, <3>2
  <2>4. Lists(f.fp.tag["list"], f.todo \union f.fp.known)'
    BY Zenon, <1>10, <1>11, <1>13, <1>14, <2>1 DEF Lists
  <2>5. f'.todo \subseteq Ecosystems' /\ Started' \subseteq f'.todo \union f'.fp.known
    BY Zenon, <1>6, <1>10, <1>11, <1>14, <2>1
  <2> QED  BY Zenon, <2>3, <2>4, <2>5
<1>17. ASSUME ~f'.whole
       PROVE  /\ f'.fp.tag["list"] = 0 /\ Started' \subseteq stored'.fp.known
              /\ stored'.fp.known \subseteq f'.todo \union f'.fp.known
              /\ \A z \in f'.fp.known : f'.got[z] = 0 => stored'.fp.tag[z] >= f'.start[z]
  <2>1. ~f.whole  BY Zenon, <1>6, <1>17
  <2>2. f'.fp.tag["list"] = 0  BY Zenon, <1>11, <1>13, <2>1
  <2>3. Started' \subseteq stored'.fp.known  BY Zenon, <1>0, <1>11, <1>14, <2>1
  <2>4. stored'.fp.known \subseteq f'.todo \union f'.fp.known  BY Zenon, <1>0, <1>10, <1>11, <2>1
  <2>5. ASSUME NEW z \in f'.fp.known, f'.got[z] = 0 PROVE stored.fp.tag[z] >= f.start[z]
    <3>1. CASE z = x  BY Zenon, <1>5, <1>7, <2>1, <2>5, <3>1
    <3>2. CASE z # x
      <4>1. z \in f.fp.known /\ z \in Names  BY Zenon, <1>6, <1>12, <2>5, <3>2
      <4>2. f.got[z] = 0  BY Zenon, <1>7, <2>5, <3>2, <4>1
      <4> QED  BY Zenon, <1>11, <2>1, <4>1, <4>2
    <3> QED  BY Zenon, <3>1, <3>2
  <2>6. \A z \in f'.fp.known : f'.got[z] = 0 => stored'.fp.tag[z] >= f'.start[z]  BY Zenon, <1>0, <1>6, <2>5
  <2> QED  BY Zenon, <2>2, <2>3, <2>4, <2>6
<1>18. AtZips'  BY Zenon, <1>10, <1>11, <1>15, <1>16, <1>17 DEF AtZips
<1>19. Learnt'  BY Zenon, <1>0, <1>6, <1>18 DEF Learnt
<1> QED  BY Zenon, <1>0, <1>1, <1>6, <1>8, <1>9, <1>19, GoesOn

(* osv: all ecosystems were tried.                                         *)
LEMMA ZipsDoneStep ==
  ASSUME IInv, ZipsDone
  PROVE  IInv'
<1>0. /\ Quiet /\ UNCHANGED sources /\ UNCHANGED fault /\ f.pc = "zips" /\ f.todo = {}
      /\ f \in Fetches /\ Seen /\ Where /\ Fits
  BY Zenon DEF IInv, Types, ZipsDone, Quiet, server
<1>1. Typed /\ AtZips /\ kind = "osv"  BY Zenon, <1>0, StillTyped DEF IInv, Learnt, Where
<1>2. f.todo \union f.fp.known = f.fp.known  BY Zenon, <1>0
<1>3. /\ Undated({"db"} \union (Parts \ f.fp.known)) /\ f.fp.known \subseteq Parts
      /\ f.whole =>
           /\ \A z \in f.fp.known : f.got[z] > 0 /\ f.fp.tag[z] <= f.got[z]
           /\ Started \subseteq f.fp.known /\ Lists(f.fp.tag["list"], f.fp.known)
      /\ ~f.whole =>
           /\ f.fp.tag["list"] = 0 /\ Started \subseteq stored.fp.known /\ stored.fp.known \subseteq f.fp.known
           /\ \A z \in f.fp.known : f.got[z] = 0 => stored.fp.tag[z] >= f.start[z]
  BY Zenon, <1>1, <1>2 DEF AtZips
<1>4. CASE f.got = None
  <2>1. Return("unchanged") /\ UNCHANGED stored  BY Zenon, <1>4 DEF ZipsDone
  <2>2. \A z \in Parts : f.got[z] = 0 /\ z \in Names \ {"list"}  BY Zenon, <1>4, Blank, FileNames
  <2>3. ASSUME stored.whole, NEW x \in Parts PROVE stored.data[x] >= f.start[x]
    <3>1. /\ x \in Names \ {"list"} /\ f.start[x] \in Nat /\ stored.data[x] \in Nat /\ stored.fp.tag[x] \in Nat
      BY <1>0, <2>2, FetchFields, StoredFields DEF Vers
    <3>2. CASE x \notin Started
      <4>1. ~(f.start[x] > 0)  BY Zenon, <3>2 DEF Started
      <4> QED  BY <3>1, <4>1
    <3>3. CASE x \in Started
      <4>1. CASE f.whole
        <5>1. x \in f.fp.known  BY Zenon, <1>3, <3>3, <4>1
        <5>2. f.got[x] > 0 /\ f.got[x] = 0  BY Zenon, <1>3, <2>2, <4>1, <5>1
        <5> QED  BY <5>2
      <4>2. CASE ~f.whole
        <5>1. x \in f.fp.known  BY Zenon, <1>3, <3>3, <4>2
        <5>2. stored.fp.tag[x] >= f.start[x]  BY Zenon, <1>3, <2>2, <4>2, <5>1
        <5>3. stored.fp.tag[x] <= stored.data[x]  BY Zenon, <1>0, <2>3, <3>1 DEF Fits, NotAhead
        <5> QED  BY <3>1, <5>2, <5>3
      <4> QED  BY Zenon, <4>1, <4>2
    <3> QED  BY Zenon, <3>2, <3>3
  <2>4. (IF kind = "debian" THEN {"db"} ELSE Files) = Parts  BY Zenon, <1>1 DEF Files
  <2> QED  BY Zenon, <1>0, <1>1, <2>1, <2>3, <2>4, Returns
<1>5. CASE f.got # None
  <2>1. Store(f.got, f.fp, f.whole, f.fp.known)  BY Zenon, <1>5 DEF ZipsDone
  <2>2. /\ f.got \in [Names -> Vers] /\ f.fp \in Fps /\ f.whole \in BOOLEAN
        /\ f.fp.known \in SUBSET (Parts \union Mirrors) /\ Behind(f.fp.tag)
    BY Zenon, <1>0, FetchFields DEF Seen
  <2>3. \A x \in Names : 0 <= f.got[x]  BY <2>2 DEF Vers
  <2>4. f.fp.date = 0 /\ \A x \in {"db"} \union (Parts \ f.fp.known) : f.fp.tag[x] = 0  BY Zenon, <1>3 DEF Undated
  <2>5. f.fp.date <= f.got["db"]  BY Zenon, <2>3, <2>4, FileNames
  <2>6. ASSUME f.whole, NEW x \in Names \ {"list"} PROVE f.fp.tag[x] <= f.got[x]
    <3>1. CASE x \in f.fp.known  BY Zenon, <1>3, <2>6, <3>1
    <3>2. CASE x \notin f.fp.known
      <4>1. x \in {"db"} \union (Parts \ f.fp.known)  BY Zenon, <2>6, <3>2 DEF Names
      <4> QED  BY Zenon, <2>3, <2>4, <2>6, <4>1
    <3> QED  BY Zenon, <3>1, <3>2
  <2>7. Lists(f.fp.tag["list"], f.fp.known)  BY Zenon, <1>3 DEF Lists
  <2>8. f.fp.tag["list"] # 0 => \A x \in f.fp.known : f.got[x] > 0  BY Zenon, <1>3
  <2>9. Quiet /\ Typed /\ f.fp.known \subseteq Parts  BY Zenon, <1>0, <1>1, <1>3
  <2> QED  BY Zenon, <2>1, <2>2, <2>5, <2>6, <2>7, <2>8, <2>9, Stored
<1> QED  BY Zenon, <1>4, <1>5

-----------------------------------------------------------------------------
(* Every step keeps the invariant.                                         *)
LEMMA NextStep ==
  ASSUME IInv, [Next]_vars
  PROVE  IInv'
<1>1. CASE UNCHANGED vars
  <2>0. /\ kind' = kind /\ srv' = srv /\ mirror' = mirror /\ tagged' = tagged /\ honours' = honours /\ stored' = stored
        /\ mapped' = mapped /\ etagMap' = etagMap /\ f' = f /\ fault' = fault
    BY Zenon, <1>1 DEF vars, server, sources
  <2>1. Ecosystems' = Ecosystems /\ Files' = Files /\ Started' = Started  BY Zenon, <2>0 DEF Ecosystems, Files, Started
  <2>2. Types' = Types  BY Zenon, <2>0, <2>1 DEF Types, ServerTypes
  <2>3. Where' = Where /\ Seen' = Seen  BY Zenon, <2>0 DEF Where, Seen, Behind
  <2>4. Fits' = Fits  BY Zenon, <2>0, <2>1 DEF Fits, NotAhead, TaggedListIsWhole, Lists
  <2>5. UnchangedIsCurrent' = UnchangedIsCurrent /\ AtSources' = AtSources /\ AtRepomd' = AtRepomd
        /\ AtMeta' = AtMeta /\ AtJson' = AtJson /\ AtList' = AtList /\ AtUpdates' = AtUpdates
    BY Zenon, <2>0, <2>1 DEF UnchangedIsCurrent, AtSources, AtRepomd, AtMeta, AtJson, AtList, AtUpdates, Undated
  <2>6. AtZips' = AtZips  BY Zenon, <2>0, <2>1 DEF AtZips, Lists, Undated
  <2>7. Learnt' = Learnt  BY Zenon, <2>0, <2>5, <2>6 DEF Learnt
  <2> QED  BY Zenon, <2>2, <2>3, <2>4, <2>7 DEF IInv
<1>2. CASE \E x \in Names : Publish(x)  BY Zenon, <1>2, PublishStep
<1>3. CASE \E m \in Mirrors : Sync(m)  BY Zenon, <1>3, SyncStep
<1>4. CASE Retag  BY Zenon, <1>4, RetagStep
<1>5. CASE Begin  BY Zenon, <1>5, BeginStep
<1>6. CASE GetUnchanged \/ GetNew  BY Zenon, <1>6, GetStep
<1>7. CASE \E x \in Parts : SourceUnchanged(x) \/ SourceRead(x) \/ SourceFailed(x)  BY Zenon, <1>7, SourceStep
<1>8. CASE SourcesDone  BY Zenon, <1>8, SourcesDoneStep
<1>9. CASE \E m \in Mirrors : RepoMD(m) \/ Updates(m)  BY Zenon, <1>9, RepoMDStep, UpdatesStep
<1>10. CASE \E x \in Parts : Meta(x) \/ Json(x)  BY Zenon, <1>10, MetaStep, JsonStep
<1>11. CASE MetaDone \/ JsonDone  BY Zenon, <1>11, MetaDoneStep, JsonDoneStep
<1>12. CASE List  BY Zenon, <1>12, ListStep
<1>13. CASE \E x \in Parts : Zip(x)  BY Zenon, <1>13, ZipStep
<1>14. CASE ZipsDone  BY Zenon, <1>14, ZipsDoneStep
<1>15. CASE Failed \/ Restart  BY Zenon, <1>15, FailedStep
<1> QED  BY Zenon, <1>1, <1>2, <1>3, <1>4, <1>5, <1>6, <1>7, <1>8, <1>9, <1>10, <1>11, <1>12, <1>13, <1>14, <1>15 DEF Next, Fetch

-----------------------------------------------------------------------------
(* However the server publishes, retags and answers, whatever fails: what  *)
(* a Fetch of each updater has learnt so far is not ahead of the server    *)
(* and fits what it will store.                                            *)
THEOREM FetchInvariant == Spec => []IInv
<1>1. Init => IInv  BY Zenon, InitInv
<1>2. IInv /\ [Next]_vars => IInv'  BY Zenon, NextStep
<1> QED  BY <1>1, <1>2, PTL DEF Spec

(* The invariant has every variable in its type.                           *)
LEMMA Types2 == IInv => TypeOK
<1> SUFFICES ASSUME IInv PROVE TypeOK  BY Zenon
<1>1. Types /\ Seen  BY Zenon DEF IInv
<1>2. Ecosystems \subseteq Parts  BY Zenon DEF Ecosystems
<1>3. IsFiniteSet(Parts)  BY Zenon, FeedsAssumption
<1>4. Cardinality(Ecosystems) <= Cardinality(Parts) /\ Cardinality(Ecosystems) \in Nat /\ Cardinality(Parts) \in Nat
  BY Zenon, <1>2, <1>3, FS_Subset, FS_CardinalityType
<1>5. MaxVer \in Nat /\ MaxVer >= 1  BY FeedsAssumption
<1>6. ASSUME NEW x \in Names PROVE srv[x] \in 0..MaxVer + Cardinality(Parts) /\ stored.fp.tag[x] \in 0..MaxVer + Cardinality(Parts)
  <2>1. srv[x] \in Nat /\ stored.fp.tag[x] \in Nat /\ stored.fp.tag[x] <= srv[x]
    BY Zenon, <1>1, <1>6, StoredFields DEF Seen, Behind
  <2>2. srv[x] <= MaxVer \/ srv[x] <= 1 + Cardinality(Ecosystems)  BY Zenon, <1>1, <1>6 DEF Types, ServerTypes
  <2> QED  BY <1>4, <1>5, <2>1, <2>2
<1>7. srv \in [Names -> 0..MaxVer + Cardinality(Parts)]
  BY Zenon, <1>6, StoredFields
<1>8. stored.fp.tag \in [Names -> 0..MaxVer + Cardinality(Parts)]
  BY Zenon, <1>6, StoredFields
<1>9. f.pc \in PCs /\ f.res \in {"none", "unchanged", "new", "error"}  BY Zenon, <1>1 DEF Types, Fetches
<1>10. stored.data \in [Names -> 0..MaxVer] /\ mapped \in [Parts -> 0..MaxVer] /\ etagMap \in [Parts -> 0..MaxVer]
       /\ mirror \in [Mirrors -> 1..MaxVer] /\ tagged \in BOOLEAN /\ honours \in BOOLEAN /\ kind \in Kinds
       /\ fault \in 0..MaxFault
  BY Zenon, <1>1, StoredFields DEF Types, ServerTypes, Vers
<1> QED  BY Zenon, <1>7, <1>8, <1>9, <1>10 DEF TypeOK, PCs

(* The fingerprint that an updater stores names nothing newer than what it *)
(* stored with it, so no version is skipped at the next Fetch, except when *)
(* aws took checksum and contents from two mirrors or osv stored the files *)
(* that changed: then nothing newer than what the server has.  An osv      *)
(* operation stored with the tag of the list holds the file of every       *)
(* ecosystem in it.                                                        *)
THEOREM FingerprintsConsistent == Spec => []Consistent
<1>1. IInv => FingerprintNotAhead
  <2>1. IInv => NotAhead /\ Behind(stored.fp.tag)  BY Zenon DEF IInv, Fits, Seen
  <2> QED  BY Zenon, <2>1 DEF NotAhead, Behind, FingerprintNotAhead
<1>2. IInv => Consistent  BY Zenon, <1>1, Types2 DEF IInv, Fits, Consistent
<1> QED  BY <1>2, FetchInvariant, PTL

(* A Fetch that answers Unchanged is right: what is stored is at least as  *)
(* new as what the server had when the Fetch began.                        *)
THEOREM UnchangedTrue == Spec => []UnchangedIsCurrent
<1>1. IInv => UnchangedIsCurrent
  <2>1. IInv => (f.pc = "idle" => UnchangedIsCurrent)  BY Zenon DEF IInv, Learnt
  <2> QED  BY Zenon, <2>1 DEF UnchangedIsCurrent
<1> QED  BY <1>1, FetchInvariant, PTL
=============================================================================
