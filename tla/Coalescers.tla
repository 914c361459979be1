----------------------------- MODULE Coalescers -----------------------------
(***************************************************************************)
(* What an index report says of an image: the ecosystems' coalescers, the  *)
(* whiteout ecosystem and its Resolver.  An image is a sequence of layers, *)
(* each with a hash, the packages in the order the scanners stored them,   *)
(* at most one distribution, repositories and whiteout files.  A package   *)
(* has the fields id, key (name and version), db, path and rhcc (hinted);  *)
(* a path is the sequence of its names; a whiteout is the directory it is  *)
(* in and the name it hides, or Opaque.                                    *)
(***************************************************************************)
EXTENDS Integers, FiniteSets, Sequences, SequencesExt

Opaque == ".wh..opq"
NoDist == <<>>

EmptyReport == [pkgs |-> <<>>, envs |-> <<>>, dists |-> {}, repos |-> {}, files |-> <<>>]

Ids(pkgs) == {p.id : p \in Range(pkgs)}
Env(db, layer, dist, repos) == [db |-> db, layer |-> layer, dist |-> dist, repos |-> repos]

(* The element of a non-empty set of numbers that is nearest to one end. *)
Least(S) == CHOOSE i \in S : \A j \in S : i <= j
Greatest(S) == CHOOSE i \in S : \A j \in S : j <= i

-----------------------------------------------------------------------------
(* linux: dpkg, apk and rpm databases.  A database is what the newest layer *)
(* that has packages in it says.                                            *)
LayersOf(img, db) == {i \in DOMAIN img : \E p \in Range(img[i].pkgs) : p.db = db}

DBs(img) == {p.db : p \in UNION {Range(img[i].pkgs) : i \in DOMAIN img}}

(* DistSearcher.Search: the layer itself, those below, then those above. *)
DistSearch(img, n) ==
  LET has == {i \in DOMAIN img : img[i].dist # NoDist}
      below == {i \in has : i <= n}
  IN  CASE has = {} -> NoDist
        [] below # {} -> img[Greatest(below)].dist
        [] OTHER -> img[Least(has)].dist

(* PackageSearcher: where a package of this name, version and database is   *)
(* first met.                                                               *)
PackageSearch(img, p) ==
  Least({i \in DOMAIN img : \E q \in Range(img[i].pkgs) : q.key = p.key /\ q.db = p.db})

LinuxCoalesce(img) ==
  LET final == UNION {{p \in Range(img[Greatest(LayersOf(img, db))].pkgs) : p.db = db} : db \in DBs(img)}
      env(p) == LET n == PackageSearch(img, p) IN Env(p.db, img[n].hash, DistSearch(img, n), {})
      ids == {p.id : p \in final}
  IN  [EmptyReport EXCEPT
        !.pkgs = [id \in ids |-> CHOOSE p \in final : p.id = id],
        !.envs = [id \in ids |-> {env(p) : p \in {q \in final : q.id = id}}],
        !.dists = {img[i].dist : i \in DOMAIN img} \ {NoDist}]

-----------------------------------------------------------------------------
(* python, java, ruby and rhcc: every package of every layer that has a     *)
(* repository; a later layer replaces what an earlier one said.             *)
LanguageCoalesce(img, wanted(_)) ==
  LET use == {i \in DOMAIN img : img[i].repos # {}}
      at(id) == Greatest({i \in use : \E p \in Range(img[i].pkgs) : p.id = id /\ wanted(p)})
      ids == UNION {{p.id : p \in {q \in Range(img[i].pkgs) : wanted(q)}} : i \in use}
      pkg(id) == LET l == img[at(id)].pkgs IN l[Greatest({k \in DOMAIN l : l[k].id = id /\ wanted(l[k])})]
  IN  [EmptyReport EXCEPT
        !.pkgs = [id \in ids |-> pkg(id)],
        !.envs = [id \in ids |-> {Env(pkg(id).db, img[at(id)].hash, NoDist, {r.id : r \in img[at(id)].repos})}],
        !.repos = UNION {img[i].repos : i \in use}]

PythonCoalesce(img) == LET any(p) == TRUE IN LanguageCoalesce(img, any)
JavaCoalesce(img) == LET any(p) == TRUE IN LanguageCoalesce(img, any)
RubyCoalesce(img) == LET any(p) == TRUE IN LanguageCoalesce(img, any)
RhccCoalesce(img) == LET hinted(p) == p.rhcc IN LanguageCoalesce(img, hinted)

-----------------------------------------------------------------------------
(* rhel: layers without a product get the nearest earlier one's, and the    *)
(* first layers the nearest later one's.                                    *)
filterRedHatRepos(repos) == {r \in repos : r.key = "rhel-cpe-repository"}

ShareRepos(img) ==
  LET has == {i \in DOMAIN img : filterRedHatRepos(img[i].repos) # {}}
      from(i) == IF \E j \in has : j <= i THEN Greatest({j \in has : j <= i}) ELSE Least(has)
  IN  [i \in DOMAIN img |->
        IF has = {} THEN img[i] ELSE [img[i] EXCEPT !.repos = @ \cup filterRedHatRepos(img[from(i)].repos)]]

(* The distribution of a layer: the latest so far, or else the first there is. *)
CurDist(img, n) ==
  LET has == {i \in DOMAIN img : img[i].dist # NoDist}
  IN  CASE has = {} -> NoDist
        [] \E i \in has : i <= n -> img[Greatest({i \in has : i <= n})].dist
        [] OTHER -> img[Least(has)].dist

(* Mutant: the next layer with packages decides. *)
StillThereNext(img, i, p) ==
  LET later == {j \in DOMAIN img : j > i /\ img[j].pkgs # <<>>}
  IN  later = {} \/ \E q \in Range(img[Least(later)].pkgs) : q.id = p.id /\ q.db = p.db

(* Each later layer with packages overwrites `found', so the last decides. *)
StillThere(img, i, p) ==
  LET later == {j \in DOMAIN img : j > i /\ img[j].pkgs # <<>>}
  IN  later = {} \/ \E q \in Range(img[Greatest(later)].pkgs) : q.id = p.id /\ q.db = p.db

RhelCoalesce(image) ==
  LET img == ShareRepos(image)
      first(p) == Least({i \in DOMAIN img : \E q \in Range(img[i].pkgs) : q.id = p.id /\ q.db = p.db})
      env(p) == LET n == first(p) IN Env(p.db, img[n].hash, CurDist(img, n), {r.id : r \in img[n].repos})
      kept(i) == {p \in Range(img[i].pkgs) : StillThere(img, i, p)}
      ids == UNION {{p.id : p \in kept(i)} : i \in DOMAIN img}
      at(id) == Least({i \in DOMAIN img : \E p \in kept(i) : p.id = id})
      pkg(id) == LET l == img[at(id)].pkgs
                 IN  l[Least({k \in DOMAIN l : l[k].id = id /\ l[k] \in kept(at(id))})]
  IN  [EmptyReport EXCEPT
        !.pkgs = [id \in ids |-> pkg(id)],
        !.envs = [id \in ids |-> {env(pkg(id))}],
        !.dists = {img[i].dist : i \in DOMAIN img} \ {NoDist},
        !.repos = UNION {img[i].repos : i \in DOMAIN img}]

-----------------------------------------------------------------------------
(* whiteout: one file is kept for each layer, the last one stored. *)
WhiteoutCoalesce(img) ==
  [EmptyReport EXCEPT !.files =
     [h \in {img[i].hash : i \in {j \in DOMAIN img : img[j].files # <<>>}} |->
        Last((CHOOSE l \in Range(img) : l.hash = h).files)]]

(* filepath.Dir of a file in the root is ".", which no path begins with. *)
fileIsDeleted(fp, w) ==
  IF w.name = Opaque
  THEN w.dir # <<>> /\ w.dir # fp /\ IsPrefix(w.dir, fp)
  ELSE IsPrefix(Append(w.dir, w.name), fp)

Position(img, h) == Greatest({i \in DOMAIN img : img[i].hash = h})

(* Mutant: a layer's whiteouts hide its own files. *)
isChildOfOrSame(img, a, b) == Position(img, a) >= Position(img, b)

isChildOf(img, a, b) == Position(img, a) > Position(img, b)

Resolve(img, ir) ==
  LET newest(id) == Greatest({Position(img, e.layer) : e \in ir.envs[id]})
      deleted(id) == \E h \in DOMAIN ir.files : /\ isChildOf(img, h, img[newest(id)].hash)
                                                /\ fileIsDeleted(ir.pkgs[id].path, ir.files[h])
      keep == {id \in DOMAIN ir.pkgs : ~deleted(id)}
  IN  [ir EXCEPT !.pkgs = [id \in keep |-> ir.pkgs[id]], !.envs = [id \in keep |-> ir.envs[id]]]

(* MergeSR: environments add up; of two packages with one id either stays. *)
MergeSR(a, b) ==
  LET at(f, id) == IF id \in DOMAIN f THEN f[id] ELSE {}
      ids == DOMAIN a.pkgs \cup DOMAIN b.pkgs
  IN  [pkgs |-> [id \in ids |-> IF id \in DOMAIN b.pkgs THEN b.pkgs[id] ELSE a.pkgs[id]],
       envs |-> [id \in ids |-> at(a.envs, id) \cup at(b.envs, id)],
       dists |-> a.dists \cup b.dists, repos |-> a.repos \cup b.repos,
       files |-> [h \in DOMAIN a.files \cup DOMAIN b.files |-> IF h \in DOMAIN b.files THEN b.files[h] ELSE a.files[h]]]
=============================================================================
