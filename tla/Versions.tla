------------------------------ MODULE Versions ------------------------------
(***************************************************************************)
(* The version schemes: claircore.Version and its ranges, PEP 440 versions *)
(* and specifiers, the tags of the Red Hat container catalog, and Maven    *)
(* versions.  Text is a sequence of tokens, already cut where the parsers  *)
(* cut it; numbers have the width the code gives them.                     *)
(***************************************************************************)
EXTENDS Integers, Sequences, SequencesExt, FiniteSets

MaxInt32 == 2147483647
MinInt32 == -2147483647 - 1

Sign(n) == CASE n < 0 -> -1 [] n = 0 -> 0 [] OTHER -> 1

-----------------------------------------------------------------------------
(* claircore.Version: a kind and ten 32-bit numbers. *)
Version10(kind, prefix) == [kind |-> kind, V |-> [i \in 1..10 |-> IF i <= Len(prefix) THEN prefix[i] ELSE 0]]

(* Versions of two kinds compare as their kinds do; here that is only that  *)
(* they differ.                                                             *)
Compare(a, b) ==
  LET diff == {i \in 1..10 : a.V[i] # b.V[i]}
      i == CHOOSE k \in diff : \A j \in diff : k <= j
  IN  CASE a.kind # b.kind -> 1
        [] diff = {} -> 0
        [] OTHER -> Sign(a.V[i] - b.V[i])

RangeContains(r, v) == Compare(r.lower, v) # 1 /\ Compare(r.upper, v) = 1

-----------------------------------------------------------------------------
(* PEP 440.  `spelled' has the groups of the regular expression: numbers,   *)
(* or Absent, and the label of a pre-release as it is written.              *)
Absent == -1
Number(n) == IF n = Absent THEN 0 ELSE n

Label(l) ==
  CASE l \in {"a", "alpha"} -> "a"
    [] l \in {"b", "beta"} -> "b"
    [] l \in {"rc", "c", "pre", "preview"} -> "rc"
    [] OTHER -> ""

ParsePep440(spelled) ==
  [epoch |-> Number(spelled.epoch), release |-> spelled.release, pre |-> Label(spelled.preL),
   preN |-> Number(spelled.preN), post |-> Number(spelled.post), dev |-> Number(spelled.dev)]

(* Mutant: the dev release stays in the last place. *)
Pep440VersionDevLast(v) ==
  LET rel(i) == IF i <= Len(v.release) THEN v.release[i] ELSE 0
      pre == CASE v.pre = "a" -> -3 [] v.pre = "b" -> -2 [] v.pre = "rc" -> -1 [] OTHER -> 0
  IN  Version10("pep440", <<v.epoch, rel(1), rel(2), rel(3), rel(4), rel(5), pre, v.preN, v.post, -v.dev>>)

(* Version: the dev release moves to the front when it has nothing to follow. *)
Pep440Version(v) ==
  LET rel(i) == IF i <= Len(v.release) THEN v.release[i] ELSE 0
      pre == CASE v.pre = "a" -> -3 [] v.pre = "b" -> -2 [] v.pre = "rc" -> -1 [] OTHER -> 0
      follows == v.post # 0 \/ pre # 0
  IN  Version10("pep440", <<v.epoch, rel(1), rel(2), rel(3), rel(4), rel(5),
        IF v.dev # 0 /\ ~follows THEN MinInt32 + v.dev ELSE pre,
        v.preN, v.post, IF v.dev # 0 /\ follows THEN -v.dev ELSE 0>>)

Pep440Compare(a, b) == Compare(Pep440Version(a), Pep440Version(b))

(* ParseRange; "~=" is a lower bound and an upper one without the last part. *)
Final(epoch, release) == [epoch |-> epoch, release |-> release, pre |-> "", preN |-> 0, post |-> 0, dev |-> 0]

Criteria(op, v) ==
  IF op # "~=" THEN {<<op, v>>}
  ELSE LET l == Len(v.release) - 1
       IN  {<<">=", v>>, <<"<", Final(v.epoch, [i \in 1..l |-> IF i = l THEN v.release[i] + 1 ELSE v.release[i]])>>}

CriterionMatch(c, v) ==
  LET cmp == Pep440Compare(v, c[2])
  IN  CASE c[1] = "==" -> cmp = 0
        [] c[1] = "!=" -> cmp # 0
        [] c[1] = "<=" -> cmp # 1
        [] c[1] = ">=" -> cmp # -1
        [] c[1] = "<" -> cmp = -1
        [] c[1] = ">" -> cmp = 1

(* A range is the conjunction of its specifiers, pairs of operator and version. *)
RangeMatch(specs, v) == \A s \in specs : \A c \in Criteria(s[1], s[2]) : CriterionMatch(c, v)

-----------------------------------------------------------------------------
(* rhctag: a tag has the numbers of its version and those of its revision,  *)
(* after a dash; Parse keeps the first two of the version.  Whole tags are  *)
(* compared as rpm versions: number by number, and what goes on is later.   *)
RhcTag(tag) == [original |-> tag, major |-> tag.ver[1], minor |-> IF Len(tag.ver) > 1 THEN tag.ver[2] ELSE 0]

RhcVersion(v, min) == Version10("rhctag", <<v.major, v.minor, IF min THEN 0 ELSE MaxInt32>>)

MinorStart(v) == RhcTag([ver |-> <<v.major, v.minor>>, rev |-> <<>>])

RpmSegments(a, b) ==
  LET diff == {i \in 1..Len(a) : i <= Len(b) /\ a[i] # b[i]}
      i == CHOOSE k \in diff : \A j \in diff : k <= j
  IN  IF diff = {} THEN Sign(Len(a) - Len(b)) ELSE Sign(a[i] - b[i])

RhcCompare(a, b) ==
  LET v == RpmSegments(a.original.ver, b.original.ver)
  IN  IF v # 0 THEN v ELSE RpmSegments(a.original.rev, b.original.rev)

RhcSort(tags) == SetToSortSeq(tags, LAMBDA a, b : RhcCompare(a, b) = -1)

-----------------------------------------------------------------------------
(* Maven.  A component is a number, a word or a list, each a record, and    *)
(* Nil is the component that is not there.  Tokens are numbers, words, "."  *)
(* and "-"; `Words' ranks the words as ordString does.                      *)
IntC(n) == [kind |-> "int", int |-> n, str |-> "", list |-> <<>>]
StrC(s) == [kind |-> "string", int |-> 0, str |-> s, list |-> <<>>]
ListC(l) == [kind |-> "list", int |-> 0, str |-> "", list |-> l]
Nil == [kind |-> "nil", int |-> 0, str |-> "", list |-> <<>>]

Qualifiers == [alpha |-> 0, a |-> 0, beta |-> 1, b |-> 1, milestone |-> 2, m |-> 2, rc |-> 3, cr |-> 3,
               snapshot |-> 4, ga |-> 5, final |-> 5, release |-> 5, sp |-> 6]
ordString(s) ==
  CASE s = "" -> 5
    [] s \in DOMAIN Qualifiers -> Qualifiers[s]
    [] OTHER -> CASE s = "0" -> 7 [] s = "jre" -> 8 [] OTHER -> 9

RECURSIVE ComponentCompare(_, _)
ComponentCompare(x, y) ==
  LET at(c, i) == IF i <= Len(c.list) THEN c.list[i] ELSE Nil
      pair(i) == IF i > Len(x.list) THEN -ComponentCompare(y.list[i], Nil) ELSE ComponentCompare(x.list[i], at(y, i))
      n == IF Len(x.list) > Len(y.list) THEN Len(x.list) ELSE Len(y.list)
      diff == {i \in 1..n : pair(i) # 0}
      first == CHOOSE k \in diff : \A j \in diff : k <= j
  IN  CASE x.kind = "int" -> IF y.kind \in {"int", "nil"} THEN Sign(x.int - y.int) ELSE 1
        [] x.kind = "list" /\ y.kind \in {"list", "nil"} -> IF diff = {} THEN 0 ELSE pair(first)
        [] x.kind = "list" -> IF y.kind = "int" THEN -1 ELSE 1
        [] x.kind = "string" -> IF y.kind \in {"string", "nil"} THEN Sign(ordString(x.str) - ordString(y.str)) ELSE -1

IsNull(c) ==
  CASE c.kind = "int" -> c.int = 0
    [] c.kind = "string" -> c.str = ""
    [] c.kind = "list" -> c.list = <<>>

(* normalize: from the end, null components go until one that is neither    *)
(* null nor a list; lists are normalized on the way, and stay when that     *)
(* empties them.                                                            *)
RECURSIVE Normalize(_, _)
Normalize(cs, i) ==
  IF i = 0 THEN cs
  ELSE CASE IsNull(cs[i]) -> Normalize(RemoveAt(cs, i), i - 1)
         [] cs[i].kind # "list" -> cs
         [] OTHER -> Normalize([cs EXCEPT ![i] = ListC(Normalize(cs[i].list, Len(cs[i].list)))], i - 1)

(* parseMavenVersion: the components of the list in hand, then, in a list   *)
(* of their own, what comes after a dash or a change between digits and     *)
(* letters.  An empty component is 0: a number or, after a word, the word   *)
(* "0".                                                                     *)
IsDigits(t) == t.kind = "num"
Piece(t) == IF IsDigits(t) THEN IntC(t.n) ELSE StrC(t.s)
Empty(digit) == IF digit THEN IntC(0) ELSE StrC("0")

(* A version that ends in a separator after a number is refused. *)
MavenParses(s) ==
  LET pieces == SelectSeq(s, LAMBDA t : t.kind \in {"num", "word"})
  IN  ~(s # <<>> /\ Last(s).kind \in {"dot", "dash"} /\ pieces # <<>> /\ IsDigits(Last(pieces)))

RECURSIVE ParseList(_, _, _)
ParseList(s, digit, cs) ==
  IF s = <<>> THEN Append(cs, StrC(""))
  ELSE LET t == Head(s)
           sep == t.kind \in {"dot", "dash"}
           comp == IF sep THEN Empty(digit) ELSE Piece(t)
           d == IF sep THEN digit ELSE IsDigits(t)
           rest == IF sep THEN s ELSE Tail(s)
           next == IF rest = <<>> THEN "end" ELSE Head(rest).kind
       IN  CASE next = "end" -> Append(cs, comp)
             [] next = "dot" -> ParseList(Tail(rest), d, Append(cs, comp))
             [] next = "dash" -> cs \o <<comp, ListC(ParseList(Tail(rest), d, <<>>))>>
             [] OTHER -> cs \o <<comp, ListC(ParseList(rest, d, <<>>))>>

ParseMaven(s) == LET cs == ParseList(s, FALSE, <<>>) IN ListC(Normalize(cs, Len(cs)))

MavenCompare(a, b) == ComponentCompare(ParseMaven(a), ParseMaven(b))
=============================================================================
