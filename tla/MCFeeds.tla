------------------------------ MODULE MCFeeds -------------------------------
(* Instances of Feeds for TLC: two files or mirrors.                       *)
EXTENDS Feeds

CONSTANTS p1, p2, m1, m2

MCParts == {p1, p2}
MCMirrors == {m1, m2}
MCKinds == Single \union {"aws", "cvss", "osv"}
=============================================================================
