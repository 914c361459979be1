---------------------------- MODULE MCFetchArena ----------------------------
(* Instances of FetchArena for TLC: proxies whose layers overlap.          *)
EXTENDS FetchArena

CONSTANTS a, b, c, l1, l2

(* An image of two layers, and images that are only its base layer.        *)
MCManifest == [p \in Proxies |-> IF p = a THEN <<l1, l2>> ELSE <<l1>>]
=============================================================================
