----------------------------- MODULE MCIndexer ------------------------------
(* Instances of Indexer for TLC: images over a common base layer.          *)
EXTENDS Indexer

CONSTANTS p1, p2, r1, r2, r3, m1, m2, l1, l2, A, B

MCLayersOf == [m \in Manifests |-> IF m = m1 THEN <<l1>> ELSE <<l1, l2>>]

MCBase == [m \in Manifests |-> <<l1>>]

MCProc == [r \in Reqs |-> IF r = r3 THEN p2 ELSE p1]
MCOneProc == [r \in Reqs |-> p1]

(* r1 and r3 want one manifest, r2 another.                                *)
MCMf == [r \in Reqs |-> IF r = r2 THEN m2 ELSE m1]

(* The scanners a process starts with, and after an upgrade.               *)
MCFixed == [p \in Procs |-> <<<<A, B>>>>]
MCNewer == [p \in Procs |-> IF p = p2 THEN <<<<A, B>>>> ELSE <<<<A>>>>]
MCSingle == [p \in Procs |-> <<<<A>>>>]
MCUpgrade == [p \in Procs |-> <<<<A>>, <<A, B>>>>]
=============================================================================
