------------------------------ MODULE MCCtxLock ------------------------------
(* Instances of CtxLock for TLC.                                           *)
EXTENDS CtxLock, TLC

CONSTANTS p1, p2, c1, c2, c3, k1, k2, b1, b2

(* Two clients of one process and one of another.                          *)
MCHome == [c \in Clients |-> IF c = c3 THEN p2 ELSE p1]

(* The two clients of one process are alike.                               *)
MCAlike == Permutations({c1, c2})

(* Bound: p2 keeps its first connection; p1 loses its own and reconnects.  *)
MCLoser == gen[p2] <= 1 /\ sess[<<p2, 1>>] \in {"new", "up"}

(* Two keys with the same hash.                                            *)
MCCollide == [k \in Keys |-> b1]
=============================================================================
