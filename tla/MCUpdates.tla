----------------------------- MODULE MCUpdates ------------------------------
(* Instances of Updates for TLC.                                           *)
EXTENDS Updates

CONSTANTS i1, i2, a, b, x, y, z

(* x goes and is brought back.                                             *)
MCBack == [u \in Updaters |-> <<<<x, y>>, <<y>>, <<x, y>>>>]

(* x goes, y stays, z comes.                                               *)
MCShort == [u \in Updaters |-> <<<<x, y>>, <<y>>, <<y, z>>>>]
=============================================================================
