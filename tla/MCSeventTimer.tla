----------------------------- MODULE MCSeventTimer ----------------------------
(* Instances of SeventTimer for TLC. *)
EXTENDS SeventTimer, TLC

AnyPoint == PC

\* The timers are alike.
Alike == Permutations(Timer)
===============================================================================
